------------------------------ MODULE Transport ------------------------------
(***************************************************************************)
(* One direction of a connection between two components: the sender's          *)
(* NetworkTransport (runtime/NetworkTransport.cpp) with its channels           *)
(* (foundation/Channel.cpp, ChannelRouter.cpp), its TcpConnection, the         *)
(* kernels' buffers, and the receiver's NetworkTransport.                      *)
(*                                                                         *)
(* A frame travels in pieces: its header and as many more as its payload       *)
(* weighs.  The kernel takes what fits, so a frame may arrive in parts.        *)
(*                                                                         *)
(* What is abstracted: the content of messages, the byte layout of headers     *)
(* and of invocations, statistics, the idle time before a heartbeat.           *)
(***************************************************************************)
EXTENDS Naturals, Sequences, FiniteSets, SequencesExt

CONSTANTS
    High,           \* Channel::Watermark::high
    MaxSendBuffer,  \* TcpConnection::maxSendBuffer_, 0: no limit
    SendMax,        \* Config::maxMessageSize of the sender
    RecvMax,        \* and of the receiver
    WireCapacity,   \* what the kernels hold
    Weights,        \* payloads that components send
    MaxSends, MaxHeartbeats     \* bounds

ASSUME TransportAssumption ==
    /\ High \in Nat \ {0} /\ WireCapacity \in Nat \ {0}
    /\ {MaxSendBuffer, SendMax, RecvMax, MaxSends, MaxHeartbeats} \subseteq Nat
    /\ Weights \subseteq Nat

Classes == {"Control", "Reliable", "Unreliable"}
Messages == [id : 0..MaxSends, class : Classes, weight : Weights \cup {0}]
Pieces == [of : Messages, n : Nat]

VARIABLES
    autoFlush,      \* Config::autoFlush
    channel,        \* router_: Channel::outbound_ of each class
    sendBuffer,     \* TcpConnection::sendBuffer_, in pieces
    connection,     \* the sender's: "pending" (connectPending_), "open", "closed"
    wire,           \* the kernels' buffers
    peer,           \* the receiver's connection
    recvBuffer, inbox,
    handed,         \* what receive() has handed over
    sends, heartbeats, refused  \* history

senderVars == <<autoFlush, channel, sendBuffer, connection>>
receiverVars == <<peer, recvBuffer, inbox, handed>>
vars == <<senderVars, wire, receiverVars, sends, heartbeats, refused>>

Init ==
    /\ autoFlush \in BOOLEAN
    /\ channel = [c \in Classes |-> <<>>]
    /\ connection = "pending" /\ peer = "open"
    /\ sendBuffer = <<>> /\ wire = <<>> /\ recvBuffer = <<>>
    /\ inbox = <<>> /\ handed = <<>>
    /\ sends = 0 /\ heartbeats = 0 /\ refused = {}

-----------------------------------------------------------------------------
(* Frames.                                                                   *)
Frame(m) == [i \in 1..(m.weight + 1) |-> [of |-> m, n |-> i]]
Framed(ms) == FlattenSeq([i \in DOMAIN ms |-> Frame(ms[i])])

IsHeader(piece) == piece.n = 1
IsLast(piece) == piece.n = piece.of.weight + 1

\* drainAll: the classes by priority, each in order.
Drained(ch) == Framed(ch["Control"] \o ch["Reliable"] \o ch["Unreliable"])

\* Channel::send
Queued(queue, class, m) ==
    IF class = "Unreliable" /\ Len(queue) >= High THEN Append(Tail(queue), m)
    ELSE Append(queue, m)

Smaller(a, b) == IF a < b THEN a ELSE b

\* Mutant: after a partial write the whole buffer is sent again.
PushedAgain(buffer, now) ==
    LET n == IF now = "open" THEN Smaller(Len(buffer), WireCapacity - Len(wire)) ELSE 0
    IN /\ wire' = wire \o SubSeq(buffer, 1, n)
       /\ sendBuffer' = IF n = Len(buffer) THEN <<>> ELSE buffer
       /\ connection' = now

\* trySendBuffered: the kernel takes what fits, nothing before the handshake;
\* if the peer has gone the connection is.
Pushed(buffer, now) ==
    IF now = "open" /\ peer = "closed" /\ buffer # <<>>
    THEN connection' = "closed" /\ sendBuffer' = buffer /\ UNCHANGED wire
    ELSE LET n == IF now = "open"
                  THEN Smaller(Len(buffer), WireCapacity - Len(wire)) ELSE 0
         IN /\ wire' = wire \o SubSeq(buffer, 1, n)
            /\ sendBuffer' = SubSeq(buffer, n + 1, Len(buffer))
            /\ connection' = now

\* write: the write buffer has its limit.
Fits(waiting, pieces) == MaxSendBuffer = 0 \/ waiting + Len(pieces) <= MaxSendBuffer

\* flushOutbound: the channels are drained and then written to the connection,
\* whose refusal nobody notices.  When a tick has pumped before, the kernel has
\* had its share of the buffer.
Flushed(ch, pumped, now) ==
    LET pieces == Drained(ch)
        taken == IF pumped /\ now = "open" THEN WireCapacity - Len(wire) ELSE 0
        waiting == Len(sendBuffer) - Smaller(taken, Len(sendBuffer))
        fits == Fits(waiting, pieces)
    IN /\ channel' = [c \in Classes |-> <<>>]
       /\ refused' = refused \cup (IF fits THEN {} ELSE {p.of.id : p \in Range(pieces)})
       /\ IF fits THEN Pushed(sendBuffer \o pieces, now)
          ELSE IF pumped THEN Pushed(sendBuffer, now)
          ELSE connection' = now /\ UNCHANGED <<sendBuffer, wire>>

-----------------------------------------------------------------------------
(* The sender.                                                               *)
\* send: refused when the connection is closed, the message is too big or the
\* channel of ordered messages is at its watermark.
Send(class, weight) ==
    /\ sends < MaxSends /\ connection # "closed" /\ weight <= SendMax
    /\ class = "Reliable" => Len(channel[class]) < High
    /\ sends' = sends + 1
    /\ LET m == [id |-> sends + 1, class |-> class, weight |-> weight]
           ch == [channel EXCEPT ![class] = Queued(@, class, m)]
       IN IF autoFlush THEN Flushed(ch, FALSE, connection)
          ELSE channel' = ch /\ UNCHANGED <<sendBuffer, connection, wire, refused>>
    /\ UNCHANGED <<autoFlush, receiverVars, heartbeats>>

\* tick: pump settles the handshake, notices that the peer has gone and sends on
\* what is buffered; then the channels are flushed, and after a long silence a
\* heartbeat is.
Settled(outcome) ==
    IF connection = "pending" /\ outcome # "open" THEN outcome
    ELSE IF peer = "closed" THEN "closed" ELSE "open"

Heartbeat == [id |-> 0, class |-> "Control", weight |-> 0]

Tick(outcome, idle) ==
    /\ connection # "closed" /\ (idle => heartbeats < MaxHeartbeats /\ Drained(channel) = <<>>)
    /\ heartbeats' = IF idle THEN heartbeats + 1 ELSE heartbeats
    /\ LET now == Settled(outcome)
           ch == IF idle THEN [channel EXCEPT !["Control"] = Append(@, Heartbeat)]
                 ELSE channel
       IN IF now = "closed"
          THEN connection' = now /\ UNCHANGED <<channel, sendBuffer, wire, refused>>
          ELSE Flushed(ch, TRUE, now)
    /\ UNCHANGED <<autoFlush, receiverVars, sends>>

\* close, with the transport's end: what was buffered is gone.
Close ==
    /\ connection # "closed"
    /\ connection' = "closed" /\ sendBuffer' = <<>>
    /\ UNCHANGED <<autoFlush, channel, wire, receiverVars, sends, heartbeats, refused>>

-----------------------------------------------------------------------------
(* The receiver.                                                             *)
\* parseInbound: whole frames become invocations in the inbox (heartbeats are
\* consumed), the rest waits; a header that announces too much ends the
\* connection there.
TooBig(buffer) == {i \in DOMAIN buffer :
                       IsHeader(buffer[i]) /\ buffer[i].of.weight > RecvMax}
Ends(buffer, upTo) == {i \in 1..upTo : IsLast(buffer[i]) /\ buffer[i].n <= i}
Parsed(buffer, upTo) ==
    LET ends == Ends(buffer, upTo)
        parsed == [i \in 1..upTo |-> IF i \in ends THEN <<buffer[i].of>> ELSE <<>>]
    IN SelectSeq(FlattenSeq(parsed), LAMBDA m : m.class # "Control")

\* Mutant: what follows the last whole frame is dropped with it.
LeftOverDropped(buffer) == IF Ends(buffer, Len(buffer)) = {} THEN buffer ELSE <<>>

LeftOver(buffer) ==
    LET ends == Ends(buffer, Len(buffer))
        last == CHOOSE i \in ends \cup {0} : \A j \in ends : j <= i
    IN SubSeq(buffer, last + 1, Len(buffer))

PeerTick ==
    /\ peer = "open"
    /\ wire # <<>> \/ connection = "closed"
    /\ LET buffer == recvBuffer \o wire
           bad == TooBig(buffer)
           first == CHOOSE i \in bad : \A j \in bad : i <= j
       IN IF bad # {}
          THEN /\ inbox' = inbox \o Parsed(buffer, first - 1)
               /\ peer' = "closed" /\ recvBuffer' = <<>>
          ELSE /\ inbox' = inbox \o Parsed(buffer, Len(buffer))
               /\ recvBuffer' = LeftOver(buffer)
               /\ peer' = IF connection = "closed" THEN "closed" ELSE peer
    /\ wire' = <<>>
    /\ UNCHANGED <<senderVars, handed, sends, heartbeats, refused>>

PeerClose ==
    /\ peer = "open"
    /\ peer' = "closed" /\ wire' = <<>>
    /\ UNCHANGED <<senderVars, recvBuffer, inbox, handed, sends, heartbeats, refused>>

\* receive, one invocation at a time.
Receive ==
    /\ inbox # <<>>
    /\ handed' = Append(handed, Head(inbox))
    /\ inbox' = Tail(inbox)
    /\ UNCHANGED <<senderVars, wire, peer, recvBuffer, sends, heartbeats, refused>>

Next ==
    \/ \E class \in {"Reliable", "Unreliable"}, weight \in Weights : Send(class, weight)
    \/ \E outcome \in {"pending", "open", "closed"}, idle \in BOOLEAN : Tick(outcome, idle)
    \/ Close \/ PeerTick \/ PeerClose \/ Receive

\* Both components tick for ever, a handshake ends, and invocations are received.
Fairness ==
    /\ WF_vars(\E outcome \in {"open", "closed"} : Tick(outcome, FALSE))
    /\ WF_vars(PeerTick) /\ WF_vars(Receive)

Spec == Init /\ [][Next]_vars /\ Fairness

-----------------------------------------------------------------------------
\* Each variable is of its type, and the queues have their limits.
TypeOK ==
    /\ autoFlush \in BOOLEAN
    /\ \A c \in Classes : /\ Len(channel[c]) <= High
                          /\ Range(channel[c]) \subseteq Messages
    /\ MaxSendBuffer # 0 => Len(sendBuffer) <= MaxSendBuffer
    /\ connection \in {"pending", "open", "closed"} /\ peer \in {"open", "closed"}
    /\ \A buffer \in {sendBuffer, wire, recvBuffer} :
          \A i \in DOMAIN buffer : buffer[i].of \in Messages /\ buffer[i].n \in Nat
    /\ Len(wire) <= WireCapacity
    /\ Range(inbox) \cup Range(handed) \subseteq Messages

\* What lies between the sender's queue and the receiver's components, as far as
\* it can still arrive.
Reliable(ms) == SelectSeq(ms, LAMBDA m : m.class = "Reliable")
InPieces(pieces) ==
    LET lasts == SelectSeq(pieces, IsLast)
    IN [i \in DOMAIN lasts |-> lasts[i].of]
InFlight ==
    inbox \o (IF peer = "closed" THEN <<>>
              ELSE InPieces(recvBuffer \o wire) \o
                   (IF connection = "closed" THEN <<>>
                    ELSE InPieces(sendBuffer) \o channel["Reliable"]))

Queue == INSTANCE LossyQueue
            WITH travelling <- Reliable(InFlight), received <- Reliable(handed)

\* Ordered messages arrive whole, once and in order through channels, partial
\* writes, the frames' reassembly and a refused flush; what a refusal or the end
\* of a connection loses is the latest of what was on its way.
KeepsOrder == Queue!Spec

\* An ordered message that send accepted arrives, unless the connection ends or
\* its flush was refused: nothing is forgotten in a buffer or half received.
AcceptedArrives ==
    \A i \in 1..MaxSends :
        (\E k \in DOMAIN channel["Reliable"] : channel["Reliable"][k].id = i)
        \/ (\E k \in DOMAIN sendBuffer : sendBuffer[k].of.id = i)
            ~> \/ \E k \in DOMAIN handed : handed[k].id = i
               \/ i \in refused \/ connection = "closed" \/ peer = "closed"
=============================================================================
