--------------------------- MODULE LoginApp_proofs ---------------------------
(***************************************************************************)
(* Proofs about LoginApp, for all sets of accounts, passwords and           *)
(* connections and all values of the bounds: type correctness, that no      *)
(* account is registered twice, that a link that is Up is the connection    *)
(* DBApp answers on, and, as long as no wait ends early, that a session row  *)
(* is of the account it names.                                              *)
(***************************************************************************)
EXTENDS LoginApp, TLAPS

\* Answers travel only over the connection that DBApp's hub has registered.
AnswersComeFromPeer ==
    \A c \in live : toLogin[c] # <<>> => peer = c

Inv ==
    /\ TypeOK
    /\ AccountIsUnique
    /\ AnswersComeFromPeer
    /\ UpIsReachable

-----------------------------------------------------------------------------
(* Queues and messages *)

\* A queue stays well typed when a message is added at its end, when its first
\* message is taken off, and when it is emptied.
LEMMA QueueType ==
    ASSUME NEW S, NEW q \in [Connections -> Seq(S)], NEW c \in Connections
    PROVE  /\ \A m \in S : [q EXCEPT ![c] = Append(@, m)] \in [Connections -> Seq(S)]
           /\ [q EXCEPT ![c] = <<>>] \in [Connections -> Seq(S)]
           /\ \A m \in S : [q EXCEPT ![c] = <<m>>] \in [Connections -> Seq(S)]
           /\ q[c] # <<>> => /\ Head(q[c]) \in S
                             /\ [q EXCEPT ![c] = Tail(@)] \in [Connections -> Seq(S)]
<1>1. \A m \in S : Append(q[c], m) \in Seq(S) /\ <<m>> \in Seq(S)
    OBVIOUS
<1>2. q[c] # <<>> => Head(q[c]) \in S /\ Tail(q[c]) \in Seq(S)
    OBVIOUS
<1>3. <<>> \in Seq(S)
    OBVIOUS
<1> QED
    BY <1>1, <1>2, <1>3

\* What Spend leaves behind is well typed.
LEMMA SpendType ==
    ASSUME NEW what \in Kinds, spent \in [Kinds -> Nat], Spend(what)
    PROVE  spent' \in [Kinds -> Nat]
BY DEF Spend

\* The requests of a login are requests.
LEMMA RequestType ==
    ASSUME NEW l \in Logins
    PROVE  /\ [type |-> "queryAccount", name |-> l.name] \in Requests
           /\ [type |-> "createAccount", name |-> l.name,
               password |-> l.password] \in Requests
BY DEF Logins, Requests

\* The ids that the scan finds are accounts of that name; there is at most one.
LEMMA IdsOfName ==
    ASSUME TypeOK, AccountIsUnique, NEW name
    PROVE  \A i \in IdsOf(name) :
               /\ i \in Nat /\ i \in DOMAIN accounts
               /\ accounts[i] \in Logins /\ accounts[i].name = name
               /\ \A j \in IdsOf(name) : i <= j
<1>1. \A i \in DOMAIN accounts : i \in Nat /\ accounts[i] \in Logins
    BY DEF TypeOK
<1>2. \A i, j \in IdsOf(name) : i = j
    BY DEF IdsOf, AccountIsUnique
<1> QED
    BY <1>1, <1>2 DEF IdsOf

\* The answer of a look-up is an answer.
LEMMA LookupType ==
    ASSUME TypeOK, AccountIsUnique, NEW m \in Requests,
           m.type \in {"listTypes", "queryAccount"}
    PROVE  Lookup(m) \in Answers
<1>1. CASE m.type = "listTypes"
    BY <1>1 DEF Lookup, Answers
<1>2. CASE m.type # "listTypes" /\ IdsOf(m.name) = {}
    BY <1>2 DEF Lookup, Answers
<1>3. CASE m.type # "listTypes" /\ IdsOf(m.name) # {}
    <2> DEFINE i == CHOOSE i \in IdsOf(m.name) : \A j \in IdsOf(m.name) : i <= j
    <2>1. \E k \in IdsOf(m.name) : \A j \in IdsOf(m.name) : k <= j
        BY <1>3, IdsOfName
    <2>2. i \in IdsOf(m.name)
        BY <2>1
    <2>3. i \in Nat /\ accounts[i].password \in Passwords
        BY <2>2, IdsOfName DEF Logins
    <2>4. Lookup(m) = [type |-> "queryAccount", found |-> TRUE, id |-> i,
                       password |-> accounts[i].password]
        BY <1>3 DEF Lookup
    <2> HIDE DEF i
    <2>5. Lookup(m) \in [type : {"queryAccount"}, found : {TRUE}, id : Nat,
                         password : Passwords]
        BY <2>3, <2>4
    <2> QED
        BY <2>5, Zenon DEF Answers
<1> QED
    BY <1>1, <1>2, <1>3

\* An answer of DBApp is appended to the queue of the peer it is sent to, or
\* goes nowhere.
LEMMA RespondType ==
    ASSUME toLogin \in [Connections -> Seq(Answers)], live \subseteq Connections,
           NEW to, NEW answer \in Answers
    PROVE  /\ Respond(toLogin, to, answer) \in [Connections -> Seq(Answers)]
           /\ \A c \in Connections :
                 c # to => Respond(toLogin, to, answer)[c] = toLogin[c]
<1>1. CASE to \in live
    BY <1>1, QueueType DEF Respond
<1>2. CASE to \notin live
    BY <1>2 DEF Respond
<1> QED
    BY <1>1, <1>2

\* Handling a request keeps the accounts and the answers well typed, keeps the
\* accounts unique, and writes to no queue but that of the peer.
LEMMA HandleFacts ==
    ASSUME TypeOK, AccountIsUnique, NEW m \in Requests, NEW to, Handle(m, to)
    PROVE  /\ accounts' \in Seq(Logins)
           /\ AccountIsUnique'
           /\ toLogin' \in [Connections -> Seq(Answers)]
           /\ \A c \in Connections : c # to => toLogin'[c] = toLogin[c]
<1>1. /\ accounts \in Seq(Logins)
      /\ toLogin \in [Connections -> Seq(Answers)]
      /\ live \subseteq Connections
    BY DEF TypeOK
<1>2. CASE /\ m.type \in {"listTypes", "queryAccount"}
           /\ toLogin' = Respond(toLogin, to, Lookup(m))
           /\ UNCHANGED accounts
    <2>1. Lookup(m) \in Answers
        BY <1>2, LookupType
    <2> QED
        BY <1>1, <1>2, <2>1, RespondType DEF AccountIsUnique
<1>3. CASE /\ m.type = "createAccount"
           /\ MayCreate(m.name)
           /\ accounts' = Append(accounts,
                                 [name |-> m.name, password |-> m.password])
           /\ toLogin' = Respond(toLogin, to, [type |-> "createAccount",
                                 created |-> TRUE, id |-> Len(accounts) + 1])
    <2> DEFINE new == [name |-> m.name, password |-> m.password]
               ans == [type |-> "createAccount", created |-> TRUE,
                       id |-> Len(accounts) + 1]
    <2>1. new \in Logins
        BY <1>3 DEF Requests, Logins
    <2>2. ans \in Answers
        <3>1. Len(accounts) + 1 \in Nat
            BY <1>1
        <3>2. ans \in [type : {"createAccount"}, created : {TRUE}, id : Nat]
            BY <3>1
        <3> QED
            BY <3>2, Zenon DEF Answers
    <2>3. accounts' \in Seq(Logins)
        BY <1>1, <1>3, <2>1
    <2>4. AccountIsUnique'
        <3>1. \A i \in DOMAIN accounts : accounts[i].name # m.name
            BY <1>3 DEF MayCreate, IdsOf
        <3>2. /\ DOMAIN accounts' = DOMAIN accounts \cup {Len(accounts) + 1}
              /\ accounts'[Len(accounts) + 1].name = m.name
              /\ \A i \in DOMAIN accounts : accounts'[i] = accounts[i]
            BY <1>1, <1>3
        <3> QED
            BY <3>1, <3>2 DEF AccountIsUnique
    <2>5. toLogin' = Respond(toLogin, to, ans)
        BY <1>3
    <2> QED
        BY <1>1, <2>2, <2>3, <2>4, <2>5, RespondType
<1>4. CASE /\ m.type = "createAccount"
           /\ toLogin' = Respond(toLogin, to,
                                 [type |-> "createAccount", created |-> FALSE])
           /\ UNCHANGED accounts
    <2>1. [type |-> "createAccount", created |-> FALSE] \in Answers
        BY DEF Answers
    <2> QED
        BY <1>1, <1>4, <2>1, RespondType DEF AccountIsUnique
<1> QED
    BY <1>2, <1>3, <1>4 DEF Handle

\* Closing the connection of the link leaves a link in back-off, and takes
\* nothing from the other connections.
LEMMA MarkDownFacts ==
    ASSUME Inv, transport \in Connections, MarkDbLinkDown, peer' = peer
    PROVE  /\ link' = "Backoff" /\ transport' = NoConnection
           /\ live' \subseteq Connections /\ awaiting' \subseteq Connections
           /\ toDB' \in [Connections -> Seq(Requests)]
           /\ toLogin' \in [Connections -> Seq(Answers)]
           /\ AnswersComeFromPeer' /\ UpIsReachable'
<1>1. /\ live \subseteq Connections /\ awaiting \subseteq Connections
      /\ toDB \in [Connections -> Seq(Requests)]
      /\ toLogin \in [Connections -> Seq(Answers)]
    BY DEF Inv, TypeOK
<1>2. /\ link' = "Backoff" /\ transport' = NoConnection
      /\ live' \subseteq Connections /\ awaiting' \subseteq Connections
    BY <1>1 DEF MarkDbLinkDown
<1>3. toDB' \in [Connections -> Seq(Requests)]
    <2>1. [toDB EXCEPT ![transport] = <<>>] \in [Connections -> Seq(Requests)]
        BY <1>1, QueueType
    <2> QED
        BY <1>1, <2>1 DEF MarkDbLinkDown
<1>4. toLogin' \in [Connections -> Seq(Answers)]
    BY <1>1, QueueType DEF MarkDbLinkDown
<1>5. AnswersComeFromPeer'
    BY <1>1 DEF Inv, AnswersComeFromPeer, MarkDbLinkDown
<1>6. UpIsReachable'
    BY <1>2 DEF UpIsReachable
<1> QED
    BY <1>2, <1>3, <1>4, <1>5, <1>6

\* Sending keeps the queues towards DBApp well typed.
LEMMA SentType ==
    ASSUME TypeOK, transport \in Connections, NEW m \in Requests
    PROVE  Sent(m) \in [Connections -> Seq(Requests)]
BY QueueType DEF TypeOK, Sent

\* A message that arrives may confirm the link: the peer it came from is then
\* the one DBApp answers on.
LEMMA ReceiveFacts ==
    ASSUME Inv, transport \in Connections, Receive,
           UNCHANGED <<transport, peer, live>>
    PROVE  /\ link' \in {"Backoff", "PendingAck", "Up"}
           /\ link' = "Backoff" <=> link = "Backoff"
           /\ Head(toLogin[transport]) \in Answers
           /\ toLogin' \in [Connections -> Seq(Answers)]
           /\ AnswersComeFromPeer' /\ UpIsReachable'
<1>1. /\ link \in {"Backoff", "PendingAck", "Up"}
      /\ live \subseteq Connections
      /\ toLogin \in [Connections -> Seq(Answers)]
    BY DEF Inv, TypeOK
<1>2. /\ link' \in {"Backoff", "PendingAck", "Up"}
      /\ link' = "Backoff" <=> link = "Backoff"
    BY <1>1 DEF Receive, Confirmed
<1>3. /\ Head(toLogin[transport]) \in Answers
      /\ toLogin' \in [Connections -> Seq(Answers)]
    BY <1>1, QueueType DEF Receive
<1>4. \A c \in Connections : toLogin'[c] # <<>> => toLogin[c] # <<>>
    BY <1>1 DEF Receive
<1>5. AnswersComeFromPeer'
    BY <1>1, <1>4 DEF Inv, AnswersComeFromPeer
<1>6. UpIsReachable'
    BY DEF Inv, Receive, AnswersComeFromPeer, UpIsReachable
<1> QED
    BY <1>2, <1>3, <1>5, <1>6

-----------------------------------------------------------------------------
(* The invariant *)

LEMMA InvInit == Init => Inv
<1> SUFFICES ASSUME Init PROVE Inv
    OBVIOUS
<1>1. <<>> \in Seq(Logins) /\ <<>> \in Seq(Requests) /\ <<>> \in Seq(Answers)
    OBVIOUS
<1>2. TypeOK
    BY <1>1 DEF Init, TypeOK
<1>3. AccountIsUnique
    BY DEF Init, AccountIsUnique
<1> QED
    BY <1>2, <1>3 DEF Init, Inv, AnswersComeFromPeer, UpIsReachable

LEMMA InvStep == Inv /\ [Next]_vars => Inv'
<1> SUFFICES ASSUME Inv, [Next]_vars PROVE Inv'
    OBVIOUS
<1>1. /\ link \in {"Backoff", "PendingAck", "Up"}
      /\ transport \in Connections \cup {NoConnection}
      /\ transport = NoConnection <=> link = "Backoff"
      /\ pc \in {"idle", "queryAccount", "createAccount"}
      /\ login \in Logins \cup {NoLogin}
      /\ login = NoLogin <=> pc = "idle"
      /\ pc # "idle" => transport # NoConnection
      /\ sessions \subseteq [account : Accounts, userId : Nat]
      /\ running \in BOOLEAN
      /\ peer \in Connections \cup {NoConnection}
      /\ awaiting \subseteq Connections
      /\ accounts \in Seq(Logins)
      /\ live \subseteq Connections
      /\ toDB \in [Connections -> Seq(Requests)]
      /\ toLogin \in [Connections -> Seq(Answers)]
      /\ spent \in [Kinds -> Nat]
      /\ TypeOK /\ AccountIsUnique /\ AnswersComeFromPeer /\ UpIsReachable
    BY DEF Inv, TypeOK
<1>2. NoLogin \notin Logins
    BY ConstantsAssumption DEF Logins
<1>3. accounts' = accounts => AccountIsUnique'
    BY <1>1 DEF AccountIsUnique
<1>4. CASE DrainInvocations
    <2>1. transport \in Connections
        BY <1>1, <1>4 DEF DrainInvocations
    <2>2. toLogin' \in [Connections -> Seq(Answers)]
        BY <1>1, <1>4, <2>1, QueueType DEF DrainInvocations
    <2>3. TypeOK'
        BY <1>1, <1>4, <2>2 DEF DrainInvocations, Confirmed, TypeOK, dbVars
    <2>4. AnswersComeFromPeer'
        BY <1>1, <1>4, <2>1
        DEF DrainInvocations, AnswersComeFromPeer, dbVars
    <2>5. UpIsReachable'
        BY <1>1, <1>4
        DEF DrainInvocations, AnswersComeFromPeer, UpIsReachable, dbVars
    <2> QED
        BY <1>4, <1>3, <2>3, <2>4, <2>5 DEF Inv, DrainInvocations, dbVars
<1>5. CASE AttemptDbLink
    <2>1. PICK c \in Unused :
              /\ transport' = c
              /\ link' = "PendingAck"
              /\ toLogin' = [toLogin EXCEPT ![c] = <<>>]
              /\ IF running
                 THEN /\ live' = live \cup {c}
                      /\ awaiting' = awaiting \cup {c}
                      /\ toDB' = [toDB EXCEPT ![c] = <<[type |-> "listTypes"]>>]
                 ELSE /\ toDB' = [toDB EXCEPT ![c] = <<>>]
                      /\ UNCHANGED <<live, awaiting>>
        BY <1>5 DEF AttemptDbLink
    <2>2. c \in Connections /\ c # NoConnection
        BY ConstantsAssumption DEF Unused
    <2>3. [type |-> "listTypes"] \in Requests
        BY DEF Requests
    <2>4. toDB' \in [Connections -> Seq(Requests)]
        <3>1. /\ [toDB EXCEPT ![c] = <<[type |-> "listTypes"]>>]
                     \in [Connections -> Seq(Requests)]
              /\ [toDB EXCEPT ![c] = <<>>] \in [Connections -> Seq(Requests)]
            BY <1>1, <2>2, <2>3, QueueType
        <3> QED
            BY <2>1, <3>1
    <2>5. toLogin' \in [Connections -> Seq(Answers)]
        BY <1>1, <2>1, <2>2, QueueType
    <2>6. live' \subseteq live \cup {c} /\ awaiting' \subseteq Connections
        BY <1>1, <2>1, <2>2
    <2>7. TypeOK'
        BY <1>1, <1>5, <2>1, <2>2, <2>4, <2>5, <2>6 DEF AttemptDbLink, TypeOK
    <2>8. AnswersComeFromPeer'
        BY <1>1, <1>5, <2>1, <2>2, <2>6 DEF AttemptDbLink, AnswersComeFromPeer
    <2>9. UpIsReachable'
        BY <2>1 DEF UpIsReachable
    <2> QED
        BY <1>5, <1>3, <2>7, <2>8, <2>9 DEF Inv, AttemptDbLink
<1>6. CASE LoseDbLink \/ ProbeAckTimeout
    <2>1. /\ transport \in Connections
          /\ MarkDbLinkDown
          /\ UNCHANGED <<pc, login, sessions, running, peer, accounts>>
          /\ pc = "idle"
        BY <1>1, <1>6 DEF LoseDbLink, ProbeAckTimeout, Supervised
    <2>2. spent' \in [Kinds -> Nat]
        BY <1>1, <1>6, SpendType DEF LoseDbLink, ProbeAckTimeout, Kinds
    <2>3. TypeOK'
        BY <1>1, <2>1, <2>2, MarkDownFacts DEF TypeOK
    <2> QED
        BY <1>3, <2>1, <2>3, MarkDownFacts DEF Inv
<1>7. CASE HandleLogin
    <2>1. PICK l \in Logins :
              /\ login' = l
              /\ toDB' = Sent([type |-> "queryAccount", name |-> l.name])
        BY <1>7 DEF HandleLogin
    <2>2. toDB' \in [Connections -> Seq(Requests)]
        BY <1>1, <1>7, <2>1, RequestType, SentType DEF HandleLogin
    <2>3. spent' \in [Kinds -> Nat]
        BY <1>1, <1>7, SpendType DEF HandleLogin, Kinds
    <2>4. TypeOK'
        BY <1>1, <1>7, <1>2, <2>1, <2>2, <2>3 DEF HandleLogin, TypeOK, dbVars
    <2> QED
        BY <1>1, <1>7, <1>3, <2>4
        DEF Inv, HandleLogin, AnswersComeFromPeer, UpIsReachable, dbVars
<1>8. CASE SkipMessage
    <2>1. /\ transport \in Connections /\ Receive
          /\ UNCHANGED <<transport, peer, live, accounts>>
        BY <1>1, <1>8 DEF SkipMessage, dbVars
    <2>2. TypeOK'
        BY <1>1, <1>8, <2>1, ReceiveFacts DEF SkipMessage, TypeOK, dbVars
    <2> QED
        BY <1>3, <2>1, <2>2, ReceiveFacts DEF Inv
<1>9. CASE QueryAnswered
    <2> DEFINE m == Head(toLogin[transport])
    <2>1. /\ transport \in Connections /\ Receive
          /\ login \in Logins
          /\ UNCHANGED <<transport, peer, live, accounts>>
        BY <1>1, <1>9 DEF QueryAnswered, dbVars
    <2>2. m \in Answers /\ m.type = "queryAccount"
        BY <1>9, <2>1, ReceiveFacts DEF QueryAnswered, IsAnswer
    <2>3. /\ \/ pc' = "idle" /\ login' = NoLogin
             \/ pc' = "createAccount" /\ login' = login
          /\ sessions' \subseteq [account : Accounts, userId : Nat]
          /\ toDB' \in [Connections -> Seq(Requests)]
        <3>1. CASE /\ m.found
                   /\ Finish(IF m.password = login.password THEN Row(m.id)
                                                            ELSE {})
                   /\ toDB' = toDB
            <4>1. m.id \in Nat
                BY <2>2, <3>1 DEF Answers
            <4>2. Row(m.id) \subseteq [account : Accounts, userId : Nat]
                BY <2>1, <4>1 DEF Row, Logins
            <4> QED
                BY <1>1, <3>1, <4>2 DEF Finish
        <3>2. CASE /\ ~ m.found
                   /\ toDB' = Sent([type |-> "createAccount",
                                    name |-> login.name,
                                    password |-> login.password])
                   /\ pc' = "createAccount"
                   /\ UNCHANGED <<login, sessions>>
            BY <1>1, <2>1, <3>2, RequestType, SentType
        <3>3. CASE /\ ~ m.found /\ transport \notin live
                   /\ Finish({})
                   /\ toDB' = toDB
            BY <1>1, <3>3 DEF Finish
        <3> QED
            BY <1>9, <3>1, <3>2, <3>3 DEF QueryAnswered
    <2>4. TypeOK'
        BY <1>1, <1>9, <1>2, <2>1, <2>3, ReceiveFacts
        DEF QueryAnswered, TypeOK, dbVars
    <2> QED
        BY <1>3, <2>1, <2>4, ReceiveFacts DEF Inv
<1>10. CASE CreateAnswered
    <2> DEFINE m == Head(toLogin[transport])
    <2>1. /\ transport \in Connections /\ Receive
          /\ login \in Logins
          /\ UNCHANGED <<transport, peer, live, accounts>>
        BY <1>1, <1>10 DEF CreateAnswered, dbVars
    <2>2. m \in Answers /\ m.type = "createAccount"
        BY <1>10, <2>1, ReceiveFacts DEF CreateAnswered, IsAnswer
    <2>3. m.created => m.id \in Nat
        BY <2>2 DEF Answers
    <2>4. m.created => Row(m.id) \subseteq [account : Accounts, userId : Nat]
        BY <2>1, <2>3 DEF Row, Logins
    <2>5. /\ pc' = "idle" /\ login' = NoLogin
          /\ sessions' \subseteq [account : Accounts, userId : Nat]
        BY <1>1, <1>10, <2>4 DEF CreateAnswered, Finish
    <2>6. TypeOK'
        BY <1>1, <1>10, <2>1, <2>5, ReceiveFacts
        DEF CreateAnswered, TypeOK, dbVars
    <2> QED
        BY <1>3, <2>1, <2>6, ReceiveFacts DEF Inv
<1>11. CASE GiveUp \/ GiveUpEarly
    <2>1. /\ pc' = "idle" /\ login' = NoLogin /\ sessions' = sessions
          /\ UNCHANGED <<link, transport, dbVars, netVars>>
        BY <1>11 DEF GiveUp, GiveUpEarly, Finish
    <2>2. spent' \in [Kinds -> Nat]
        BY <1>1, <1>11, SpendType DEF GiveUp, GiveUpEarly, Kinds
    <2>3. TypeOK'
        BY <1>1, <2>1, <2>2 DEF TypeOK, dbVars, netVars
    <2> QED
        BY <1>1, <1>3, <2>1, <2>3
        DEF Inv, AnswersComeFromPeer, UpIsReachable, dbVars, netVars
<1>12. CASE HandleFromPeer
    <2>1. /\ peer \in Connections /\ toDB[peer] # <<>>
          /\ toDB' = [toDB EXCEPT ![peer] = Tail(@)]
          /\ Handle(Head(toDB[peer]), peer)
          /\ UNCHANGED <<loginVars, running, peer, awaiting, live, spent>>
        BY <1>1, <1>12 DEF HandleFromPeer
    <2>2. /\ Head(toDB[peer]) \in Requests
          /\ toDB' \in [Connections -> Seq(Requests)]
        BY <1>1, <2>1, QueueType
    <2>3. /\ accounts' \in Seq(Logins) /\ AccountIsUnique'
          /\ toLogin' \in [Connections -> Seq(Answers)]
          /\ \A c \in Connections : c # peer => toLogin'[c] = toLogin[c]
        BY <1>1, <2>1, <2>2, HandleFacts
    <2>4. TypeOK'
        BY <1>1, <2>1, <2>2, <2>3 DEF TypeOK, loginVars
    <2>5. AnswersComeFromPeer'
        BY <1>1, <2>1, <2>3 DEF AnswersComeFromPeer
    <2>6. UpIsReachable'
        BY <1>1, <2>1 DEF UpIsReachable, loginVars
    <2> QED
        BY <2>3, <2>4, <2>5, <2>6 DEF Inv
<1>13. CASE HandleFromNew
    <2>1. PICK c \in awaiting :
              /\ toDB[c] # <<>>
              /\ peer' = PeerAfter(c)
              /\ awaiting' = awaiting \ {c}
              /\ IF peer' = c
                 THEN /\ toDB' = [toDB EXCEPT ![c] = Tail(@)]
                      /\ live' = live
                 ELSE /\ toDB' = [toDB EXCEPT ![c] = <<>>]
                      /\ live' = live \ {c}
              /\ Handle(Head(toDB[c]), peer')
        BY <1>13 DEF HandleFromNew
    <2>2. UNCHANGED <<loginVars, running, spent>>
        BY <1>13 DEF HandleFromNew
    <2>3. /\ c \in Connections
          /\ Head(toDB[c]) \in Requests
          /\ toDB' \in [Connections -> Seq(Requests)]
        <3>1. c \in Connections
            BY <1>1
        <3>2. /\ Head(toDB[c]) \in Requests
              /\ [toDB EXCEPT ![c] = Tail(@)] \in [Connections -> Seq(Requests)]
              /\ [toDB EXCEPT ![c] = <<>>] \in [Connections -> Seq(Requests)]
            BY <1>1, <2>1, <3>1, QueueType
        <3> QED
            BY <2>1, <3>1, <3>2
    <2>4. /\ accounts' \in Seq(Logins) /\ AccountIsUnique'
          /\ toLogin' \in [Connections -> Seq(Answers)]
          /\ \A d \in Connections : d # peer' => toLogin'[d] = toLogin[d]
        BY <1>1, <2>1, <2>3, HandleFacts
    <2>5. /\ peer' \in Connections
          /\ peer \in Connections => peer' = peer
          /\ live' \subseteq live
        BY <1>1, <2>1, <2>3, ConstantsAssumption DEF PeerAfter
    <2>6. TypeOK'
        BY <1>1, <2>1, <2>2, <2>3, <2>4, <2>5 DEF TypeOK, loginVars
    <2>7. AnswersComeFromPeer'
        BY <1>1, <2>4, <2>5 DEF AnswersComeFromPeer
    <2>8. UpIsReachable'
        BY <1>1, <2>2, <2>5 DEF UpIsReachable, loginVars
    <2> QED
        BY <2>4, <2>6, <2>7, <2>8 DEF Inv
<1>14. CASE Crash
    <2>1. /\ toDB' \in [Connections -> Seq(Requests)]
          /\ toLogin' \in [Connections -> Seq(Answers)]
        <3>1. /\ [c \in Connections |-> <<>>] \in [Connections -> Seq(Requests)]
              /\ [c \in Connections |-> <<>>] \in [Connections -> Seq(Answers)]
            OBVIOUS
        <3> QED
            BY <1>1, <1>14, <3>1 DEF Crash
    <2>2. spent' \in [Kinds -> Nat]
        BY <1>1, <1>14, SpendType DEF Crash, Kinds
    <2>3. TypeOK'
        BY <1>1, <1>14, <2>1, <2>2 DEF Crash, TypeOK, loginVars
    <2> QED
        BY <1>14, <1>3, <2>3
        DEF Inv, Crash, AnswersComeFromPeer, UpIsReachable
<1>15. CASE Restart
    <2>1. TypeOK'
        BY <1>1, <1>15 DEF Restart, TypeOK, loginVars, netVars
    <2> QED
        BY <1>1, <1>15, <1>3, <2>1
        DEF Inv, Restart, AnswersComeFromPeer, UpIsReachable, loginVars, netVars
<1>16. CASE Cut
    <2>1. transport \in Connections
        BY <1>1, <1>16 DEF Cut
    <2>2. /\ toDB' \in [Connections -> Seq(Requests)]
          /\ toLogin' \in [Connections -> Seq(Answers)]
        BY <1>1, <1>16, <2>1, QueueType DEF Cut
    <2>3. spent' \in [Kinds -> Nat]
        BY <1>1, <1>16, SpendType DEF Cut, Kinds
    <2>4. TypeOK'
        BY <1>1, <1>16, <2>2, <2>3 DEF Cut, TypeOK, loginVars
    <2>5. AnswersComeFromPeer'
        BY <1>1, <1>16, <2>1 DEF Cut, AnswersComeFromPeer
    <2>6. UpIsReachable'
        BY <1>1, <1>16 DEF Cut, UpIsReachable, loginVars
    <2> QED
        BY <1>16, <1>3, <2>4, <2>5, <2>6 DEF Inv, Cut
<1>17. CASE Relaunch
    <2>1. /\ pc' = "idle" /\ login' = NoLogin
          /\ sessions' \in {sessions, {}}
          /\ UNCHANGED <<running, peer, accounts>>
        BY <1>17 DEF Relaunch
    <2>2. spent' \in [Kinds -> Nat]
        BY <1>1, <1>17, SpendType DEF Relaunch, Kinds
    <2>3. CASE transport = NoConnection
        <3>1. UNCHANGED <<link, transport, live, toLogin, toDB, awaiting>>
            BY <1>17, <2>3 DEF Relaunch
        <3>2. TypeOK'
            BY <1>1, <2>1, <2>2, <2>3, <3>1 DEF TypeOK
        <3> QED
            BY <1>1, <1>3, <2>1, <3>1, <3>2
            DEF Inv, AnswersComeFromPeer, UpIsReachable
    <2>4. CASE transport \in Connections
        <3>1. MarkDbLinkDown
            BY <1>17, <2>4, ConstantsAssumption DEF Relaunch
        <3>2. TypeOK'
            BY <1>1, <2>1, <2>2, <2>4, <3>1, MarkDownFacts DEF TypeOK
        <3> QED
            BY <1>3, <2>1, <2>4, <3>1, <3>2, MarkDownFacts DEF Inv
    <2> QED
        BY <1>1, <2>3, <2>4
<1>18. CASE UNCHANGED vars
    BY <1>1, <1>18
    DEF Inv, TypeOK, AccountIsUnique, AnswersComeFromPeer, UpIsReachable, vars,
        loginVars, dbVars, netVars
<1> QED
    BY <1>4, <1>5, <1>6, <1>7, <1>8, <1>9, <1>10, <1>11, <1>12, <1>13, <1>14,
       <1>15, <1>16, <1>17, <1>18
    DEF Next

LEMMA Invariance == Spec => []Inv
BY InvInit, InvStep, PTL DEF Spec

-----------------------------------------------------------------------------
(* What is on its way to and from DBApp                                     *)

IsProbe(m) == m.type = "listTypes"

\* An answer that names an account names the one called name.
Truthful(m, name, known) ==
    (\/ m.type = "queryAccount" /\ m.found
     \/ m.type = "createAccount" /\ m.created)
        => m.id \in DOMAIN known /\ known[m.id].name = name

AllProbes(q) == \A i \in 1..Len(q) : IsProbe(q[i])

\* The requests q and the answers a are probes, and the request that dbRequest
\* waits for in step, for the account name, or its answer.
Current(q, a, step, name, known) ==
    /\ \A i \in 1..Len(q) : IsProbe(q[i]) \/ (q[i].type = step /\ q[i].name = name)
    /\ \A i \in 1..Len(a) : IsProbe(a[i]) \/ (a[i].type = step /\ Truthful(a[i], name, known))
    /\ \A i, j \in 1..Len(q) : IsProbe(q[i]) \/ IsProbe(q[j]) \/ i = j
    /\ \A i, j \in 1..Len(a) : IsProbe(a[i]) \/ IsProbe(a[j]) \/ i = j
    /\ \A i \in 1..Len(q), j \in 1..Len(a) : IsProbe(q[i]) \/ IsProbe(a[j])

\* Only the link's connection is live, nothing is on its way over one that is not,
\* and the first message of a connection that DBApp does not know yet is a probe.
Channels ==
    /\ live \subseteq {transport}
    /\ transport # NoConnection /\ transport \notin live => toDB[transport] = <<>>
    /\ \A c \in awaiting : toDB[c] # <<>> /\ IsProbe(Head(toDB[c]))
    /\ peer \notin awaiting

\* No wait ended while its answer could still come.
Punctual == spent["timeouts"] = 0

LinkIsCurrent ==
    transport # NoConnection =>
        Current(toDB[transport], toLogin[transport], pc, login.name, accounts)

RowInv == Channels /\ (Punctual => SessionRowIsTruthful /\ LinkIsCurrent)

\* Probes are nobody's answer.
LEMMA ProbesAreCurrent ==
    ASSUME NEW q, NEW a, AllProbes(q), AllProbes(a), NEW step, NEW name, NEW known
    PROVE  Current(q, a, step, name, known)
BY DEF AllProbes, Current

\* In the idle state nothing but probes is on its way.
LEMMA IdleIsProbes ==
    ASSUME NEW q, NEW a, NEW name, NEW known, NEW step,
           step \notin {"queryAccount", "createAccount"},
           NEW R \in SUBSET Requests, NEW S \in SUBSET Answers, q \in Seq(R), a \in Seq(S),
           Current(q, a, step, name, known)
    PROVE  AllProbes(q) /\ AllProbes(a)
<1>1. /\ \A i \in 1..Len(q) : q[i] \in Requests
      /\ \A i \in 1..Len(a) : a[i] \in Answers
    OBVIOUS
<1>2. /\ \A m \in Requests : m.type \in {"listTypes", "queryAccount", "createAccount"}
      /\ \A m \in Answers : m.type \in {"listTypes", "queryAccount", "createAccount"}
    BY DEF Requests, Answers
<1> QED
    BY <1>1, <1>2 DEF AllProbes, Current, IsProbe

\* What sending changes: nothing that waited before.
LEMMA SentFacts ==
    ASSUME NEW m \in Requests, transport \in Connections,
           toDB \in [Connections -> Seq(Requests)]
    PROVE  /\ \A c \in Connections : toDB[c] # <<>> =>
                 Sent(m)[c] # <<>> /\ Head(Sent(m)[c]) = Head(toDB[c])
           /\ transport \in live => Sent(m)[transport] = Append(toDB[transport], m)
           /\ transport \notin live => Sent(m)[transport] = toDB[transport]
<1>1. ASSUME NEW q \in Seq(Requests), q # <<>>
      PROVE  Append(q, m) # <<>> /\ Head(Append(q, m)) = Head(q)
    BY <1>1
<1>2. \A c \in Connections : Sent(m)[c] = toDB[c] \/ Sent(m)[c] = Append(toDB[c], m)
    BY DEF Sent
<1> QED
    BY <1>1, <1>2 DEF Sent

\* A request that is sent when only probes are on their way is the only one.
LEMMA SentIsCurrent ==
    ASSUME NEW q \in Seq(Requests), NEW a, NEW m \in Requests, NEW known,
           AllProbes(q), AllProbes(a)
    PROVE  Current(Append(q, m), a, m.type, m.name, known)
<1>1. /\ Len(q) \in Nat /\ Len(Append(q, m)) = Len(q) + 1 /\ Append(q, m)[Len(q) + 1] = m
      /\ \A i \in 1..Len(q) : Append(q, m)[i] = q[i]
    OBVIOUS
<1> QED
    BY <1>1 DEF AllProbes, Current

\* The first answer is taken; when it is no probe, only probes are left.
LEMMA TakenIsCurrent ==
    ASSUME NEW q, NEW a \in Seq(Answers), a # <<>>, NEW step, NEW name, NEW known,
           Current(q, a, step, name, known)
    PROVE  /\ Current(q, Tail(a), step, name, known)
           /\ ~IsProbe(Head(a)) => /\ AllProbes(q) /\ AllProbes(Tail(a))
                                   /\ Truthful(Head(a), name, known)
<1>1. /\ Len(a) \in Nat /\ Len(a) >= 1 /\ Head(a) = a[1] /\ Len(Tail(a)) = Len(a) - 1
      /\ \A i \in 1..Len(Tail(a)) : i + 1 \in 1..Len(a) /\ Tail(a)[i] = a[i + 1]
    OBVIOUS
<1>2. Current(q, Tail(a), step, name, known)
    BY <1>1 DEF Current
<1>3. ASSUME ~IsProbe(Head(a))
      PROVE  AllProbes(q) /\ AllProbes(Tail(a)) /\ Truthful(Head(a), name, known)
    <2>1. 1 \in 1..Len(a) /\ ~IsProbe(a[1])
        BY <1>1, <1>3
    <2>2. AllProbes(q) /\ Truthful(Head(a), name, known)
        BY <1>1, <2>1 DEF AllProbes, Current
    <2>3. \A i \in 1..Len(Tail(a)) : IsProbe(a[i + 1])
        BY <1>1, <2>1 DEF Current
    <2>4. AllProbes(Tail(a))
        BY <1>1, <2>3 DEF AllProbes
    <2> QED
        BY <2>2, <2>4
<1> QED
    BY <1>2, <1>3

\* DBApp answers the first request.
LEMMA AnsweredIsCurrent ==
    ASSUME NEW q \in Seq(Requests), q # <<>>, NEW a \in Seq(Answers), NEW m \in Answers,
           NEW step, NEW name, NEW known, Current(q, a, step, name, known),
           IsProbe(Head(q)) => IsProbe(m),
           ~IsProbe(Head(q)) => m.type = Head(q).type /\ Truthful(m, Head(q).name, known)
    PROVE  Current(Tail(q), Append(a, m), step, name, known)
<1>1. /\ Len(q) \in Nat /\ Len(q) >= 1 /\ Head(q) = q[1] /\ Len(Tail(q)) = Len(q) - 1
      /\ \A i \in 1..Len(Tail(q)) : i + 1 \in 1..Len(q) /\ Tail(q)[i] = q[i + 1]
    OBVIOUS
<1>2. /\ Len(a) \in Nat /\ Len(Append(a, m)) = Len(a) + 1 /\ Append(a, m)[Len(a) + 1] = m
      /\ \A i \in 1..Len(a) : Append(a, m)[i] = a[i]
    OBVIOUS
<1>3. CASE IsProbe(Head(q))
    BY <1>1, <1>2, <1>3 DEF Current
<1>4. CASE ~IsProbe(Head(q))
    <2>1. 1 \in 1..Len(q) /\ ~IsProbe(q[1])
        BY <1>1, <1>4
    <2>2. /\ \A i \in 1..Len(Tail(q)) : IsProbe(Tail(q)[i])
          /\ \A i \in 1..Len(a) : IsProbe(a[i])
          /\ m.type = step /\ Truthful(m, name, known)
        BY <1>1, <1>4, <2>1 DEF Current
    <2> QED
        BY <1>1, <1>2, <2>2 DEF Current
<1> QED
    BY <1>3, <1>4

\* New accounts make no answer and no row false.
LEMMA GrownIsCurrent ==
    ASSUME NEW q, NEW a, NEW step, NEW name, NEW known, NEW more,
           \A i \in DOMAIN known : i \in DOMAIN more /\ more[i] = known[i],
           Current(q, a, step, name, known)
    PROVE  Current(q, a, step, name, more)
BY DEF Current, Truthful

\* What DBApp answers to a request is of its type and names its account, and no
\* account it had goes.
LEMMA HandleAnswer ==
    ASSUME TypeOK, AccountIsUnique, NEW m \in Requests, NEW to, Handle(m, to)
    PROVE  /\ \A i \in DOMAIN accounts : i \in DOMAIN accounts' /\ accounts'[i] = accounts[i]
           /\ \E ans \in Answers :
                 /\ toLogin' = Respond(toLogin, to, ans)
                 /\ IsProbe(m) => IsProbe(ans)
                 /\ ~IsProbe(m) => ans.type = m.type /\ Truthful(ans, m.name, accounts')
<1>1. accounts \in Seq(Logins)
    BY DEF TypeOK
<1>2. CASE /\ m.type \in {"listTypes", "queryAccount"}
           /\ toLogin' = Respond(toLogin, to, Lookup(m))
           /\ UNCHANGED accounts
    <2>1. Lookup(m) \in Answers
        BY <1>2, LookupType
    <2>2. IsProbe(m) => IsProbe(Lookup(m))
        BY DEF IsProbe, Lookup
    <2>3. ASSUME ~IsProbe(m)
          PROVE  Lookup(m).type = m.type /\ Truthful(Lookup(m), m.name, accounts)
        <3>1. CASE IdsOf(m.name) = {}
            BY <1>2, <2>3, <3>1 DEF IsProbe, Lookup, Truthful
        <3>2. CASE IdsOf(m.name) # {}
            <4> DEFINE i == CHOOSE i \in IdsOf(m.name) : \A j \in IdsOf(m.name) : i <= j
            <4>1. \E k \in IdsOf(m.name) : \A j \in IdsOf(m.name) : k <= j
                BY <3>2, IdsOfName
            <4>2. i \in IdsOf(m.name)
                BY <4>1
            <4>3. Lookup(m) = [type |-> "queryAccount", found |-> TRUE, id |-> i,
                               password |-> accounts[i].password]
                BY <2>3, <3>2 DEF IsProbe, Lookup
            <4> HIDE DEF i
            <4>4. i \in DOMAIN accounts /\ accounts[i].name = m.name
                BY <4>2, IdsOfName
            <4> QED
                BY <1>2, <2>3, <4>3, <4>4 DEF IsProbe, Truthful
        <3> QED
            BY <3>1, <3>2
    <2> QED
        BY <1>2, <2>1, <2>2, <2>3
<1>3. CASE /\ m.type = "createAccount"
           /\ accounts' = Append(accounts, [name |-> m.name, password |-> m.password])
           /\ toLogin' = Respond(toLogin, to, [type |-> "createAccount",
                                 created |-> TRUE, id |-> Len(accounts) + 1])
    <2> DEFINE new == [name |-> m.name, password |-> m.password]
               ans == [type |-> "createAccount", created |-> TRUE, id |-> Len(accounts) + 1]
    <2>1. Len(accounts) + 1 \in Nat
        BY <1>1
    <2>2. ans \in [type : {"createAccount"}, created : {TRUE}, id : Nat]
        BY <2>1
    <2>3. ans \in Answers
        BY <2>2, Zenon DEF Answers
    <2>4. new \in Logins
        BY <1>3 DEF Requests, Logins
    <2>5. /\ \A i \in DOMAIN accounts : i \in DOMAIN accounts' /\ accounts'[i] = accounts[i]
          /\ Len(accounts) + 1 \in DOMAIN accounts' /\ accounts'[Len(accounts) + 1] = new
        <3> HIDE DEF new
        <3>1. accounts' = Append(accounts, new)
            BY <1>3 DEF new
        <3> QED
            BY <1>1, <2>4, <3>1
    <2>6. ~IsProbe(m) /\ ans.type = m.type /\ Truthful(ans, m.name, accounts')
        BY <1>3, <2>5 DEF IsProbe, Truthful
    <2>7. toLogin' = Respond(toLogin, to, ans)
        BY <1>3
    <2> HIDE DEF ans
    <2> QED
        BY <2>3, <2>5, <2>6, <2>7
<1>4. CASE /\ m.type = "createAccount"
           /\ toLogin' = Respond(toLogin, to, [type |-> "createAccount", created |-> FALSE])
           /\ UNCHANGED accounts
    <2>1. [type |-> "createAccount", created |-> FALSE] \in Answers
        BY DEF Answers
    <2> QED
        BY <1>4, <2>1 DEF IsProbe, Truthful
<1> QED
    BY <1>2, <1>3, <1>4 DEF Handle

-----------------------------------------------------------------------------
(* The session rows                                                         *)

LEMMA RowInvInit == Init => RowInv
<1> SUFFICES ASSUME Init PROVE RowInv
    OBVIOUS
<1>1. Channels
    BY DEF Init, Channels
<1> QED
    BY <1>1 DEF Init, RowInv, SessionRowIsTruthful, LinkIsCurrent

\* The rows and the link after DBApp has answered m to the connection to.
LEMMA HandledIsCurrent ==
    ASSUME Inv, RowInv, NEW m \in Requests, NEW to, Handle(m, to),
           UNCHANGED <<loginVars, spent>>,
           to = transport /\ transport \in live =>
               \/ IsProbe(m) /\ toDB'[transport] = toDB[transport]
               \/ /\ toDB[transport] # <<>> /\ m = Head(toDB[transport])
                  /\ toDB'[transport] = Tail(toDB[transport]),
           ~(to = transport /\ transport \in live) /\ transport # NoConnection =>
               toDB'[transport] \in {toDB[transport], <<>>},
           Punctual'
    PROVE  SessionRowIsTruthful' /\ LinkIsCurrent'
<1>1. /\ TypeOK /\ AccountIsUnique /\ live \subseteq Connections
      /\ toDB \in [Connections -> Seq(Requests)] /\ toLogin \in [Connections -> Seq(Answers)]
      /\ transport \in Connections \cup {NoConnection}
      /\ SessionRowIsTruthful /\ LinkIsCurrent
    BY DEF Inv, TypeOK, RowInv, Punctual
<1>2. UNCHANGED <<transport, pc, login, sessions>>
    BY DEF loginVars
<1>3. PICK ans \in Answers :
          /\ toLogin' = Respond(toLogin, to, ans)
          /\ IsProbe(m) => IsProbe(ans)
          /\ ~IsProbe(m) => ans.type = m.type /\ Truthful(ans, m.name, accounts')
    BY <1>1, HandleAnswer
<1>4. \A i \in DOMAIN accounts : i \in DOMAIN accounts' /\ accounts'[i] = accounts[i]
    BY <1>1, HandleAnswer
<1>5. SessionRowIsTruthful'
    BY <1>1, <1>2, <1>4 DEF SessionRowIsTruthful
<1>6. ASSUME transport \in Connections
      PROVE  LinkIsCurrent'
    <2> DEFINE q == toDB[transport]
               a == toLogin[transport]
    <2>1. q \in Seq(Requests) /\ a \in Seq(Answers)
        BY <1>1, <1>6
    <2>2. Current(q, a, pc, login.name, accounts')
        <3>1. Current(q, a, pc, login.name, accounts)
            BY <1>1, <1>6, ConstantsAssumption DEF LinkIsCurrent
        <3> HIDE DEF q, a
        <3> QED
            BY <1>4, <3>1, GrownIsCurrent
    <2>3. CASE to = transport /\ transport \in live
        <3>1. toLogin'[transport] = Append(a, ans)
            BY <1>1, <1>3, <1>6, <2>3 DEF Respond
        <3>2. CASE IsProbe(m) /\ toDB'[transport] = q
            <4> HIDE DEF q, a
            <4>1. Current(q, Append(a, ans), pc, login.name, accounts')
                <5>1. /\ Len(a) \in Nat /\ Len(Append(a, ans)) = Len(a) + 1
                      /\ Append(a, ans)[Len(a) + 1] = ans
                      /\ \A i \in 1..Len(a) : Append(a, ans)[i] = a[i]
                    BY <2>1
                <5> QED
                    BY <1>3, <2>2, <3>2, <5>1 DEF Current
            <4> QED
                BY <1>2, <3>1, <3>2, <4>1 DEF LinkIsCurrent
        <3>3. CASE q # <<>> /\ m = Head(q) /\ toDB'[transport] = Tail(q)
            <4> HIDE DEF q, a
            <4>1. Current(Tail(q), Append(a, ans), pc, login.name, accounts')
                BY <1>3, <2>1, <2>2, <3>3, AnsweredIsCurrent
            <4> QED
                BY <1>2, <3>1, <3>3, <4>1 DEF LinkIsCurrent
        <3> QED
            BY <2>3, <3>2, <3>3
    <2>4. CASE ~(to = transport /\ transport \in live)
        <3>1. toLogin'[transport] = a
            BY <1>1, <1>3, <1>6, <2>4 DEF Respond
        <3>2. toDB'[transport] \in {q, <<>>}
            BY <1>6, <2>4, ConstantsAssumption
        <3>3. Current(toDB'[transport], a, pc, login.name, accounts')
            <4> HIDE DEF a, q
            <4>1. Current(<<>>, a, pc, login.name, accounts')
                BY <2>2 DEF Current
            <4> QED
                BY <2>2, <3>2, <4>1
        <3> QED
            BY <1>2, <3>1, <3>3 DEF LinkIsCurrent
    <2> QED
        BY <2>3, <2>4
<1>7. transport \notin Connections => LinkIsCurrent'
    BY <1>1, <1>2 DEF LinkIsCurrent
<1> QED
    BY <1>5, <1>6, <1>7

\* The link is given up: nothing can come over it any more.
LEMMA DownIsCurrent ==
    ASSUME Inv, RowInv, transport \in Connections, MarkDbLinkDown, peer' = peer
    PROVE  Channels' /\ LinkIsCurrent'
<1>1. /\ awaiting \subseteq Connections /\ live' \subseteq {} /\ transport' = NoConnection
      /\ toDB \in [Connections -> Seq(Requests)]
    BY DEF Inv, TypeOK, RowInv, Channels, MarkDbLinkDown
<1>2. \A c \in awaiting' : c \in awaiting /\ toDB'[c] = toDB[c]
    BY <1>1 DEF MarkDbLinkDown
<1> QED
    BY <1>1, <1>2 DEF RowInv, Channels, LinkIsCurrent

\* A message is received: what the link carries, without it.
LEMMA ReceivedIsCurrent ==
    ASSUME Inv, RowInv, transport \in Connections, Receive, Punctual
    PROVE  /\ toLogin'[transport] = Tail(toLogin[transport])
           /\ Current(toDB[transport], Tail(toLogin[transport]), pc, login.name, accounts)
           /\ ~IsProbe(Head(toLogin[transport])) =>
                 /\ AllProbes(toDB[transport]) /\ AllProbes(Tail(toLogin[transport]))
                 /\ Truthful(Head(toLogin[transport]), login.name, accounts)
<1>1. toLogin[transport] \in Seq(Answers) /\ toLogin[transport] # <<>>
      /\ toLogin'[transport] = Tail(toLogin[transport])
    BY DEF Inv, TypeOK, Receive
<1>2. Current(toDB[transport], toLogin[transport], pc, login.name, accounts)
    BY ConstantsAssumption DEF RowInv, LinkIsCurrent
<1> QED
    BY <1>1, <1>2, TakenIsCurrent

LEMMA RowInvStep == Inv /\ RowInv /\ [Next]_vars => RowInv'
<1> SUFFICES ASSUME Inv, RowInv, [Next]_vars PROVE RowInv'
    OBVIOUS
<1>1. /\ link \in {"Backoff", "PendingAck", "Up"}
      /\ transport \in Connections \cup {NoConnection}
      /\ transport = NoConnection <=> link = "Backoff"
      /\ pc \in {"idle", "queryAccount", "createAccount"}
      /\ login \in Logins \cup {NoLogin}
      /\ login = NoLogin <=> pc = "idle"
      /\ pc # "idle" => transport # NoConnection
      /\ peer \in Connections \cup {NoConnection}
      /\ awaiting \subseteq Connections
      /\ accounts \in Seq(Logins)
      /\ live \subseteq Connections
      /\ toDB \in [Connections -> Seq(Requests)]
      /\ toLogin \in [Connections -> Seq(Answers)]
      /\ spent \in [Kinds -> Nat]
      /\ Channels /\ NoConnection \notin Connections
    BY ConstantsAssumption DEF Inv, TypeOK, RowInv
<1>2. /\ live \subseteq {transport}
      /\ transport # NoConnection /\ transport \notin live => toDB[transport] = <<>>
      /\ \A c \in awaiting : toDB[c] # <<>> /\ IsProbe(Head(toDB[c]))
      /\ peer \notin awaiting
    BY <1>1 DEF Channels
<1>3. Punctual => SessionRowIsTruthful /\ LinkIsCurrent
    BY DEF RowInv
<1>4. pc = "idle" /\ transport \in Connections /\ Punctual =>
          AllProbes(toDB[transport]) /\ AllProbes(toLogin[transport])
    BY <1>1, <1>3, IdleIsProbes DEF LinkIsCurrent
<1>5. UNCHANGED <<sessions, accounts>> /\ Punctual => SessionRowIsTruthful'
    BY <1>3 DEF SessionRowIsTruthful
<1>6. ASSUME NEW what \in Kinds, Spend(what), what # "timeouts"
      PROVE  Punctual' => Punctual
    BY <1>1, <1>6 DEF Spend, Punctual, Kinds
<1>7. ASSUME Spend("timeouts") PROVE ~Punctual'
    <2>1. spent["timeouts"] \in Nat /\ spent'["timeouts"] = spent["timeouts"] + 1
        BY <1>1, <1>7 DEF Spend, Kinds
    <2> QED
        BY <2>1 DEF Punctual
<1>8. CASE DrainInvocations
    <2>1. /\ transport \in Connections /\ pc = "idle"
          /\ toLogin' = [toLogin EXCEPT ![transport] = <<>>]
          /\ UNCHANGED <<transport, pc, login, sessions, dbVars, live, toDB, spent>>
        BY <1>1, <1>8 DEF DrainInvocations
    <2>2. Channels'
        BY <1>1, <2>1 DEF Channels, dbVars
    <2>3. Punctual' => SessionRowIsTruthful' /\ LinkIsCurrent'
        <3>1. Punctual' => Punctual
            BY <2>1 DEF Punctual
        <3>2. toLogin'[transport] = <<>> /\ AllProbes(<<>>)
            BY <1>1, <2>1 DEF AllProbes
        <3> QED
            BY <1>4, <1>5, <2>1, <3>1, <3>2, ProbesAreCurrent DEF LinkIsCurrent, dbVars
    <2> QED
        BY <2>2, <2>3 DEF RowInv
<1>9. CASE AttemptDbLink
    <2>1. PICK c \in Unused :
              /\ transport' = c
              /\ toLogin' = [toLogin EXCEPT ![c] = <<>>]
              /\ IF running
                 THEN /\ live' = live \cup {c}
                      /\ awaiting' = awaiting \cup {c}
                      /\ toDB' = [toDB EXCEPT ![c] = <<[type |-> "listTypes"]>>]
                 ELSE /\ toDB' = [toDB EXCEPT ![c] = <<>>]
                      /\ UNCHANGED <<live, awaiting>>
        BY <1>9 DEF AttemptDbLink
    <2>2. /\ c \in Connections /\ c \notin awaiting /\ c # peer /\ transport = NoConnection
          /\ live = {} /\ UNCHANGED <<pc, login, sessions, peer, accounts, spent>>
        BY <1>1, <1>2, <1>9 DEF Unused, AttemptDbLink
    <2>3. /\ toDB'[c] \in {<<>>, <<[type |-> "listTypes"]>>} /\ toLogin'[c] = <<>>
          /\ \A d \in awaiting : toDB'[d] = toDB[d]
        BY <1>1, <2>1, <2>2
    <2>4. Channels'
        <3>1. CASE running
            <4>1. /\ live' = {c} /\ awaiting' = awaiting \cup {c}
                  /\ toDB'[c] = <<[type |-> "listTypes"]>>
                BY <1>1, <2>1, <2>2, <3>1
            <4>2. toDB'[c] # <<>> /\ IsProbe(Head(toDB'[c]))
                BY <4>1 DEF IsProbe
            <4> QED
                BY <1>2, <2>1, <2>2, <2>3, <4>1, <4>2 DEF Channels
        <3>2. CASE ~running
            <4>1. live' = {} /\ awaiting' = awaiting /\ toDB'[c] = <<>>
                BY <1>1, <2>1, <2>2, <3>2
            <4> QED
                BY <1>2, <2>1, <2>2, <2>3, <4>1 DEF Channels
        <3> QED
            BY <3>1, <3>2
    <2>5. AllProbes(<<>>) /\ AllProbes(<<[type |-> "listTypes"]>>)
        BY DEF AllProbes, IsProbe
    <2>6. Current(toDB'[c], toLogin'[c], pc, login.name, accounts)
        BY <2>3, <2>5, ProbesAreCurrent
    <2> QED
        BY <1>5, <2>1, <2>2, <2>4, <2>6 DEF RowInv, Punctual, LinkIsCurrent
<1>10. CASE LoseDbLink
    <2>1. /\ transport \in Connections /\ MarkDbLinkDown
          /\ UNCHANGED <<sessions, peer, accounts, spent>>
        BY <1>1, <1>10 DEF LoseDbLink, Supervised
    <2> QED
        BY <1>5, <2>1, DownIsCurrent DEF RowInv, Punctual
<1>11. CASE ProbeAckTimeout
    <2>1. transport \in Connections /\ MarkDbLinkDown /\ peer' = peer /\ Spend("timeouts")
        BY <1>1, <1>11 DEF ProbeAckTimeout
    <2> QED
        BY <1>7, <2>1, DownIsCurrent DEF RowInv
<1>12. CASE HandleLogin
    <2>1. PICK l \in Logins :
              /\ login' = l
              /\ toDB' = Sent([type |-> "queryAccount", name |-> l.name])
        BY <1>12 DEF HandleLogin
    <2> DEFINE m == [type |-> "queryAccount", name |-> l.name]
    <2>2. /\ m \in Requests /\ m.type = "queryAccount" /\ m.name = l.name
          /\ transport \in Connections /\ pc = "idle" /\ pc' = "queryAccount"
          /\ Spend("logins")
          /\ UNCHANGED <<link, transport, sessions, dbVars, live, toLogin>>
        BY <1>1, <1>12, RequestType DEF HandleLogin
    <2> HIDE DEF m
    <2>3. toDB' = Sent(m)
        BY <2>1 DEF m
    <2>4. /\ \A c \in awaiting : toDB'[c] # <<>> /\ Head(toDB'[c]) = Head(toDB[c])
          /\ transport \in live => toDB'[transport] = Append(toDB[transport], m)
          /\ transport \notin live => toDB'[transport] = toDB[transport]
        BY <1>1, <1>2, <2>2, <2>3, SentFacts
    <2>5. Channels'
        BY <1>1, <2>2, <2>4 DEF Channels, dbVars
    <2>6. ASSUME Punctual'
          PROVE  SessionRowIsTruthful' /\ LinkIsCurrent'
        <3>1. Punctual
            BY <1>6, <2>2, <2>6 DEF Kinds
        <3>2. AllProbes(toDB[transport]) /\ AllProbes(toLogin[transport])
            BY <1>4, <2>2, <3>1
        <3>3. toDB[transport] \in Seq(Requests)
            BY <1>1, <2>2
        <3>4. Current(toDB'[transport], toLogin[transport], m.type, m.name, accounts)
            BY <2>2, <2>4, <3>2, <3>3, SentIsCurrent, ProbesAreCurrent
        <3> QED
            BY <1>5, <2>1, <2>2, <3>1, <3>4 DEF LinkIsCurrent, dbVars
    <2> QED
        BY <2>5, <2>6 DEF RowInv
<1>13. CASE SkipMessage
    <2>1. /\ transport \in Connections /\ Receive
          /\ UNCHANGED <<transport, pc, login, sessions, dbVars, live, toDB, spent>>
        BY <1>1, <1>13 DEF SkipMessage
    <2>2. Channels'
        BY <1>1, <2>1 DEF Channels, dbVars
    <2>3. Punctual' => SessionRowIsTruthful' /\ LinkIsCurrent'
        BY <1>5, <2>1, ReceivedIsCurrent DEF Punctual, LinkIsCurrent, dbVars
    <2> QED
        BY <2>2, <2>3 DEF RowInv
<1>14. CASE QueryAnswered
    <2> DEFINE m == Head(toLogin[transport])
               new == [type |-> "createAccount", name |-> login.name,
                       password |-> login.password]
    <2>1. /\ transport \in Connections /\ Receive /\ login \in Logins
          /\ UNCHANGED <<transport, dbVars, live, spent>>
          /\ m.type = "queryAccount"
        BY <1>1, <1>14 DEF QueryAnswered, IsAnswer
    <2>2. \/ /\ m.found
             /\ Finish(IF m.password = login.password THEN Row(m.id) ELSE {})
             /\ toDB' = toDB
          \/ /\ toDB' = Sent(new) /\ pc' = "createAccount"
             /\ UNCHANGED <<login, sessions>>
          \/ Finish({}) /\ toDB' = toDB
        BY <1>14 DEF QueryAnswered
    <2>3. new \in Requests /\ new.type = "createAccount" /\ new.name = login.name
        BY <2>1, RequestType
    <2> HIDE DEF m, new
    <2>4. \/ toDB' = toDB
          \/ /\ \A c \in awaiting : toDB'[c] # <<>> /\ Head(toDB'[c]) = Head(toDB[c])
             /\ transport \in live => toDB'[transport] = Append(toDB[transport], new)
             /\ transport \notin live => toDB'[transport] = toDB[transport]
        BY <1>1, <1>2, <2>1, <2>2, <2>3, SentFacts
    <2>5. Channels'
        BY <1>1, <2>1, <2>4 DEF Channels, dbVars
    <2>6. ASSUME Punctual'
          PROVE  SessionRowIsTruthful' /\ LinkIsCurrent'
        <3>1. Punctual /\ ~IsProbe(m)
            BY <2>1, <2>6 DEF Punctual, IsProbe
        <3>2. /\ toLogin'[transport] = Tail(toLogin[transport])
              /\ AllProbes(toDB[transport]) /\ AllProbes(Tail(toLogin[transport]))
              /\ Truthful(m, login.name, accounts)
            BY <2>1, <3>1, ReceivedIsCurrent DEF m
        <3>3. CASE m.found /\ toDB' = toDB
                   /\ Finish(IF m.password = login.password THEN Row(m.id) ELSE {})
            <4>1. m.id \in DOMAIN accounts /\ accounts[m.id].name = login.name
                BY <2>1, <3>2, <3>3 DEF Truthful
            <4>2. sessions' \subseteq sessions \cup {[account |-> login.name, userId |-> m.id]}
                BY <3>3 DEF Finish, Row
            <4>3. SessionRowIsTruthful'
                BY <1>3, <2>1, <3>1, <4>1, <4>2 DEF SessionRowIsTruthful, dbVars
            <4> QED
                BY <2>1, <3>2, <3>3, <4>3, ProbesAreCurrent DEF LinkIsCurrent
        <3>4. CASE toDB' = Sent(new) /\ pc' = "createAccount" /\ UNCHANGED <<login, sessions>>
            <4>1. Current(toDB'[transport], toLogin'[transport], new.type, new.name, accounts)
                <5>1. toDB'[transport] \in {toDB[transport], Append(toDB[transport], new)}
                    BY <1>1, <2>1, <3>4 DEF Sent
                <5>2. toDB[transport] \in Seq(Requests)
                    BY <1>1, <2>1
                <5> QED
                    BY <2>3, <3>2, <5>1, <5>2, SentIsCurrent, ProbesAreCurrent
            <4> QED
                BY <1>5, <2>1, <2>3, <3>1, <3>4, <4>1 DEF LinkIsCurrent, dbVars
        <3>5. CASE Finish({}) /\ toDB' = toDB
            <4>1. sessions' = sessions
                BY <3>5 DEF Finish
            <4> QED
                BY <1>5, <2>1, <3>1, <3>2, <3>5, <4>1, ProbesAreCurrent DEF LinkIsCurrent, dbVars
        <3> QED
            BY <2>2, <3>3, <3>4, <3>5
    <2> QED
        BY <2>5, <2>6 DEF RowInv
<1>15. CASE CreateAnswered
    <2> DEFINE m == Head(toLogin[transport])
    <2>1. /\ transport \in Connections /\ Receive
          /\ Finish(IF m.created THEN Row(m.id) ELSE {})
          /\ UNCHANGED <<transport, dbVars, live, toDB, spent>>
          /\ m.type = "createAccount"
        BY <1>1, <1>15 DEF CreateAnswered, IsAnswer
    <2> HIDE DEF m
    <2>2. Channels'
        BY <1>1, <2>1 DEF Channels, dbVars
    <2>3. ASSUME Punctual'
          PROVE  SessionRowIsTruthful' /\ LinkIsCurrent'
        <3>1. Punctual /\ ~IsProbe(m)
            BY <2>1, <2>3 DEF Punctual, IsProbe
        <3>2. /\ toLogin'[transport] = Tail(toLogin[transport])
              /\ AllProbes(toDB[transport]) /\ AllProbes(Tail(toLogin[transport]))
              /\ Truthful(m, login.name, accounts)
            BY <2>1, <3>1, ReceivedIsCurrent DEF m
        <3>3. m.created => m.id \in DOMAIN accounts /\ accounts[m.id].name = login.name
            BY <2>1, <3>2 DEF Truthful
        <3>4. /\ m.created => sessions' = sessions \cup {[account |-> login.name, userId |-> m.id]}
              /\ ~m.created => sessions' = sessions
            BY <2>1 DEF Finish, Row
        <3>5. SessionRowIsTruthful'
            BY <1>3, <2>1, <3>1, <3>3, <3>4 DEF SessionRowIsTruthful, dbVars
        <3> QED
            BY <2>1, <3>2, <3>5, ProbesAreCurrent DEF LinkIsCurrent
    <2> QED
        BY <2>2, <2>3 DEF RowInv
<1>16. CASE GiveUp
    <2>1. /\ transport \in Connections /\ transport \notin live /\ toLogin[transport] = <<>>
          /\ sessions' = sessions /\ UNCHANGED <<link, transport, dbVars, netVars, spent>>
        BY <1>1, <1>16 DEF GiveUp, NothingCanArrive, Finish
    <2>2. Channels'
        BY <1>1, <2>1 DEF Channels, dbVars, netVars
    <2>3. toDB'[transport] = <<>> /\ toLogin'[transport] = <<>> /\ AllProbes(<<>>)
        BY <1>1, <1>2, <2>1 DEF netVars, AllProbes
    <2> QED
        BY <1>5, <2>1, <2>2, <2>3, ProbesAreCurrent DEF RowInv, Punctual, LinkIsCurrent, dbVars
<1>17. CASE GiveUpEarly
    <2>1. Spend("timeouts") /\ UNCHANGED <<transport, dbVars, netVars>>
        BY <1>17 DEF GiveUpEarly
    <2>2. Channels'
        BY <1>1, <2>1 DEF Channels, dbVars, netVars
    <2> QED
        BY <1>7, <2>1, <2>2 DEF RowInv
<1>18. CASE HandleFromPeer
    <2>1. /\ peer \in Connections /\ toDB[peer] # <<>>
          /\ toDB' = [toDB EXCEPT ![peer] = Tail(@)]
          /\ Handle(Head(toDB[peer]), peer)
          /\ UNCHANGED <<loginVars, running, peer, awaiting, live, spent>>
        BY <1>1, <1>18 DEF HandleFromPeer
    <2>2. Head(toDB[peer]) \in Requests
        BY <1>1, <2>1
    <2>3. /\ \A c \in Connections : c # peer => toDB'[c] = toDB[c]
          /\ toDB'[peer] = Tail(toDB[peer])
        BY <1>1, <2>1
    <2>4. peer = transport => transport \in live
        BY <1>1, <1>2, <2>1
    <2>5. Channels'
        BY <1>1, <1>2, <2>1, <2>3, <2>4 DEF Channels, loginVars
    <2>6. Punctual' => SessionRowIsTruthful' /\ LinkIsCurrent'
        BY <1>1, <2>1, <2>2, <2>3, <2>4, HandledIsCurrent
    <2> QED
        BY <2>5, <2>6 DEF RowInv
<1>19. CASE HandleFromNew
    <2>1. PICK c \in awaiting :
              /\ toDB[c] # <<>>
              /\ peer' = PeerAfter(c)
              /\ awaiting' = awaiting \ {c}
              /\ IF peer' = c
                 THEN /\ toDB' = [toDB EXCEPT ![c] = Tail(@)]
                      /\ live' = live
                 ELSE /\ toDB' = [toDB EXCEPT ![c] = <<>>]
                      /\ live' = live \ {c}
              /\ Handle(Head(toDB[c]), peer')
        BY <1>19 DEF HandleFromNew
    <2>2. /\ UNCHANGED <<loginVars, running, spent>> /\ transport' = transport
          /\ c \in Connections
        BY <1>1, <1>19 DEF HandleFromNew, loginVars
    <2>3. Head(toDB[c]) \in Requests /\ IsProbe(Head(toDB[c]))
        BY <1>1, <1>2, <2>1, <2>2
    <2>4. /\ \A d \in Connections : d # c => toDB'[d] = toDB[d]
          /\ peer' = c => toDB'[c] = Tail(toDB[c])
          /\ peer' # c => toDB'[c] = <<>>
          /\ peer' \notin awaiting' /\ live' \subseteq live
          /\ transport \in live /\ transport \notin live' => c = transport /\ peer' # c
        BY <1>1, <1>2, <2>1, <2>2 DEF PeerAfter
    <2>5. /\ \A d \in awaiting' : d # c /\ d \in Connections /\ d \in awaiting
          /\ c = transport => transport \in live
        BY <1>1, <1>2, <2>1, <2>2
    <2>6. Channels'
        BY <1>1, <1>2, <2>2, <2>4, <2>5 DEF Channels
    <2>7. ASSUME Punctual'
          PROVE  SessionRowIsTruthful' /\ LinkIsCurrent'
        <3>1. PICK to : to = peer'
            OBVIOUS
        <3>2. Handle(Head(toDB[c]), to)
            BY <2>1, <3>1
        <3>3. to = transport /\ transport \in live =>
                 \/ IsProbe(Head(toDB[c])) /\ toDB'[transport] = toDB[transport]
                 \/ /\ toDB[transport] # <<>> /\ Head(toDB[c]) = Head(toDB[transport])
                    /\ toDB'[transport] = Tail(toDB[transport])
            BY <1>1, <2>1, <2>3, <2>4, <3>1
        <3>4. ~(to = transport /\ transport \in live) /\ transport # NoConnection =>
                 toDB'[transport] \in {toDB[transport], <<>>}
            BY <1>1, <2>4, <2>5, <3>1
        <3> QED
            BY <2>2, <2>3, <2>7, <3>2, <3>3, <3>4, HandledIsCurrent
    <2> QED
        BY <2>6, <2>7 DEF RowInv
<1>20. CASE Crash
    <2>1. /\ awaiting' = {} /\ live' = {} /\ toDB' = [c \in Connections |-> <<>>]
          /\ toLogin' \in {toLogin, [c \in Connections |-> <<>>]}
          /\ Spend("crashes") /\ UNCHANGED <<loginVars, accounts>>
        BY <1>20 DEF Crash
    <2>2. UNCHANGED <<transport, pc, login, sessions, accounts>>
        BY <2>1 DEF loginVars
    <2>3. Channels'
        BY <1>1, <2>1, <2>2 DEF Channels
    <2>4. ASSUME Punctual'
          PROVE  SessionRowIsTruthful' /\ LinkIsCurrent'
        <3>1. Punctual
            BY <1>6, <2>1, <2>4 DEF Kinds
        <3>2. ASSUME transport \in Connections
              PROVE  Current(<<>>, toLogin'[transport], pc, login.name, accounts)
            <4>1. Current(toDB[transport], toLogin[transport], pc, login.name, accounts)
                BY <1>1, <1>3, <3>1, <3>2 DEF LinkIsCurrent
            <4>2. toLogin'[transport] \in {toLogin[transport], <<>>}
                BY <1>1, <2>1, <3>2
            <4> QED
                BY <4>1, <4>2 DEF Current
        <3>3. transport \in Connections => toDB'[transport] = <<>>
            BY <2>1
        <3> QED
            BY <1>1, <1>5, <2>2, <3>1, <3>2, <3>3 DEF LinkIsCurrent
    <2> QED
        BY <2>3, <2>4 DEF RowInv
<1>21. CASE Restart
    <2>1. UNCHANGED <<transport, pc, login, sessions, peer, awaiting, accounts, netVars, spent>>
        BY <1>21 DEF Restart, loginVars
    <2> QED
        BY <1>1, <1>3, <1>5, <2>1 DEF RowInv, Channels, Punctual, LinkIsCurrent, netVars
<1>22. CASE Cut
    <2>1. /\ transport \in Connections /\ Spend("cuts")
          /\ live' = live \ {transport} /\ awaiting' = awaiting \ {transport}
          /\ toDB' = [toDB EXCEPT ![transport] = <<>>]
          /\ toLogin' = [toLogin EXCEPT ![transport] = <<>>]
          /\ UNCHANGED <<transport, pc, login, sessions, peer, accounts>>
        BY <1>1, <1>22 DEF Cut, loginVars
    <2>2. /\ toDB'[transport] = <<>> /\ toLogin'[transport] = <<>> /\ AllProbes(<<>>)
          /\ \A c \in awaiting' : c \in awaiting /\ toDB'[c] = toDB[c]
        BY <1>1, <2>1 DEF AllProbes
    <2>3. Channels'
        BY <1>1, <1>2, <2>1, <2>2 DEF Channels
    <2> QED
        BY <1>5, <1>6, <2>1, <2>2, <2>3, ProbesAreCurrent DEF RowInv, LinkIsCurrent, Kinds
<1>23. CASE Relaunch
    <2>1. /\ Spend("relaunches") /\ sessions' \in {sessions, {}}
          /\ UNCHANGED <<peer, accounts>> /\ pc' = "idle"
        BY <1>23 DEF Relaunch
    <2>2. Punctual' => SessionRowIsTruthful'
        BY <1>3, <1>6, <2>1 DEF SessionRowIsTruthful, Kinds
    <2>3. CASE transport = NoConnection
        <3>1. UNCHANGED <<transport, live, toLogin, toDB, awaiting>>
            BY <1>23, <2>3 DEF Relaunch
        <3> QED
            BY <1>1, <2>1, <2>2, <2>3, <3>1 DEF RowInv, Channels, LinkIsCurrent
    <2>4. CASE transport \in Connections
        <3>1. MarkDbLinkDown
            BY <1>1, <1>23, <2>4 DEF Relaunch
        <3> QED
            BY <2>1, <2>2, <2>4, <3>1, DownIsCurrent DEF RowInv
    <2> QED
        BY <1>1, <2>3, <2>4
<1>24. CASE UNCHANGED vars
    BY <1>1, <1>3, <1>5, <1>24
    DEF RowInv, Channels, Punctual, LinkIsCurrent, vars, loginVars, dbVars, netVars
<1> QED
    BY <1>8, <1>9, <1>10, <1>11, <1>12, <1>13, <1>14, <1>15, <1>16, <1>17, <1>18,
       <1>19, <1>20, <1>21, <1>22, <1>23, <1>24
    DEF Next

-----------------------------------------------------------------------------
(* The theorems *)

\* Every variable keeps its type; a link has a transport exactly outside the
\* back-off, and a login is in progress exactly while dbRequest waits.
THEOREM TypeCorrect == Spec => []TypeOK
<1>1. Inv => TypeOK
    BY DEF Inv
<1> QED
    BY <1>1, Invariance, PTL

\* No account is registered twice: the scan of handleCreateAccount decides,
\* whatever was lost, late or repeated between LoginApp and DBApp.
THEOREM AccountsStayUnique == Spec => []AccountIsUnique
<1>1. Inv => AccountIsUnique
    BY DEF Inv
<1> QED
    BY <1>1, Invariance, PTL

\* A link that is Up over a connection that the network carries is the one on
\* which DBApp answers: only an answer confirms it, and answers come over the
\* registered peer alone.
THEOREM UpStaysReachable == Spec => []UpIsReachable
<1>1. Inv => UpIsReachable
    BY DEF Inv
<1> QED
    BY <1>1, Invariance, PTL

\* As long as every login waits for its answer until none can come, a session row
\* has the id of the account it names: DBApp's crashes and restarts, lost
\* connections and restarts of LoginApp put no other login's answer in its place.
\* A wait that ends early does: dbRequest takes an answer by its method alone.
THEOREM RowsStayTruthful == Spec => [](Punctual => SessionRowIsTruthful)
<1>1. Init => Inv /\ RowInv
    BY InvInit, RowInvInit
<1>2. Inv /\ RowInv /\ [Next]_vars => (Inv /\ RowInv)'
    BY InvStep, RowInvStep
<1>3. RowInv => (Punctual => SessionRowIsTruthful)
    BY DEF RowInv
<1> QED
    BY <1>1, <1>2, <1>3, PTL DEF Spec
=============================================================================
