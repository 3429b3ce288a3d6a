---------------------------- MODULE PlayerActions ----------------------------
(***************************************************************************)
(* What a player's entity is told to do and what it tells its player:      *)
(* the input queue that a cell fills and empties (Entity::processInput),   *)
(* and the client events on their way cell, base, client.  Handlers are    *)
(* scripts: they may emit, begin a migration, or destroy the entity that   *)
(* they run on.  The place of the entity among several cells, and what a   *)
(* migration is made of, are EntityRuntime's.                              *)
(***************************************************************************)
EXTENDS Naturals, Sequences, SequencesExt

CONSTANTS MaxActions, MaxEvents, MaxMoves

ASSUME ActionsAssumption == MaxMoves \in Nat

VARIABLES
    life,               \* state_ of the body: "active", "migrating", "destroyed", "removed"
    bodyNumber,         \* migrations so far: each makes a new body in another cell
    inputQueue, working, acting,        \* the queue, the batch taken out of it, the action handled
    pendingClientEvents,
    line,               \* body -> the batches of events on their way from its cell
    playerHere,         \* the base still has a connected session for the entity
    sent, emitted,
    handled,            \* history: actions handled, in order
    endedWhileActing,   \* history: the handlers of this batch took the entity's life
    shown,              \* history: events the client received: [event, body]
    vain                \* history: events that nobody can receive any more

actionVars == <<life, bodyNumber, inputQueue, working, acting, pendingClientEvents,
                line, playerHere, sent, emitted, handled, endedWhileActing, shown, vain>>

ActionsInit ==
    /\ life = "active" /\ bodyNumber = 0
    /\ inputQueue = << >> /\ working = << >> /\ acting = 0
    /\ pendingClientEvents = << >> /\ line = [b \in 0 .. MaxMoves |-> << >>]
    /\ playerHere = TRUE /\ sent = 0 /\ emitted = 0
    /\ handled = << >> /\ endedWhileActing = FALSE /\ shown = << >> /\ vain = {}

QueueAsItWas == UNCHANGED <<inputQueue, working, acting, sent, handled, endedWhileActing>>
EventsAsTheyWere == UNCHANGED <<pendingClientEvents, line, playerHere, emitted, shown, vain>>
BodyStays == UNCHANGED <<life, bodyNumber>>

BetweenTicks == acting = 0 /\ working = << >>

\* Code of the game runs in a handler, or in a timer or a call between the batches.
ScriptRuns == acting # 0 \/ BetweenTicks

-----------------------------------------------------------------------------
(* Actions *)

\* handleEntityAction: an entity that is not active gets no input; the message is
\* dropped, also in the route window of a migration (CellRuntime.cpp:437).
HandleEntityAction ==
    /\ BetweenTicks /\ sent < MaxActions /\ sent' = sent + 1
    /\ inputQueue' = IF life = "active" THEN Append(inputQueue, sent') ELSE inputQueue
    /\ UNCHANGED <<working, acting, handled, endedWhileActing>>
    /\ EventsAsTheyWere /\ BodyStays

\* processInput works on what was queued when it began; without a handler the
\* queue is thrown away.
ProcessInput(hasHandler) ==
    /\ BetweenTicks /\ life = "active" /\ inputQueue # << >>
    /\ working' = IF hasHandler THEN inputQueue ELSE << >>
    /\ inputQueue' = << >>
    /\ endedWhileActing' = FALSE
    /\ UNCHANGED <<acting, sent, handled>> /\ EventsAsTheyWere /\ BodyStays

\* The loop does not look at the entity's state between two actions.
HandleAction ==
    /\ acting = 0 /\ working # << >>
    /\ acting' = Head(working) /\ working' = Tail(working)
    /\ handled' = Append(handled, acting')
    /\ UNCHANGED <<inputQueue, sent, endedWhileActing>> /\ EventsAsTheyWere /\ BodyStays

HandlerReturns ==
    /\ acting # 0 /\ acting' = 0
    /\ UNCHANGED <<inputQueue, working, sent, handled, endedWhileActing>>
    /\ EventsAsTheyWere /\ BodyStays

-----------------------------------------------------------------------------
(* The body *)

EndsUnderHandlers == endedWhileActing' = (endedWhileActing \/ acting # 0)

BeginMigration ==
    /\ ScriptRuns /\ life = "active" /\ bodyNumber < MaxMoves
    /\ life' = "migrating" /\ EndsUnderHandlers
    /\ UNCHANGED <<bodyNumber, inputQueue, working, acting, sent, handled>> /\ EventsAsTheyWere

\* The snapshot of a migration has neither the queue nor the events.
CommitMigration ==
    /\ BetweenTicks /\ life = "migrating"
    /\ life' = "active" /\ bodyNumber' = bodyNumber + 1
    /\ inputQueue' = << >>
    /\ vain' = vain \cup ToSet(pendingClientEvents) /\ pendingClientEvents' = << >>
    /\ UNCHANGED <<working, acting, sent, handled, endedWhileActing, line, playerHere,
                   emitted, shown>>

\* Entity::destroy clears the input, and not the events, which stay with the body.
Destroy ==
    /\ ScriptRuns /\ life \in {"active", "migrating"}
    /\ life' = "destroyed" /\ EndsUnderHandlers
    /\ inputQueue' = << >>
    /\ UNCHANGED <<bodyNumber, working, acting, sent, handled>> /\ EventsAsTheyWere

RemoveBody ==
    /\ BetweenTicks /\ life = "destroyed" /\ life' = "removed"
    /\ vain' = vain \cup ToSet(pendingClientEvents) /\ pendingClientEvents' = << >>
    /\ UNCHANGED <<bodyNumber, line, playerHere, emitted, shown>> /\ QueueAsItWas

-----------------------------------------------------------------------------
(* Events *)

\* emitToClient, from a handler, a timer or a method: in any state of the body.
EmitToClient ==
    /\ ScriptRuns /\ life # "removed" /\ emitted < MaxEvents /\ emitted' = emitted + 1
    /\ pendingClientEvents' = Append(pendingClientEvents, emitted')
    /\ UNCHANGED <<line, playerHere, shown, vain>> /\ QueueAsItWas /\ BodyStays

\* flushClientEvents at the end of the tick; the class of the message is lossy.
FlushClientEvents(lost) ==
    /\ BetweenTicks /\ life = "active" /\ pendingClientEvents # << >>
    /\ IF lost THEN vain' = vain \cup ToSet(pendingClientEvents) /\ UNCHANGED line
       ELSE line' = [line EXCEPT ![bodyNumber] = Append(@, pendingClientEvents)] /\ UNCHANGED vain
    /\ pendingClientEvents' = << >>
    /\ UNCHANGED <<playerHere, emitted, shown>> /\ QueueAsItWas /\ BodyStays

\* handleClientEvent and BaseApp::onClientEvent: each event of the batch in turn.
HandleClientEvent(b) ==
    /\ line[b] # << >> /\ line' = [line EXCEPT ![b] = Tail(@)]
    /\ IF playerHere
       THEN /\ shown' = shown \o [k \in DOMAIN Head(line[b]) |-> [event |-> Head(line[b])[k], body |-> b]]
            /\ UNCHANGED vain
       ELSE vain' = vain \cup ToSet(Head(line[b])) /\ UNCHANGED shown
    /\ UNCHANGED <<pendingClientEvents, playerHere, emitted>> /\ QueueAsItWas /\ BodyStays

PlayerLeaves ==
    /\ playerHere /\ playerHere' = FALSE
    /\ UNCHANGED <<pendingClientEvents, line, emitted, shown, vain>> /\ QueueAsItWas /\ BodyStays

ActionsNext ==
    \/ HandleEntityAction \/ HandleAction \/ HandlerReturns
    \/ BeginMigration \/ CommitMigration \/ Destroy \/ RemoveBody
    \/ EmitToClient \/ PlayerLeaves
    \/ \E b \in BOOLEAN : ProcessInput(b) \/ FlushClientEvents(b)
    \/ \E b \in 0 .. MaxMoves : HandleClientEvent(b)

-----------------------------------------------------------------------------
(* Properties *)

ActionsTypeOK ==
    /\ life \in {"active", "migrating", "destroyed", "removed"}
    /\ ToSet(inputQueue) \cup ToSet(working) \cup ToSet(handled) \subseteq 1 .. sent
    /\ vain \subseteq 1 .. emitted

InOrder(list) == \A i, j \in DOMAIN list : i < j => list[i] < list[j]

OnTheLine == UNION {UNION {ToSet(line[b][k]) : k \in DOMAIN line[b]} : b \in DOMAIN line}

\* Actions are handled once and in order, and by a living body, but for the rest of a
\* batch whose handlers ended it.  The client hears every event once, and those of one
\* body in order, unless a migration, the end of the entity or of the session, or the
\* lossy class took it; across a migration the two cells' events may overtake each other.
PlayersAreServed ==
    /\ ActionsTypeOK
    /\ InOrder(handled)
    /\ acting # 0 => life = "active" \/ endedWhileActing
    /\ \A i, j \in DOMAIN shown : i < j =>
          /\ shown[i].event # shown[j].event
          /\ shown[i].body = shown[j].body => shown[i].event < shown[j].event
    /\ 1 .. emitted = vain \cup OnTheLine \cup ToSet(pendingClientEvents)
                           \cup {shown[i].event : i \in DOMAIN shown}
=============================================================================
