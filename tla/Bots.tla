-------------------------------- MODULE Bots --------------------------------
(***************************************************************************)
(* tools/bots/BotClient.cpp: one bot, from its login to the game and back  *)
(* again after any failure.  The bot acts only in tick(), which pumps the  *)
(* connection of its leg: every frame that has arrived is handled before   *)
(* the tick goes on.  The servers (external) answer, refuse or hang up.    *)
(***************************************************************************)
EXTENDS Naturals, Sequences, SequencesExt

CONSTANTS MaxLogins, MaxFrames

VARIABLES
    state, retryScheduled,
    leg,                \* the connection: [to, open, inbox]
    attemptDue,         \* now >= nextAttempt_
    overdue,            \* kResponseTimeout has passed since stateSince_
    rest,               \* what is left of the running tick
    attempts,           \* history: how often startLogin ran
    frames, reconnects

botVars == <<state, retryScheduled, leg, attemptDue, overdue, rest, attempts,
             frames, reconnects>>

NoLeg == [to |-> "none", open |-> FALSE, inbox |-> << >>]
Replies == {"loginOk", "selectOk", "enterOk", "refusal", "mirror"}
WaitsAtLogin == {"LoginSent", "SelectSent"}
Waits == WaitsAtLogin \cup {"EnterSent"}

BotInit ==
    /\ state = "Idle" /\ retryScheduled = FALSE /\ leg = NoLeg
    /\ attemptDue = TRUE /\ overdue = FALSE /\ rest = "none"
    /\ attempts = 0 /\ frames = 0 /\ reconnects = 0

-----------------------------------------------------------------------------
(* scheduleRetry never touches the connections: it may run in their callback *)

ScheduleRetry ==
    /\ state' = "Backoff" /\ retryScheduled' = TRUE
    /\ reconnects' = IF retryScheduled THEN reconnects ELSE reconnects + 1
    /\ attemptDue' = FALSE

Enters(where) == state' = where /\ overdue' = FALSE /\ UNCHANGED <<retryScheduled, reconnects, attemptDue>>

StateStays == UNCHANGED <<state, retryScheduled, reconnects, attemptDue, overdue>>

Opened(to) == [to |-> to, open |-> TRUE, inbox |-> << >>]

-----------------------------------------------------------------------------
(* tick *)

\* startLogin: the flag is reset before anything can fail.
StartLogin(connects) ==
    /\ rest = "none" /\ state \in {"Idle", "Backoff"} /\ attemptDue /\ attempts < MaxLogins
    /\ attempts' = attempts + 1
    /\ IF connects
       THEN /\ state' = "LoginSent" /\ leg' = Opened("login") /\ overdue' = FALSE
            /\ retryScheduled' = FALSE /\ UNCHANGED <<reconnects, attemptDue>>
       ELSE /\ state' = "Backoff" /\ retryScheduled' = TRUE /\ reconnects' = reconnects + 1
            /\ leg' = NoLeg /\ attemptDue' = FALSE /\ UNCHANGED overdue
    /\ UNCHANGED <<rest, frames>>

\* connectBase: the login's connection is closed in the tick, not in the callback.
ConnectBase(connects) ==
    /\ rest = "none" /\ state = "BaseConnecting"
    /\ IF connects THEN leg' = Opened("base") /\ Enters("EnterSent")
                   ELSE leg' = NoLeg /\ ScheduleRetry /\ UNCHANGED overdue
    /\ UNCHANGED <<rest, attempts, frames>>

Tick ==
    /\ rest = "none" /\ state \in Waits \cup {"InGame"}
    /\ rest' = state
    /\ StateStays /\ UNCHANGED <<leg, attempts, frames>>

\* pump: the next frame.  Whatever arrives in Backoff is stale and passed over;
\* the SelectRealm that answers a login may find the session closed or full.
OnMessage(frame) ==
    CASE state = "Backoff" \/ frame = "mirror" -> StateStays
      [] frame = "loginOk" /\ state = "LoginSent" ->
            Enters("SelectSent") \/ (ScheduleRetry /\ overdue' = FALSE)
      [] frame = "selectOk" /\ state = "SelectSent" -> Enters("BaseConnecting")
      [] frame = "enterOk" /\ state = "EnterSent" ->
            state' = "InGame" /\ UNCHANGED <<retryScheduled, reconnects, attemptDue, overdue>>
      [] OTHER -> ScheduleRetry /\ UNCHANGED overdue

PumpFrame ==
    /\ rest # "none" /\ leg.inbox # << >>
    /\ OnMessage(Head(leg.inbox))
    /\ leg' = [leg EXCEPT !.inbox = Tail(@)]
    /\ UNCHANGED <<rest, attempts, frames>>

Pumped == rest # "none" /\ leg.inbox = << >>

\* After the pump the connection decides, whatever state the pump has led to:
\* an accepted SelectRealm is thrown away when the login server hung up behind it.
LostConnection ==
    /\ Pumped /\ ~leg.open
    /\ ScheduleRetry /\ UNCHANGED overdue
    /\ rest' = "none" /\ UNCHANGED <<leg, attempts, frames>>

\* Mutant: only the answer to EnterGame has a deadline.
TimedOutAtBase == rest = "EnterSent" /\ overdue

TimedOut == rest \in Waits /\ overdue

ResponseTimeout ==
    /\ Pumped /\ leg.open /\ TimedOut
    /\ ScheduleRetry /\ UNCHANGED overdue
    /\ rest' = "none" /\ UNCHANGED <<leg, attempts, frames>>

StillWaiting ==
    /\ Pumped /\ leg.open /\ rest \in Waits /\ ~TimedOut
    /\ rest' = "none" /\ StateStays /\ UNCHANGED <<leg, attempts, frames>>

\* tickInGame sends a move or a heartbeat, also just after an error frame.
TickInGame(accepted) ==
    /\ Pumped /\ leg.open /\ rest = "InGame"
    /\ IF accepted THEN StateStays ELSE ScheduleRetry /\ UNCHANGED overdue
    /\ rest' = "none" /\ UNCHANGED <<leg, attempts, frames>>

ForceDisconnect ==
    /\ rest = "none" /\ state \in Waits \cup {"InGame"}
    /\ leg' = [leg EXCEPT !.open = FALSE, !.inbox = << >>]
    /\ ScheduleRetry /\ UNCHANGED overdue
    /\ UNCHANGED <<rest, attempts, frames>>

-----------------------------------------------------------------------------
(* The servers and the clock *)

Answer(reply) ==
    /\ leg.open /\ frames < MaxFrames /\ frames' = frames + 1
    /\ leg' = [leg EXCEPT !.inbox = Append(@, reply)]
    /\ StateStays /\ UNCHANGED <<rest, attempts>>

HangUp ==
    /\ leg.open /\ leg' = [leg EXCEPT !.open = FALSE]
    /\ StateStays /\ UNCHANGED <<rest, attempts, frames>>

BackoffEnds ==
    /\ state = "Backoff" /\ ~attemptDue /\ attemptDue' = TRUE
    /\ UNCHANGED <<state, retryScheduled, leg, overdue, rest, attempts, frames, reconnects>>

AnswerIsLate ==
    /\ state \in Waits /\ ~overdue /\ overdue' = TRUE
    /\ UNCHANGED <<state, retryScheduled, leg, attemptDue, rest, attempts, frames, reconnects>>

TickStep ==
    \/ \E connects \in BOOLEAN : StartLogin(connects) \/ ConnectBase(connects)
    \/ Tick \/ PumpFrame \/ LostConnection \/ ResponseTimeout \/ StillWaiting
    \/ \E accepted \in BOOLEAN : TickInGame(accepted)

ClockStep == BackoffEnds \/ AnswerIsLate

BotNext == TickStep \/ ForceDisconnect \/ (\E reply \in Replies : Answer(reply))
           \/ HangUp \/ ClockStep

-----------------------------------------------------------------------------
(* Properties *)

BotTypeOK ==
    /\ state \in Waits \cup {"Idle", "Backoff", "BaseConnecting", "InGame"}
    /\ leg.to \in {"none", "login", "base"} /\ rest \in Waits \cup {"none", "InGame"}

\* A failed attempt is counted once, however many of its frames, sends and
\* connections fail in one tick; and a bot in the game, or on its way into it,
\* holds the connection of the leg it is on.
RetriesAreCounted ==
    /\ BotTypeOK
    /\ reconnects = attempts - (IF state \in {"Idle", "Backoff"} THEN 0 ELSE 1)
    /\ state \in WaitsAtLogin \cup {"BaseConnecting"} => leg.to = "login"
    /\ state \in {"EnterSent", "InGame"} => leg.to = "base"

OnItsWay == state \in Waits \cup {"BaseConnecting"}
Settled == state \in {"InGame", "Backoff"}
=============================================================================
