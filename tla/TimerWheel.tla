----------------------------- MODULE TimerWheel -----------------------------
(***************************************************************************)
(* foundation/TimerWheel.cpp, and the timers that a cell keeps for its     *)
(* entities (CellRuntime.cpp:899-926).  The wheel has Levels rings of      *)
(* SlotsPerLevel slots (4 and 256 in the code).  Callbacks run inside      *)
(* advance() and may add and cancel timers: an advance is therefore many   *)
(* steps, and a step of a callback falls between any two of them.          *)
(***************************************************************************)
EXTENDS Naturals, Sequences, SequencesExt, Lists

CONSTANTS
    SlotsPerLevel, Levels,
    SlotSpan,            \* the ticks that a slot of each ring covers (kLevelMask, plus one)
    Asks,                \* the timers callers ask for: [delay, periodic, owner]
    Owners,              \* the entities that set timers
    NoOwner,             \* a timer of the cell itself (CellRuntime::addTimer)
    MaxTimers, MaxTicks, MaxBodies

ASSUME WheelAssumption ==
    /\ SlotsPerLevel \in Nat \ {0} /\ Levels \in Nat /\ Levels >= 2
    /\ SlotSpan \in [0 .. Levels -> Nat] /\ SlotSpan[0] = 1
    /\ \A r \in 0 .. Levels - 1 : SlotSpan[r + 1] = SlotsPerLevel * SlotSpan[r]
    /\ Asks \subseteq [delay : Nat, periodic : BOOLEAN, owner : Owners \cup {NoOwner}]
    /\ MaxTimers \in Nat /\ MaxTicks \in Nat

VARIABLES
    currentTick, entries, freeList, wheels, nextTimerId,
    pass,                \* where advance() is: the ring being emptied, its snapshot
    firing,              \* the timer whose callback runs, 0 for none
    entityTimers,        \* entity -> the handles recorded for it
    body,                \* entity -> the number of its body in this cell, 0 for none
    setBy,               \* history: id -> the owner and the body that set it
    leftBehind,          \* history: timers of a body that went without them
    callbackLost         \* a callback was destroyed while it ran, and the process with it

wheelVars == <<currentTick, entries, freeList, wheels, nextTimerId, pass,
               firing, entityTimers, body, setBy, leftBehind, callbackLost>>

Rings == 0 .. Levels - 1
Slots == 0 .. SlotsPerLevel - 1
Outside == Levels                       \* pass.ring when advance() is not running
NotAdvancing == [ring |-> Outside, batch |-> << >>]
AtLeast1(n) == IF n = 0 THEN 1 ELSE n

WheelInit ==
    /\ currentTick = 0 /\ nextTimerId = 1 /\ firing = 0
    /\ entries = << >> /\ freeList = << >>
    /\ wheels = [r \in Rings |-> [s \in Slots |-> << >>]]
    /\ pass = NotAdvancing
    /\ entityTimers = [e \in Owners |-> << >>]
    /\ body = [e \in Owners |-> 1]
    /\ setBy = << >> /\ leftBehind = {} /\ callbackLost = FALSE

-----------------------------------------------------------------------------
(* Entries and slots *)

AllocEntry == IF freeList = << >> THEN Len(entries) + 1 ELSE Last(freeList)

FreeAfterAlloc == IF freeList = << >> THEN << >> ELSE Front(freeList)

\* The ring is the first whose span covers the distance, the last one otherwise.
RingFor(distance) ==
    CHOOSE r \in Rings :
        /\ r = Levels - 1 \/ distance < SlotSpan[r + 1]
        /\ \A q \in 0 .. r - 1 : distance >= SlotSpan[q + 1]

SlotIn(ring, tick) == (tick \div SlotSpan[ring]) % SlotsPerLevel

\* insertEntry: the entry goes to the slot its fireTick names, and remembers it.
Inserted(index, entry, rings) ==
    LET ahead == IF entry.fireTick > currentTick THEN entry.fireTick - currentTick ELSE 0
        r == RingFor(ahead)
        s == SlotIn(r, entry.fireTick)
        placed == [entry EXCEPT !.ring = r, !.slot = s]
    IN /\ entries' = IF index <= Len(entries) THEN [entries EXCEPT ![index] = placed]
                     ELSE Append(entries, placed)
       /\ wheels' = [rings EXCEPT ![r][s] = Append(@, index)]

Live(i) == ~entries[i].cancelled

Holds(i, id) == entries[i].id = id /\ Live(i)

-----------------------------------------------------------------------------
(* Callers: outside advance(), or the callback that is running *)

MayCall == pass = NotAdvancing \/ firing # 0

\* addTimer and addPeriodic: a delay below a tick is one tick.
AddEntry(ask) ==
    /\ MayCall /\ nextTimerId <= MaxTimers
    /\ Inserted(AllocEntry,
                [id |-> nextTimerId, fireTick |-> currentTick + AtLeast1(ask.delay),
                 period |-> IF ask.periodic THEN AtLeast1(ask.delay) ELSE 0,
                 cancelled |-> FALSE, ring |-> 0, slot |-> 0], wheels)
    /\ freeList' = FreeAfterAlloc
    /\ nextTimerId' = nextTimerId + 1
    /\ UNCHANGED <<currentTick, pass, firing, body, leftBehind>>

AddTimer(ask) ==
    /\ ask.owner = NoOwner
    /\ AddEntry(ask)
    /\ setBy' = Append(setBy, [owner |-> NoOwner, body |-> 0])
    /\ UNCHANGED entityTimers

\* addEntityTimer, addEntityPeriodicTimer: the handle is recorded for the entity.
AddEntityTimer(ask) ==
    /\ ask.owner \in Owners /\ body[ask.owner] # 0
    /\ AddEntry(ask)
    /\ entityTimers' = [entityTimers EXCEPT ![ask.owner] = Append(@, nextTimerId)]
    /\ setBy' = Append(setBy, [owner |-> ask.owner, body |-> body[ask.owner]])

IndexOf(id) == CHOOSE i \in DOMAIN entries : Holds(i, id)

\* cancel of each of some handles: its entry leaves its slot and the index returns
\* to the pool; a handle whose timer is no longer there does nothing.
Cancelled(handles) ==
    LET hit == {i \in DOMAIN entries : Live(i) /\ entries[i].id \in ToSet(handles)}
        found == Others(handles, {id \in ToSet(handles) : \A i \in hit : entries[i].id # id})
    IN /\ wheels' = [r \in Rings |-> [s \in Slots |-> Others(wheels[r][s], hit)]]
       /\ entries' = [i \in DOMAIN entries |->
                        IF i \in hit THEN [entries[i] EXCEPT !.cancelled = TRUE] ELSE entries[i]]
       /\ freeList' = freeList \o [k \in DOMAIN found |-> IndexOf(found[k])]

CancelTimer(id) ==
    /\ MayCall /\ \E i \in DOMAIN entries : Holds(i, id)
    /\ Cancelled(<<id>>)
    /\ UNCHANGED <<currentTick, nextTimerId, pass, firing, entityTimers, body,
                   setBy, leftBehind>>

\* cancelEntityTimers, in handleDestroyCell and destroySpace: every handle
\* recorded for the entity, also those a former body left.
DestroyBody(e) ==
    /\ MayCall /\ body[e] # 0
    /\ Cancelled(entityTimers[e])
    /\ entityTimers' = [entityTimers EXCEPT ![e] = << >>]
    /\ body' = [body EXCEPT ![e] = 0]
    /\ UNCHANGED <<currentTick, nextTimerId, pass, firing, setBy, leftBehind>>

\* CellRuntime::removeEntity, from applyMigrationCommit or from CellApp::destroyEntity:
\* the body goes and its timers stay on the wheel and on record.
LeaveTimers(e) ==
    /\ MayCall /\ body[e] # 0
    /\ body' = [body EXCEPT ![e] = 0]
    /\ leftBehind' = leftBehind \cup ToSet(entityTimers[e])
    /\ UNCHANGED <<currentTick, entries, freeList, wheels, nextTimerId, pass,
                   firing, entityTimers, setBy>>

\* The callback of a periodic timer runs where its entry keeps it: an addTimer that
\* moves the entries, or reuses the entry because the callback cancelled its own timer,
\* destroys the callback that runs.  That it does no harm is AddTimer.
LoseCallback ==
    /\ firing # 0 /\ nextTimerId <= MaxTimers
    /\ \E i \in DOMAIN entries :
         /\ entries[i].id = firing /\ entries[i].period > 0
         /\ AllocEntry \in {i, Len(entries) + 1}
    /\ callbackLost' = TRUE
    /\ UNCHANGED <<currentTick, entries, freeList, wheels, nextTimerId, pass, firing,
                   entityTimers, body, setBy, leftBehind>>

\* handleCreateCell, and a migration back: a new body under the old entity id.
NewBody(e) ==
    LET used == {setBy[k].body : k \in {k \in DOMAIN setBy : setBy[k].owner = e}} \cup {1}
        number == 1 + CHOOSE n \in used : \A m \in used : m <= n
    IN /\ pass = NotAdvancing /\ body[e] = 0 /\ number <= MaxBodies
       /\ body' = [body EXCEPT ![e] = number]
       /\ UNCHANGED <<currentTick, entries, freeList, wheels, nextTimerId, pass,
                      firing, entityTimers, setBy, leftBehind>>

-----------------------------------------------------------------------------
(* advance(), one tick of it at a time *)

\* A snapshot carries the id of each entry: an index may be given out again
\* while the batch is worked off.
Snapshot(ring, tick) ==
    LET slot == wheels[ring][SlotIn(ring, tick)]
    IN [k \in DOMAIN slot |-> [index |-> slot[k], id |-> entries[slot[k]].id]]

Emptied(ring, tick) == [wheels EXCEPT ![ring][SlotIn(ring, tick)] = << >>]

Advance ==
    /\ pass = NotAdvancing /\ currentTick < MaxTicks
    /\ currentTick' = currentTick + 1
    /\ pass' = [ring |-> 0, batch |-> Snapshot(0, currentTick + 1)]
    /\ wheels' = Emptied(0, currentTick + 1)
    /\ UNCHANGED <<entries, freeList, nextTimerId, firing, entityTimers, body,
                   setBy, leftBehind>>

\* Mutant: an index is taken for the entry that the snapshot saw in it.
DueByIndex(item) == Live(item.index)

Due(item) == Holds(item.index, item.id)

TakeHead == pass' = [pass EXCEPT !.batch = Tail(@)]

\* fireEntry: a periodic entry is inserted again before its callback runs, a
\* one-shot entry is free before its callback runs.
FireEntry(i) ==
    /\ IF entries[i].period > 0
       THEN /\ Inserted(i, [entries[i] EXCEPT !.fireTick = currentTick + entries[i].period], wheels)
            /\ UNCHANGED freeList
       ELSE /\ entries' = [entries EXCEPT ![i].cancelled = TRUE]
            /\ freeList' = Append(freeList, i)
            /\ UNCHANGED wheels
    /\ firing' = entries[i].id

Working == firing = 0 /\ pass.batch # << >>

\* In a cascade, too, an entry that is due fires at once.
FiresNow(i) == pass.ring = 0 \/ entries[i].fireTick <= currentTick

FireNext ==
    /\ Working /\ Due(Head(pass.batch)) /\ FiresNow(Head(pass.batch).index)
    /\ FireEntry(Head(pass.batch).index)
    /\ TakeHead
    /\ UNCHANGED <<currentTick, nextTimerId, entityTimers, body, setBy, leftBehind>>

CascadeNext ==
    /\ Working /\ Due(Head(pass.batch)) /\ ~FiresNow(Head(pass.batch).index)
    /\ LET i == Head(pass.batch).index IN Inserted(i, entries[i], wheels)
    /\ TakeHead
    /\ UNCHANGED <<currentTick, freeList, nextTimerId, firing, entityTimers, body,
                   setBy, leftBehind>>

SkipNext ==
    /\ Working /\ ~Due(Head(pass.batch))
    /\ TakeHead
    /\ UNCHANGED <<currentTick, entries, freeList, wheels, nextTimerId, firing,
                   entityTimers, body, setBy, leftBehind>>

CallbackReturns ==
    /\ firing # 0 /\ firing' = 0
    /\ UNCHANGED <<currentTick, entries, freeList, wheels, nextTimerId, pass,
                   entityTimers, body, setBy, leftBehind>>

\* The next ring is emptied when the tick is a multiple of the ring's step.
NextRing ==
    LET r == pass.ring + 1 IN
    /\ firing = 0 /\ pass.ring # Outside /\ pass.batch = << >>
    /\ IF r < Levels /\ currentTick % SlotSpan[r] = 0
       THEN /\ pass' = [ring |-> r, batch |-> Snapshot(r, currentTick)]
            /\ wheels' = Emptied(r, currentTick)
       ELSE pass' = NotAdvancing /\ UNCHANGED wheels
    /\ UNCHANGED <<currentTick, entries, freeList, nextTimerId, firing,
                   entityTimers, body, setBy, leftBehind>>

WheelAction ==
    \/ \E ask \in Asks : AddTimer(ask) \/ AddEntityTimer(ask)
    \/ \E id \in 1 .. MaxTimers : CancelTimer(id)
    \/ \E e \in Owners : DestroyBody(e) \/ LeaveTimers(e) \/ NewBody(e)
    \/ Advance \/ FireNext \/ CascadeNext \/ SkipNext \/ CallbackReturns \/ NextRing

WheelNext == ~callbackLost /\ (LoseCallback \/ (WheelAction /\ UNCHANGED callbackLost))

-----------------------------------------------------------------------------
(* Properties *)

EntryType == [id : 1 .. MaxTimers, fireTick : Nat, period : Nat,
              cancelled : BOOLEAN, ring : Rings, slot : Slots]

WheelTypeOK ==
    /\ currentTick \in 0 .. MaxTicks
    /\ nextTimerId \in 1 .. MaxTimers + 1
    /\ entries \in Seq(EntryType)
    /\ freeList \in Seq(DOMAIN entries)
    /\ wheels \in [Rings -> [Slots -> Seq(DOMAIN entries)]]
    /\ pass.ring \in 0 .. Levels
    /\ firing \in 0 .. MaxTimers

\* The entries that the running batch has still to look at.
Pending == {pass.batch[k].index : k \in {k \in DOMAIN pass.batch : Due(pass.batch[k])}}

\* Wherever callbacks add and cancel in the middle of a batch: a free index is
\* in no slot and in the pool once; a live entry is in the slot it remembers,
\* there only and once, unless the running batch has taken it out.
SlotsAreSound ==
    /\ WheelTypeOK
    /\ \A i, j \in DOMAIN freeList : freeList[i] = freeList[j] => i = j
    /\ \A i \in DOMAIN entries :
         LET places == {p \in Rings \X Slots : i \in ToSet(wheels[p[1]][p[2]])} IN
         IF ~Live(i) THEN i \in ToSet(freeList) /\ places = {}
         ELSE /\ i \notin ToSet(freeList)
              /\ places = IF i \in Pending THEN {} ELSE {<<entries[i].ring, entries[i].slot>>}
    /\ \A p \in Rings \X Slots : IsInjective(wheels[p[1]][p[2]])

\* What the wheel promises, as TimerService has it.
Alarms == [a \in {entries[i].id : i \in {i \in DOMAIN entries : Live(i)}} |->
              LET i == CHOOSE i \in DOMAIN entries : Holds(i, a)
              IN [due |-> entries[i].fireTick, period |-> entries[i].period]]

\* A body hears only the timers that it set: an entity that is destroyed and
\* created again never hears a timer of its former body.  The exception is a
\* body that went through CellRuntime::removeEntity alone, by a migration
\* (CellRuntime.cpp:548) or CellApp::destroyEntity, which cancel no timers.
OldTimersAreSilent ==
    firing # 0 /\ setBy[firing].owner # NoOwner =>
        \/ body[setBy[firing].owner] \in {0, setBy[firing].body}
        \/ firing \in leftBehind
=============================================================================
