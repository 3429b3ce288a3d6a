-------------------------------- MODULE Groups --------------------------------
(***************************************************************************)
(* runtime/GroupManager.cpp and EntityRef.cpp: a group holds references to *)
(* bodies of entities, not their ids.  A broadcast runs handlers, which    *)
(* may destroy entities, and add to the group or take from it, while the   *)
(* loop stands in its unordered map.                                       *)
(***************************************************************************)
EXTENDS Naturals

CONSTANTS MemberIds,              \* ids of the entities
          MaxLives, MaxCasts, MaxChanges

VARIABLES
    lives,              \* id -> bodies made so far
    alive, kept,        \* ids whose newest body has its alive flag, and whose body is still owned
    roster,             \* members_: id -> which body the reference was taken from, 0 for none
    toVisit, here,      \* the entries the broadcast has yet to visit, the entry it stands on
    inCast, casts, changes,
    hearers, throughout,  \* history: who heard this broadcast; who was to hear it all along
    enrolled,           \* history: the bodies that were ever added: <<id, body>>
    lost                \* history: the loop's iterator or a reference is not valid any more

groupVars == <<lives, alive, kept, roster, toVisit, here, inCast, casts, changes,
               hearers, throughout, enrolled, lost>>

Nobody == 0

GroupInit ==
    /\ lives = [i \in MemberIds |-> 0] /\ alive = {} /\ kept = {}
    /\ roster = [i \in MemberIds |-> 0]
    /\ toVisit = {} /\ here = Nobody /\ inCast = FALSE /\ casts = 0 /\ changes = 0
    /\ hearers = {} /\ throughout = {} /\ enrolled = {} /\ lost = FALSE

Enlisted == {i \in MemberIds : roster[i] # 0}
RefersToNewest(i) == roster[i] = lives[i]

\* EntityRef::get: an older body's flag is down for good.
IsValid(i) == roster[i] # 0 /\ RefersToNewest(i) /\ i \in alive

\* Code runs between broadcasts or in a handler of one.
ScriptsRun == (~inCast \/ here # Nobody) /\ ~lost /\ changes < MaxChanges
Change == ScriptsRun /\ changes' = changes + 1

CastStays == UNCHANGED <<toVisit, here, inCast, casts, hearers>>

-----------------------------------------------------------------------------
(* Entities *)

CreateEntity(i) ==
    /\ Change /\ i \notin kept /\ lives[i] < MaxLives
    /\ lives' = [lives EXCEPT ![i] = @ + 1]
    /\ alive' = alive \cup {i} /\ kept' = kept \cup {i}
    /\ UNCHANGED <<roster, throughout, enrolled, lost>> /\ CastStays

\* destroy() and then the owner lets go of the body.
DestroyEntity(i) ==
    /\ Change /\ i \in kept
    /\ alive' = alive \ {i} /\ kept' = kept \ {i} /\ throughout' = throughout \ {i}
    /\ UNCHANGED <<lives, roster, enrolled, lost>> /\ CastStays

-----------------------------------------------------------------------------
(* The group *)

\* The map may grow and be rehashed under the loop, which then meets the entries
\* in another order: those visited again, those yet to visit skipped.
Disturbed == inCast /\ toVisit # {}

\* addMember: an entry of a former body is still there until a cleanup.
AddMember(i) ==
    /\ Change /\ i \in kept /\ roster[i] = 0
    /\ roster' = [roster EXCEPT ![i] = lives[i]]
    /\ enrolled' = enrolled \cup {<<i, lives[i]>>}
    /\ lost' = Disturbed
    /\ UNCHANGED <<lives, alive, kept, throughout>> /\ CastStays

\* removeMember: taking the entry that the loop stands on takes its iterator.
RemoveMember(i) ==
    /\ Change /\ i \in Enlisted
    /\ roster' = [roster EXCEPT ![i] = 0]
    /\ toVisit' = toVisit \ {i} /\ throughout' = throughout \ {i}
    /\ lost' = (inCast /\ here = i)
    /\ UNCHANGED <<lives, alive, kept, here, inCast, casts, hearers, enrolled>>

\* cleanup: the entries whose body is gone.
Cleanup ==
    LET gone == {i \in Enlisted : ~IsValid(i)} IN
    /\ Change /\ gone # {}
    /\ roster' = [i \in MemberIds |-> IF i \in gone THEN 0 ELSE roster[i]]
    /\ toVisit' = toVisit \ gone /\ throughout' = throughout \ gone
    /\ lost' = (inCast /\ here \in gone)
    /\ UNCHANGED <<lives, alive, kept, here, inCast, casts, hearers, enrolled>>

-----------------------------------------------------------------------------
(* A broadcast *)

Broadcast ==
    /\ ~inCast /\ casts < MaxCasts /\ casts' = casts + 1
    /\ inCast' = TRUE /\ toVisit' = Enlisted /\ hearers' = {}
    /\ throughout' = {i \in Enlisted : IsValid(i)}
    /\ UNCHANGED <<lives, alive, kept, roster, here, changes, enrolled, lost>>

VisitEntry(i) ==
    /\ inCast /\ here = Nobody /\ ~lost /\ i \in toVisit
    /\ toVisit' = toVisit \ {i}
    /\ here' = IF IsValid(i) THEN i ELSE Nobody
    /\ hearers' = IF IsValid(i) THEN hearers \cup {<<i, lives[i]>>} ELSE hearers
    /\ UNCHANGED <<lives, alive, kept, roster, inCast, casts, changes, throughout, enrolled, lost>>

HandlerOfMemberReturns ==
    /\ here # Nobody /\ ~lost /\ here' = Nobody
    /\ UNCHANGED <<lives, alive, kept, roster, toVisit, inCast, casts, changes, hearers,
                   throughout, enrolled, lost>>

\* A loop whose iterator is not valid ends anywhere, or with the process.
BroadcastEnds ==
    /\ inCast /\ (lost \/ (here = Nobody /\ toVisit = {}))
    /\ inCast' = FALSE /\ here' = Nobody /\ toVisit' = {} /\ lost' = FALSE
    /\ throughout' = IF lost THEN {} ELSE throughout
    /\ UNCHANGED <<lives, alive, kept, roster, casts, changes, hearers, enrolled>>

GroupNext ==
    \/ \E i \in MemberIds : \/ CreateEntity(i) \/ DestroyEntity(i)
                          \/ AddMember(i) \/ RemoveMember(i) \/ VisitEntry(i)
    \/ Cleanup \/ Broadcast \/ HandlerOfMemberReturns \/ BroadcastEnds

-----------------------------------------------------------------------------
(* Properties *)

\* A body is told only of a group that it was itself added to, never a later one of
\* its id; and a broadcast whose handlers neither added to the group nor removed the
\* member they served (GroupManager.cpp:82-88) reaches all who were in it throughout.
GroupsHearTheirOwn ==
    /\ \A i \in MemberIds : roster[i] <= lives[i] /\ (i \in alive => lives[i] > 0)
    /\ toVisit \subseteq Enlisted /\ (here # Nobody => inCast)
    /\ hearers \subseteq enrolled
    /\ ~inCast => throughout \subseteq {h[1] : h \in hearers}
=============================================================================
