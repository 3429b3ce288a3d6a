---------------------------- MODULE Persistence ----------------------------
(***************************************************************************)
(* How a base's entities are kept: BaseRuntime (core/BaseRuntime.cpp) with its *)
(* blocking RemoteEntityStore (db/RemoteEntityStore.cpp), composed with DBApp  *)
(* and its store (EntityStores).                                               *)
(*                                                                         *)
(* What is abstracted: time; cells, which an entity that is destroyed no longer *)
(* has (EntityRuntime); a factory that refuses; a second type of entities.     *)
(***************************************************************************)
EXTENDS EntityStores

VARIABLES
    baseUp,
    entities,   \* entities_: the version of each and persistenceDirtyMask
    call,       \* the request the base's thread waits for
    path,       \* the base's connection: "good" or "dead"
    served,     \* DBApp's hub has a connection of the base, alive or not
    latest,     \* history: the last version of each entity
    acked       \* history: the version that a save was told is stored

baseVars == <<baseUp, entities, call, path, served, latest, acked>>
vars == <<storeVars, requests, answers, baseVars>>

NoEntity == [v |-> 0, dirty |-> FALSE]
NoCall == [op |-> "none", id |-> 0, req |-> 0, rest |-> {}, last |-> FALSE]

Init ==
    /\ StoresInit
    /\ baseUp = TRUE /\ path = "good" /\ served = TRUE
    /\ entities = [i \in Ids |-> NoEntity]
    /\ call = NoCall
    /\ latest = [i \in Ids |-> 0] /\ acked = [i \in Ids |-> 0]

Idle == baseUp /\ call = NoCall
InRegister(i) == entities[i].v # 0

-----------------------------------------------------------------------------
(* RemoteEntityStore.                                                        *)
\* No two requests have an id in common; those that are gone are used again here.
FreshId ==
    LET used == {requests[k].req : k \in DOMAIN requests}
                \cup {answers[k].req : k \in DOMAIN answers} \cup {job.req}
    IN CHOOSE n \in 1..(Cardinality(used) + 1) : n \notin used

\* request: it is sent, unless the connection has closed, and then waited for.
Request(op, id, rest, last) ==
    /\ call' = [op |-> op, id |-> id, req |-> FreshId, rest |-> rest, last |-> last]
    /\ requests' =
          IF path = "good"
          THEN Append(requests, [op |-> op, id |-> id, user |-> Nobody, req |-> FreshId,
                                 v |-> IF op = "save" THEN entities[id].v ELSE 0])
          ELSE requests

\* Mutant: the answer is known by its method only, as it was before requests had ids.
IsOfMethod(a) == a.op = call.op

IsAnswer(a) == a.op = call.op /\ a.req = call.req

NoRequest == call' = NoCall /\ UNCHANGED requests

\* What the base does when its request has come to something.
Continue ==
    IF call.rest = {} THEN NoRequest
    ELSE \E i \in call.rest : Request(call.op, i, call.rest \ {i}, FALSE)

\* createEntity: an id that is in the register already replaces nothing.
Created(ok, out) ==
    /\ NoRequest
    /\ \/ /\ ok
          /\ \A i \in out :
                /\ entities' = IF InRegister(i) THEN entities
                               ELSE [entities EXCEPT ![i] = [v |-> latest[i] + 1, dirty |-> FALSE]]
                /\ latest' = IF InRegister(i) THEN latest ELSE [latest EXCEPT ![i] = @ + 1]
       \/ ~ok /\ UNCHANGED <<entities, latest>>
    /\ UNCHANGED acked

\* Mutant: the dirty mark goes whatever became of the save.
SavedAnyway(ok) ==
    /\ Continue
    /\ entities' = [entities EXCEPT ![call.id] =
                       IF call.last THEN NoEntity ELSE [@ EXCEPT !.dirty = FALSE]]
    /\ acked' = IF ok THEN [acked EXCEPT ![call.id] = entities[call.id].v] ELSE acked
    /\ UNCHANGED latest

\* saveEntity, autoSaveAll: what was stored is clean; after the save of a
\* destruction, whatever came of it, the entity leaves the register.
Saved(ok) ==
    /\ Continue
    /\ entities' = [entities EXCEPT ![call.id] =
                       IF call.last THEN NoEntity
                       ELSE IF ok THEN [@ EXCEPT !.dirty = FALSE] ELSE @]
    /\ acked' = IF ok THEN [acked EXCEPT ![call.id] = entities[call.id].v] ELSE acked
    /\ UNCHANGED latest

\* loadEntity
Loaded(ok, out) ==
    /\ Continue
    /\ entities' = IF ok THEN [entities EXCEPT ![call.id] =
                                  [v |-> CHOOSE v \in out : TRUE, dirty |-> FALSE]]
                   ELSE entities
    /\ UNCHANGED <<latest, acked>>

\* restoreEntities, for each type that listEntityTypes names.
Listed(ok, out) ==
    /\ LET ids == {i \in out : ~InRegister(i)}
       IN IF call.op = "types"
          THEN IF ok THEN Request("list", 0, {}, FALSE) ELSE NoRequest
          ELSE IF ids = {} THEN NoRequest
               ELSE \E i \in ids : Request("load", i, ids \ {i}, FALSE)
    /\ UNCHANGED <<entities, latest, acked>>

Finish(ok, out) ==
    \/ call.op = "alloc" /\ Created(ok, out)
    \/ call.op = "save" /\ Saved(ok)
    \/ call.op = "load" /\ Loaded(ok, out)
    \/ call.op \in {"types", "list"} /\ Listed(ok, out)

DBAppSide == <<backend, autoCreate, up, db, txn, known, link, job, History>>
Others == <<DBAppSide, troubles>>

\* While it waits the base receives whatever comes; only its answer counts.
Hear ==
    /\ baseUp /\ call # NoCall /\ answers # <<>>
    /\ LET a == Head(answers)
       IN IF IsAnswer(a)
          THEN Finish(a.out # {}, a.out)
          ELSE UNCHANGED <<call, requests, entities, latest, acked>>
    /\ answers' = Tail(answers)
    /\ UNCHANGED <<Others, baseUp, path, served>>

\* requestTimeout; also when the answer can no longer come.
TimeOut ==
    /\ baseUp /\ call # NoCall
    /\ troubles' = IF path = "good" THEN troubles + 1 ELSE troubles
    /\ troubles' <= MaxTroubles
    /\ Finish(FALSE, {})
    /\ UNCHANGED <<DBAppSide, answers, baseUp, path, served>>

-----------------------------------------------------------------------------
(* The base.                                                                 *)
\* pumpInbound
Receive ==
    /\ Idle /\ answers # <<>>
    /\ answers' = Tail(answers)
    /\ UNCHANGED <<Others, requests, baseVars>>

CreateEntity ==
    /\ Idle /\ Request("alloc", 0, {}, FALSE)
    /\ UNCHANGED <<Others, answers, baseUp, entities, path, served, latest, acked>>

\* A persistent property is set.
Change(i) ==
    /\ Idle /\ InRegister(i) /\ latest[i] < MaxVersion
    /\ latest' = [latest EXCEPT ![i] = @ + 1]
    /\ entities' = [entities EXCEPT ![i] = [v |-> latest[i] + 1, dirty |-> TRUE]]
    /\ UNCHANGED <<Others, requests, answers, baseUp, call, path, served, acked>>

Dirty == {i \in Ids : InRegister(i) /\ entities[i].dirty}

\* buildSync, when the interval is over.
AutoSave ==
    /\ Idle
    /\ \E i \in Dirty : Request("save", i, Dirty \ {i}, FALSE)
    /\ UNCHANGED <<Others, answers, baseUp, entities, path, served, latest, acked>>

\* completeBaseDestruction
Destroy(i) ==
    /\ Idle /\ InRegister(i) /\ Request("save", i, {}, TRUE)
    /\ UNCHANGED <<Others, answers, baseUp, entities, path, served, latest, acked>>

CrashBase ==
    /\ baseUp /\ MayFail
    /\ troubles' = troubles + 1
    /\ baseUp' = FALSE /\ path' = "dead"
    /\ call' = NoCall /\ answers' = <<>>
    /\ entities' = [i \in Ids |-> NoEntity]
    /\ UNCHANGED <<DBAppSide, requests, served, latest, acked>>

\* BaseApp's init, over a new connection: a hub that has one of this base keeps the
\* old one and drops the new one, once its first request has been handled.
InitBase ==
    /\ ~baseUp /\ up /\ baseUp' = TRUE
    /\ call' = [NoCall EXCEPT !.op = "types", !.req = FreshId]
    /\ requests' = Append(requests, [op |-> "types", id |-> 0, user |-> Nobody, req |-> FreshId,
                                    v |-> 0])
    /\ path' = (IF served THEN "dead" ELSE "good") /\ served' = TRUE
    /\ UNCHANGED <<Others, answers, entities, latest, acked>>

-----------------------------------------------------------------------------
\* sendResponse: to the connection that the hub has for the base.
Respond ==
    /\ job # NoJob /\ job.at = "done"
    /\ job' = NoJob
    /\ answers' = IF job.req # 0 /\ baseUp /\ path = "good"
                  THEN Append(answers, [op |-> job.op, req |-> job.req, out |-> job.out])
                  ELSE answers
    /\ UNCHANGED <<backend, autoCreate, up, db, txn, known, link, troubles, History, requests, baseVars>>

DBAppStep ==
    \/ (Handle \/ JobStep) /\ UNCHANGED baseVars
    \/ Respond

Crash ==
    /\ CrashDBApp /\ path' = "dead" /\ served' = FALSE
    /\ UNCHANGED <<baseUp, entities, call, latest, acked>>

Next ==
    \/ DBAppStep
    \/ (LoseSession \/ InitDBApp \/ \E u \in Users : CreateAccount(u)) /\ UNCHANGED baseVars
    \/ Crash
    \/ Hear \/ TimeOut \/ Receive \/ CreateEntity \/ AutoSave \/ CrashBase \/ InitBase
    \/ \E i \in Ids : Change(i) \/ Destroy(i)

\* Both processes run their loops, the waiting base's clock included.
Fairness ==
    WF_vars(DBAppStep) /\ WF_vars(Hear) /\ WF_vars(TimeOut) /\ WF_vars(Receive) /\ SF_vars(AutoSave)

Spec == Init /\ [][Next]_vars /\ Fairness

-----------------------------------------------------------------------------
(* Properties.                                                               *)
\* What a save was told is stored stays stored, in that version or a later one:
\* answers that come late, retries, lost sessions and crashes do not change that.
\* Only its file may be torn, while it is written and after a mishap in it
\* (RemoteEntityStore::request, the stores' save).
IsTorn(i) ==
    /\ db.avatars[i] = Torn
    /\ "torn" \in mishap \/ (job.op = "save" /\ job.id = i /\ job.at = "write")

AckedIsStored ==
    \A i \in Ids : acked[i] # 0 => db.avatars[i] >= acked[i] \/ IsTorn(i)

\* An account has its row and its index row or neither, at any moment, whatever
\* statement fails and whichever session is lost (createAccount in the SQL stores).
\* But for an account whose own transaction lost its MySQL session, where a silent
\* new session does the rest without one, and for one whose name was given away.
AccountsAreWhole ==
    Sql =>
        /\ \A i \in Ids \ halved : db.accounts[i] # Nobody => db.index[db.accounts[i]] = i
        /\ \A u \in Users : db.index[u] \notin {0} \cup halved => db.accounts[db.index[u]] = u

\* No id is given twice, not after a failed read back or a restart; the file store
\* breaks it when its counter is torn or cannot be written (allocId).
IdIsGivenOnce ==
    mishap \cap {"torn", "unwritten"} = {} => \A i \in Ids : given[i] <= 1

\* A change is stored in the end, or its entity is gone from the register, or the
\* base has lost its process or its connection to DBApp, which it never renews, or
\* its file was torn by a mishap (autoSaveAll retries what failed).
ChangeIsStored ==
    \A i \in Ids : \A v \in 1..MaxVersion :
        (entities[i] = [v |-> v, dirty |-> TRUE]) ~>
            \/ db.avatars[i] >= v \/ ~InRegister(i) \/ path = "dead"
            \/ db.avatars[i] = Torn /\ "torn" \in mishap
=============================================================================
