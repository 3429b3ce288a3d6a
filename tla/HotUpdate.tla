------------------------------ MODULE HotUpdate ------------------------------
(***************************************************************************)
(* scripting/HotUpdate.cpp: a diff of several changes is applied as a      *)
(* whole or not at all, and a version can be gone back to.                 *)
(***************************************************************************)
EXTENDS Naturals, Sequences, SequencesExt

CONSTANTS ChangeTypes, Keys, Values, Unset, MaxDiff, MaxVersions

VARIABLES configStore, scriptStore,
          history,              \* the versions: [version, config, scripts]
          currentVersion,
          written               \* history: what each version wrote last, by its number

versionVars == <<configStore, scriptStore, history, currentVersion, written>>

Changes == [type : ChangeTypes, key : Keys, detail : Values]
Diffs == UNION {[1 .. n -> Changes] : n \in 0 .. MaxDiff}

Empty == [k \in Keys |-> Unset]

VersionInit ==
    /\ configStore = Empty /\ scriptStore = Empty /\ currentVersion = 0
    /\ history = <<[version |-> 0, config |-> Empty, scripts |-> Empty]>>
    /\ written = << >>

\* levelOf, and validate: one change of a structure refuses the whole diff.
Level(type) == CASE type = "ConfigValueChange" -> 1
                 [] type \in {"ModifyScriptBody", "ModifyTimerLogic"} -> 2
                 [] type = "AddPropertyDefault" -> 3
                 [] type = "ChangePropertyType" -> 4

CanHotUpdate(diff) == \A i \in DOMAIN diff : Level(diff[i].type) <= 2

\* applyChange, for all changes of one level in their order.
Applied(store, diff, level) ==
    [k \in Keys |->
        LET hits == SelectSeq(diff, LAMBDA c : c.key = k /\ Level(c.type) = level)
        IN IF hits = << >> THEN store[k] ELSE Last(hits).detail]

Apply(diff) ==
    /\ CanHotUpdate(diff) /\ Len(history) <= MaxVersions
    /\ configStore' = Applied(configStore, diff, 1)
    /\ scriptStore' = Applied(scriptStore, diff, 2)
    /\ currentVersion' = Len(history)
    /\ history' = Append(history, [version |-> Len(history), config |-> configStore',
                                   scripts |-> scriptStore'])
    /\ written' = Append(SubSeq(written, 1, Len(history) - 1), diff)

Refuse(diff) == ~CanHotUpdate(diff) /\ UNCHANGED versionVars

\* rollback: to the version before the last, or to a named one before the last;
\* what came after it is forgotten and its numbers are given out again.
Rollback(k) ==
    /\ k \in 1 .. Len(history) - 1
    /\ configStore' = history[k].config /\ scriptStore' = history[k].scripts
    /\ currentVersion' = history[k].version
    /\ history' = SubSeq(history, 1, k)
    /\ written' = SubSeq(written, 1, k - 1)

VersionNext == \/ \E diff \in Diffs : Apply(diff) \/ Refuse(diff)
               \/ \E k \in 1 .. MaxVersions : Rollback(k)

-----------------------------------------------------------------------------
(* Properties *)

\* Every version in force is what its diff made of the version before it.
EachFollows ==
    /\ Len(history) = Len(written) + 1
    /\ history[1].config = Empty /\ history[1].scripts = Empty
    /\ \A n \in DOMAIN written :
          /\ history[n + 1].config = Applied(history[n].config, written[n], 1)
          /\ history[n + 1].scripts = Applied(history[n].scripts, written[n], 2)

\* After any series of updates, refusals and rollbacks the stores are what the
\* versions in force, applied in order, make of empty stores; none of them has a
\* change that needs a restart; the current version is the last of the history,
\* and no version name occurs twice.
StoresMatchHistory ==
    /\ EachFollows
    /\ configStore = Last(history).config /\ scriptStore = Last(history).scripts
    /\ \A n \in DOMAIN written : CanHotUpdate(written[n])
    /\ currentVersion = Last(history).version
    /\ \A i, j \in DOMAIN history : history[i].version = history[j].version => i = j
=============================================================================
