---------------------------- MODULE BehaviorTree ----------------------------
(***************************************************************************)
(* runtime/BehaviorTree.cpp: one tree of an entity, ticked again and again. *)
(* Nodes keep their place between ticks, and reset() has to clear what a   *)
(* finished run left in them.  Actions are scripts: they answer what they  *)
(* like, and may reset the tree that is just running them.                 *)
(***************************************************************************)
EXTENDS Naturals, Sequences, SequencesExt

CONSTANTS Trees,        \* trees to run: node -> [kind, children, maxCount]; the root is 1
          MaxTreeTicks

VARIABLES
    tree,
    memory,             \* node -> current_ of a sequence or selector, count_ of a repeat
    walk,               \* where execute() is: [at, step, status]
    isRunning, treeTicks,
    outcome,            \* history: node -> how its last run ended since its last reset
    disturbed           \* history: an action reset the tree in this run

treeVars == <<tree, memory, walk, isRunning, treeTicks, outcome, disturbed>>

Answers == {"Success", "Failure", "Running"}
Asleep == [at |-> 0, step |-> "asleep", status |-> "Running"]
Entering(n) == [at |-> n, step |-> "enter", status |-> "Running"]
Returning(n, s) == [at |-> n, step |-> "return", status |-> s]

TreeInit ==
    /\ tree \in Trees /\ walk = Asleep /\ isRunning = FALSE /\ treeTicks = 0
    /\ memory = [n \in DOMAIN tree |-> 0]
    /\ outcome = [n \in DOMAIN tree |-> "none"] /\ disturbed = FALSE

-----------------------------------------------------------------------------
(* The tree *)

Kind(n) == tree[n].kind
ChildrenOf(n) == tree[n].children
Only(n) == Head(ChildrenOf(n))
ParentOf(n) == CHOOSE p \in DOMAIN tree : n \in ToSet(ChildrenOf(p))
Composite(n) == Kind(n) \in {"sequence", "selector"}

Below == LET below[n \in DOMAIN tree] == {n} \cup UNION {below[c] : c \in ToSet(ChildrenOf(n))}
         IN below

MemoryReset(n) == [m \in DOMAIN tree |-> IF m \in Below[n] THEN 0 ELSE memory[m]]
OutcomeReset(n) == [m \in DOMAIN tree |-> IF m \in Below[n] THEN "none" ELSE outcome[m]]

\* reset() of a node reaches everything below it.
ResetFrom(n) == memory' = MemoryReset(n) /\ outcome' = OutcomeReset(n)

NodesStay == UNCHANGED <<memory, outcome>>
RunStays == UNCHANGED <<tree, isRunning, treeTicks>>

-----------------------------------------------------------------------------
(* execute, on the way down *)

TickTree ==
    /\ walk = Asleep /\ treeTicks < MaxTreeTicks
    /\ walk' = Entering(1)
    /\ NodesStay /\ RunStays /\ UNCHANGED disturbed

At(step, kinds) == walk.step = step /\ Kind(walk.at) \in kinds

\* A sequence or a selector goes on where it stopped.
EnterComposite ==
    LET n == walk.at IN
    /\ At("enter", {"sequence", "selector"}) \/ At("next", {"sequence", "selector"})
    /\ walk' = IF memory[n] < Len(ChildrenOf(n)) THEN Entering(ChildrenOf(n)[memory[n] + 1])
               ELSE Returning(n, IF Kind(n) = "sequence" THEN "Success" ELSE "Failure")
    /\ NodesStay /\ RunStays /\ UNCHANGED disturbed

EnterDecorator ==
    /\ At("enter", {"inverter", "repeat", "succeeder"})
    /\ walk' = Entering(Only(walk.at))
    /\ NodesStay /\ RunStays /\ UNCHANGED disturbed

\* A condition that does not hold (any more) leaves what runs below it alone.
EnterCondition(holds) ==
    LET n == walk.at IN
    /\ At("enter", {"condition"})
    /\ IF holds THEN walk' = Entering(Only(n)) /\ UNCHANGED outcome
       ELSE /\ walk' = Returning(n, "Failure")
            /\ outcome' = [m \in DOMAIN tree |->
                             IF m \in Below[n] \ {n} /\ memory[m] # 0 THEN "abandoned" ELSE outcome[m]]
    /\ RunStays /\ UNCHANGED <<memory, disturbed>>

Act(answer) ==
    /\ At("enter", {"action"})
    /\ walk' = Returning(walk.at, answer)
    /\ NodesStay /\ RunStays /\ UNCHANGED disturbed

\* BehaviorTree::reset from an action, under the feet of execute().
ActAndReset(answer) ==
    /\ At("enter", {"action"})
    /\ walk' = Returning(walk.at, answer)
    /\ ResetFrom(1) /\ disturbed' = TRUE
    /\ isRunning' = FALSE /\ UNCHANGED <<tree, treeTicks>>

-----------------------------------------------------------------------------
(* execute, on the way up *)

Ended == [outcome EXCEPT ![walk.at] = IF walk.status = "Running" THEN @ ELSE walk.status]

GoesOn(p) == \/ Kind(p) = "sequence" /\ walk.status = "Success"
             \/ Kind(p) = "selector" /\ walk.status = "Failure"

Inverted(s) == CASE s = "Success" -> "Failure" [] s = "Failure" -> "Success" [] OTHER -> s

ReturnTo(kinds) == walk.step = "return" /\ walk.at # 1 /\ Kind(ParentOf(walk.at)) \in kinds

ReturnToComposite ==
    LET p == ParentOf(walk.at) IN
    /\ ReturnTo({"sequence", "selector"})
    /\ IF GoesOn(p) THEN /\ memory' = [memory EXCEPT ![p] = @ + 1]
                         /\ walk' = [Entering(p) EXCEPT !.step = "next"]
                    ELSE /\ walk' = Returning(p, walk.status) /\ UNCHANGED memory
    /\ outcome' = Ended
    /\ RunStays /\ UNCHANGED disturbed

ReturnToDecorator ==
    LET p == ParentOf(walk.at) IN
    /\ ReturnTo({"inverter", "succeeder", "condition"})
    /\ walk' = Returning(p, CASE Kind(p) = "inverter" -> Inverted(walk.status)
                              [] Kind(p) = "succeeder" /\ walk.status = "Failure" -> "Success"
                              [] OTHER -> walk.status)
    /\ outcome' = Ended
    /\ RunStays /\ UNCHANGED <<memory, disturbed>>

RepeatEnds(p) == \/ walk.status = "Failure"
                 \/ tree[p].maxCount > 0 /\ memory[p] + 1 >= tree[p].maxCount

\* A repeat resets its child before the next round, which begins in the next tick.
Restart(p) ==
    /\ memory' = [MemoryReset(walk.at) EXCEPT ![p] = memory[p] + 1]
    /\ outcome' = OutcomeReset(walk.at)

ReturnToRepeat ==
    LET p == ParentOf(walk.at) IN
    /\ ReturnTo({"repeat"})
    /\ CASE walk.status = "Running" -> walk' = Returning(p, "Running") /\ NodesStay
         [] walk.status # "Running" /\ RepeatEnds(p) ->
               /\ walk' = Returning(p, "Success")
               /\ memory' = [memory EXCEPT ![p] = @ + 1] /\ outcome' = Ended
         [] OTHER -> walk' = Returning(p, "Running") /\ Restart(p)
    /\ RunStays /\ UNCHANGED disturbed

\* tick: a tree that ended is reset as a whole.
TickEnds ==
    /\ walk.step = "return" /\ walk.at = 1
    /\ walk' = Asleep /\ treeTicks' = treeTicks + 1
    /\ isRunning' = (walk.status = "Running")
    /\ IF isRunning' THEN outcome' = Ended /\ UNCHANGED <<memory, disturbed>>
                     ELSE ResetFrom(1) /\ disturbed' = FALSE
    /\ UNCHANGED tree

ResetTree ==
    /\ walk = Asleep /\ isRunning
    /\ ResetFrom(1) /\ isRunning' = FALSE /\ disturbed' = FALSE
    /\ UNCHANGED <<tree, walk, treeTicks>>

TreeNext ==
    \/ TickTree \/ EnterComposite \/ EnterDecorator
    \/ \E holds \in BOOLEAN : EnterCondition(holds)
    \/ \E answer \in Answers : Act(answer) \/ ActAndReset(answer)
    \/ ReturnToComposite \/ ReturnToDecorator \/ ReturnToRepeat \/ TickEnds \/ ResetTree

-----------------------------------------------------------------------------
(* Properties *)

TreeTypeOK ==
    /\ \A n \in DOMAIN tree : memory[n] \in 0 .. (IF Composite(n) THEN Len(ChildrenOf(n)) ELSE MaxTreeTicks)
    /\ walk.at \in DOMAIN tree \cup {0} /\ walk.status \in Answers

\* A node never goes on with what an ended or abandoned run left in it; a sequence
\* succeeds, and a selector fails, only when all its children did; a tree that does
\* not run remembers nothing.  The exception is a run whose action reset the tree.
RunsStartFresh ==
    /\ TreeTypeOK
    /\ ~disturbed =>
         /\ walk.step = "enter" => outcome[walk.at] = "none"
         /\ At("return", {"sequence"}) /\ walk.status = "Success" =>
               \A c \in ToSet(ChildrenOf(walk.at)) : outcome[c] = "Success"
         /\ At("return", {"selector"}) /\ walk.status = "Failure" =>
               \A c \in ToSet(ChildrenOf(walk.at)) : outcome[c] = "Failure"
    /\ walk = Asleep /\ ~isRunning => \A n \in DOMAIN tree : memory[n] = 0
=============================================================================
