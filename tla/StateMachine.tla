---------------------------- MODULE StateMachine ----------------------------
(***************************************************************************)
(* runtime/StateMachine.cpp: the state of an entity, whose enter and exit  *)
(* hooks may call setState and reset again before the call that runs them  *)
(* has returned.                                                           *)
(***************************************************************************)
EXTENDS Naturals, Sequences, SequencesExt

CONSTANTS States, Transitions,      \* states_ and transitions_: pairs <<from, to>>
          WildcardTargets,
          NoState, MaxSets, MaxDepth

VARIABLES
    currentState,
    setCalls,           \* calls of setState under way, innermost first: [oldState, target, hook]
    sets,
    entered,            \* history: the state that the last enter hook was told, or a reset left
    path                \* history: the last change: <<from, to>>

machineVars == <<currentState, setCalls, sets, entered, path>>

ASSUME MachineAssumption ==
    NoState \notin States /\ Transitions \subseteq States \X States /\ WildcardTargets \subseteq States

MachineInit ==
    /\ currentState = NoState /\ setCalls = << >> /\ sets = 0
    /\ entered = NoState /\ path = <<NoState, NoState>>

CanTransitionTo(s) ==
    currentState = NoState \/ <<currentState, s>> \in Transitions \/ s \in WildcardTargets

Top == Head(setCalls)
HooksRun == setCalls # << >> => Top.hook \in {"exit", "enter"}

\* From outside, or from a hook of the innermost call.  A state that is there
\* already answers yes without a hook, and takes no step here.
SetState(s) ==
    /\ HooksRun /\ sets < MaxSets /\ Len(setCalls) < MaxDepth /\ sets' = sets + 1
    /\ s # currentState /\ CanTransitionTo(s)
    /\ currentState' = s /\ path' = <<currentState, s>>
    /\ setCalls' = <<[oldState |-> currentState, target |-> s,
                      hook |-> IF currentState = NoState THEN "before" ELSE "exit"]>> \o setCalls
    /\ UNCHANGED entered

ExitReturns ==
    /\ setCalls # << >> /\ Top.hook = "exit"
    /\ setCalls' = [setCalls EXCEPT ![1].hook = "before"]
    /\ UNCHANGED <<currentState, sets, entered, path>>

\* The hook is told what currentState_ is by then, also when an exit hook changed it.
EnterHook ==
    /\ setCalls # << >> /\ Top.hook = "before"
    /\ setCalls' = [setCalls EXCEPT ![1].hook = "enter"]
    /\ entered' = currentState
    /\ UNCHANGED <<currentState, sets, path>>

EnterReturns ==
    /\ setCalls # << >> /\ Top.hook = "enter"
    /\ setCalls' = Tail(setCalls)
    /\ UNCHANGED <<currentState, sets, entered, path>>

ResetState ==
    /\ HooksRun /\ currentState # NoState /\ currentState' = NoState
    /\ entered' = NoState /\ path' = <<NoState, NoState>>
    /\ UNCHANGED <<setCalls, sets>>

MachineNext ==
    \/ \E s \in States : SetState(s)
    \/ ExitReturns \/ EnterHook \/ EnterReturns \/ ResetState

-----------------------------------------------------------------------------
(* Properties *)

\* However hooks nest, the entity ends in the state that its last enter hook was
\* told (StateMachine.cpp:30-44), and came there along a declared transition.
HooksKnowTheState ==
    /\ currentState \in States \cup {NoState} /\ entered \in States \cup {NoState}
    /\ setCalls = << >> => entered = currentState
    /\ path[2] = currentState
    /\ \/ path[1] = NoState \/ path \in Transitions \/ path[2] \in WildcardTargets
=============================================================================
