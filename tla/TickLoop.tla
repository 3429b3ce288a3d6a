------------------------------ MODULE TickLoop ------------------------------
(***************************************************************************)
(* runtime/TickScheduler.cpp and RuntimeLoop.cpp (ServiceApp), with the    *)
(* pumps that a CellRuntime and its SpaceRuntimes register.  One thread    *)
(* runs the loop; others post tasks and ask it to stop.  A phase works on  *)
(* a snapshot of its list, while pumps create and destroy spaces.          *)
(***************************************************************************)
EXTENDS Naturals, Sequences, SequencesExt, Lists

CONSTANTS Spaces,               \* spaces created and destroyed at run time
          MaxLoopTicks, MaxPosts, MaxSpaceOps

VARIABLES
    tickables,                  \* phase -> the registered pumps, in order
    pendingTasks, running, stopRequested, started,
    stage,                      \* where the loop's thread is
    spaces,                     \* spaceRuntimes_, the default space left out
    tickIndex, posts, spaceOps,
    owed,                       \* history: spaces of this SyncBuild not synced yet
    asked                       \* history: a stop was asked for

loopVars == <<tickables, pendingTasks, running, stopRequested, started, stage,
              spaces, tickIndex, posts, spaceOps, owed, asked>>

Phases == <<"Network", "Timer", "Entity", "Script", "SyncBuild", "Flush">>
PhaseSet == ToSet(Phases)
NoSpace == "cell"
Pump(name, s) == [pump |-> name, space |-> s]
SyncPump(s) == Pump("sync", s)
BuildPump == Pump("build", NoSpace)

\* What a callback under a pump, or a posted task, may do to the loop's lists.
Calls == {"nothing", "requestStop", "shouldStop"}

LoopAt(where) == stage.at = where
Out == [at |-> "out", phase |-> 1, left |-> << >>, shouldStop |-> FALSE]

\* ServiceApp's constructor attaches the I/O loop, CellRuntime::attach the rest.
LoopInit ==
    /\ tickables = [p \in PhaseSet |->
         CASE p = "Network"   -> <<Pump("io", NoSpace), Pump("ingress", NoSpace)>>
           [] p = "Timer"     -> <<Pump("timers", NoSpace)>>
           [] p = "Entity"    -> << >>
           [] p = "Script"    -> << >>
           [] p = "SyncBuild" -> <<BuildPump>>
           [] p = "Flush"     -> <<Pump("flush", NoSpace)>>]
    /\ pendingTasks = << >> /\ running = FALSE /\ stopRequested = FALSE
    /\ started = FALSE /\ stage = Out
    /\ spaces = {} /\ tickIndex = 0 /\ posts = 0 /\ spaceOps = 0 /\ owed = {}
    /\ asked = FALSE

-----------------------------------------------------------------------------
(* Lists of pumps *)

Registered(list, t) == IF t \in ToSet(list) THEN list ELSE Append(list, t)

Unregistered(list, t) == Others(list, {t})

\* Mutant: the new space's sync pump is appended behind the build pump.
WithSpaceLast(s) ==
    [tickables EXCEPT
        !["Entity"] = Registered(@, Pump("refresh", s)),
        !["SyncBuild"] = Registered(@, SyncPump(s))]

\* createSpace: the build pump moves behind the new space's sync pump.
WithSpace(s) ==
    [tickables EXCEPT
        !["Entity"] = Registered(@, Pump("refresh", s)),
        !["SyncBuild"] = Registered(Unregistered(Registered(@, SyncPump(s)), BuildPump),
                                    BuildPump)]

CreateSpace(s) ==
    /\ s \notin spaces /\ spaceOps < MaxSpaceOps
    /\ spaces' = spaces \cup {s}
    /\ tickables' = WithSpace(s)
    /\ spaceOps' = spaceOps + 1

\* destroySpace detaches the space's pumps and frees them.
DestroySpace(s) ==
    /\ s \in spaces /\ spaceOps < MaxSpaceOps
    /\ spaces' = spaces \ {s}
    /\ tickables' = [tickables EXCEPT
                        !["Entity"] = Unregistered(@, Pump("refresh", s)),
                        !["SyncBuild"] = Unregistered(@, SyncPump(s))]
    /\ spaceOps' = spaceOps + 1

SpacesStay == UNCHANGED <<spaces, tickables, spaceOps>>

\* requestStop: the flag is raised and never lowered again.
RaiseStop(now) == stopRequested' = (stopRequested \/ now) /\ asked' = (asked \/ now)

-----------------------------------------------------------------------------
(* The loop's thread *)

\* ServiceApp::run: onStart may refuse; a loop that was told to stop before
\* it began does not begin.
Run(startOk) ==
    /\ LoopAt("out") /\ ~running /\ tickIndex < MaxLoopTicks
    /\ started' = (started \/ startOk)
    /\ IF started' THEN running' = TRUE /\ stage' = [Out EXCEPT !.at = "top"]
       ELSE UNCHANGED <<running, stage>>
    /\ UNCHANGED <<pendingTasks, stopRequested, asked, tickIndex, posts, owed>>
    /\ SpacesStay

\* runOnce: take the posted tasks, unless a stop was asked for.
BeginTick ==
    /\ LoopAt("top") /\ ~stopRequested /\ tickIndex < MaxLoopTicks
    /\ stage' = [at |-> "tasks", phase |-> 1, left |-> pendingTasks, shouldStop |-> FALSE]
    /\ pendingTasks' = << >>
    /\ UNCHANGED <<running, stopRequested, asked, started, tickIndex, posts, owed>>
    /\ SpacesStay

\* ServiceApp::run leaves the loop and stops the application.
LeaveLoop ==
    /\ LoopAt("top") /\ stopRequested
    /\ running' = FALSE /\ started' = FALSE /\ stage' = Out
    /\ UNCHANGED <<pendingTasks, stopRequested, asked, tickIndex, posts, owed>>
    /\ SpacesStay

PumpDone == [stage EXCEPT !.left = Tail(@)]

RunTask ==
    /\ LoopAt("tasks") /\ stage.left # << >>
    /\ stage' = PumpDone
    /\ RaiseStop(Head(stage.left) = "requestStop")
    /\ UNCHANGED <<pendingTasks, running, started, tickIndex, posts, owed>>
    /\ \/ SpacesStay
       \/ \E s \in Spaces : CreateSpace(s) \/ DestroySpace(s)

\* executePhase works on a copy of the list, taken when the phase begins.
Enter(k) == [stage EXCEPT !.at = "phase", !.phase = k, !.left = tickables[Phases[k]]]

BeginPhase ==
    /\ \/ LoopAt("tasks") /\ stage.left = << >> /\ stage' = Enter(1)
       \/ LoopAt("phase") /\ stage.left = << >> /\ stage.phase < Len(Phases)
          /\ stage' = Enter(stage.phase + 1)
    /\ owed' = IF Phases[stage'.phase] = "SyncBuild" THEN spaces ELSE {}
    /\ UNCHANGED <<pendingTasks, running, stopRequested, asked, started, tickIndex, posts>>
    /\ SpacesStay

CurrentPump == Head(stage.left)

Freed == CurrentPump.space # NoSpace /\ CurrentPump.space \notin spaces

\* One pump of the phase.  The context's shouldStop ends the phase, and only it:
\* the later phases of the tick still run.
TickPump(call) ==
    /\ LoopAt("phase") /\ stage.left # << >> /\ ~Freed
    /\ stage' = IF call = "shouldStop" \/ stage.shouldStop
                THEN [stage EXCEPT !.left = << >>, !.shouldStop = TRUE] ELSE PumpDone
    /\ RaiseStop(call = "requestStop")
    /\ owed' = owed \ {CurrentPump.space}
    /\ UNCHANGED <<pendingTasks, running, started, tickIndex, posts>>
    /\ \/ SpacesStay
       \/ CurrentPump.pump \in {"ingress", "timers"}
          /\ \E s \in Spaces : CreateSpace(s) \/ DestroySpace(s)
       \/ CurrentPump.pump = "refresh"
          /\ \E s \in Spaces \ {CurrentPump.space} : CreateSpace(s) \/ DestroySpace(s)

\* The snapshot still names a pump of a space destroyed during the phase: the
\* memory is freed, the process goes down or passes over it.
TickFreed ==
    /\ LoopAt("phase") /\ stage.left # << >> /\ Freed
    /\ \/ stage' = [Out EXCEPT !.at = "crashed"] /\ running' = FALSE
       \/ stage' = PumpDone /\ UNCHANGED running
    /\ UNCHANGED <<pendingTasks, stopRequested, asked, started, tickIndex, posts, owed>>
    /\ SpacesStay

EndTick ==
    /\ LoopAt("phase") /\ stage.left = << >> /\ stage.phase = Len(Phases)
    /\ RaiseStop(stage.shouldStop)
    /\ tickIndex' = tickIndex + 1
    /\ stage' = [Out EXCEPT !.at = "top"]
    /\ UNCHANGED <<pendingTasks, running, started, posts, owed>>
    /\ SpacesStay

-----------------------------------------------------------------------------
(* Other threads *)

Post(task) ==
    /\ posts < MaxPosts /\ posts' = posts + 1
    /\ pendingTasks' = Append(pendingTasks, task)
    /\ UNCHANGED <<running, stopRequested, asked, started, stage, tickIndex, owed>>
    /\ SpacesStay

RequestStop ==
    /\ ~stopRequested /\ RaiseStop(TRUE)
    /\ UNCHANGED <<pendingTasks, running, started, stage, tickIndex, posts, owed>>
    /\ SpacesStay

\* ServiceApp::stop: nothing before start(), and onStop may run beside a tick.
Stop ==
    /\ started /\ started' = FALSE /\ RaiseStop(TRUE)
    /\ UNCHANGED <<pendingTasks, running, stage, tickIndex, posts, owed>>
    /\ SpacesStay

LoopStep == BeginTick \/ LeaveLoop \/ RunTask \/ BeginPhase \/ TickFreed \/ EndTick
            \/ \E call \in Calls : TickPump(call)

LoopNext ==
    \/ \E ok \in BOOLEAN : Run(ok)
    \/ LoopStep
    \/ \E task \in {"nothing", "requestStop"} : Post(task)
    \/ RequestStop \/ Stop

-----------------------------------------------------------------------------
(* Properties *)

LoopTypeOK ==
    /\ \A p \in PhaseSet : \A t \in ToSet(tickables[p]) : t.space \in Spaces \cup {NoSpace}
    /\ stage.at \in {"out", "top", "tasks", "phase", "crashed"}
    /\ stage.phase \in 1 .. Len(Phases)
    /\ spaces \subseteq Spaces /\ owed \subseteq Spaces

\* When the cell builds its messages, every space that the phase began with has
\* staged its changes, whatever spaces came and went: CellRuntime.cpp:829 moves
\* the build pump to the end.  (shouldStop may end the phase before the build.)
BuildComesLast ==
    /\ LoopTypeOK
    /\ LoopAt("phase") /\ stage.left # << >> /\ CurrentPump = BuildPump => owed \cap spaces = {}
    /\ \A i \in DOMAIN tickables["SyncBuild"] :
         tickables["SyncBuild"][i] = BuildPump => i = Len(tickables["SyncBuild"])

LoopEnded == LoopAt("out") \/ LoopAt("crashed")
=============================================================================
