-------------------------- MODULE ProcessSupervisor --------------------------
(***************************************************************************)
(* LocalProcessSupervisor (control/machine/ProcessSupervisor.cpp) and the     *)
(* host's process table under it: the children it starts and manages, and    *)
(* the other processes of the host.                                         *)
(*                                                                         *)
(* A pid is in use from fork until the exited process is reaped: a child of   *)
(* the daemon by the supervisor's waitpid, any other by its own parent at     *)
(* once; then it may be used again.  A termination takes up to five seconds   *)
(* in which the daemon does nothing else and the host goes on.               *)
(*                                                                         *)
(* What is abstracted: command lines, names, ports and versions; a failing    *)
(* fork and a failing kill; an exec that fails is a child that exits.         *)
(***************************************************************************)
EXTENDS Naturals

CONSTANTS
    Pids,
    NoProcess,      \* a pid that is not in use
    NoTermination,  \* terminateManagedProcess is not under way
    MaxHostEvents   \* bound: processes of the host that start

\* What makes a process end: SIGTERM in the first grace, SIGKILL in the
\* second, or neither in time.
Grits == {"obeys", "deaf", "hung"}

Processes == [kin : {"child", "host"}, state : {"running", "zombie"},
              grit : Grits]

Terminations == [pid : Pids, sent : {"SIGTERM", "SIGKILL"}, for : {"stop", "restart"}]

ASSUME SupervisorAssumption ==
    /\ NoProcess \notin Processes /\ NoTermination \notin Terminations
    /\ MaxHostEvents \in Nat

VARIABLES
    process,     \* the host's process table
    managed,     \* managedProcesses_
    waiting,     \* the termination under way: its pid, signal and purpose
    abandoned,   \* children whose termination was given up
    hostEvents

supervisorVars == <<process, managed, waiting, abandoned, hostEvents>>

SupervisorInit ==
    /\ process = [p \in Pids |-> NoProcess]
    /\ managed = {} /\ waiting = NoTermination /\ abandoned = {}
    /\ hostEvents = 0

Is(p, kin, state) == /\ process[p] # NoProcess
                     /\ process[p].kin = kin /\ process[p].state = state

HostStart(p) ==
    /\ process[p] = NoProcess /\ hostEvents < MaxHostEvents
    /\ hostEvents' = hostEvents + 1
    /\ process' = [process EXCEPT ![p] =
                      [kin |-> "host", state |-> "running", grit |-> "obeys"]]
    /\ UNCHANGED <<managed, waiting, abandoned>>

HostExit(p) ==
    /\ Is(p, "host", "running")
    /\ process' = [process EXCEPT ![p] = NoProcess]
    /\ UNCHANGED <<managed, waiting, abandoned, hostEvents>>

\* A child ends by itself, because its exec failed, or by a signal.
ChildExit(p) ==
    /\ Is(p, "child", "running")
    /\ process' = [process EXCEPT ![p].state = "zombie"]
    /\ UNCHANGED <<managed, waiting, abandoned, hostEvents>>

Obey ==
    /\ waiting # NoTermination
    /\ <<waiting.sent, process[waiting.pid].grit>>
           \in {<<"SIGTERM", "obeys">>, <<"SIGKILL", "deaf">>}
    /\ ChildExit(waiting.pid)

-----------------------------------------------------------------------------
\* reapManagedProcesses, with which listProcesses and restart begin: every
\* managed child that has ended is waited for and leaves the map.
Exited == {p \in managed : ~ Is(p, "child", "running")}
ReapedTable == [p \in Pids |-> IF p \in Exited THEN NoProcess ELSE process[p]]
ReapedManaged == managed \ Exited

ListProcesses ==
    /\ process' = ReapedTable /\ managed' = ReapedManaged
    /\ UNCHANGED <<waiting, abandoned, hostEvents>>

\* start: fork gives a pid that is not in use.
Forked(table, mine, p) ==
    /\ table[p] = NoProcess
    /\ \E g \in Grits : process' = [table EXCEPT ![p] =
                            [kin |-> "child", state |-> "running", grit |-> g]]
    /\ managed' = mine \cup {p}

Start(p) == Forked(process, managed, p) /\ UNCHANGED <<waiting, abandoned, hostEvents>>

\* Mutant: the child stays in the map until somebody lists the processes.
StopManagedInMap(p) ==
    /\ p \in managed
    /\ waiting' = [pid |-> p, sent |-> "SIGTERM", for |-> "stop"]
    /\ UNCHANGED <<process, managed, abandoned, hostEvents>>

\* terminateManagedProcess: out of the map first, then SIGTERM.
StopManaged(p) ==
    /\ p \in managed
    /\ managed' = managed \ {p}
    /\ waiting' = [pid |-> p, sent |-> "SIGTERM", for |-> "stop"]
    /\ UNCHANGED <<process, abandoned, hostEvents>>

RestartManaged(p) ==
    /\ p \in ReapedManaged
    /\ process' = ReapedTable
    /\ managed' = ReapedManaged \ {p}
    /\ waiting' = [pid |-> p, sent |-> "SIGTERM", for |-> "restart"]
    /\ UNCHANGED <<abandoned, hostEvents>>

\* The first grace is over and the child has not ended: SIGKILL.
TermGraceOver ==
    /\ waiting # NoTermination /\ waiting.sent = "SIGTERM"
    /\ Is(waiting.pid, "child", "running") /\ process[waiting.pid].grit # "obeys"
    /\ waiting' = [waiting EXCEPT !.sent = "SIGKILL"]
    /\ UNCHANGED <<process, managed, abandoned, hostEvents>>

\* waitpid finds the child ended; a restart then starts the command line again.
TerminationDone ==
    /\ waiting # NoTermination /\ Is(waiting.pid, "child", "zombie")
    /\ waiting' = NoTermination
    /\ LET freed == [process EXCEPT ![waiting.pid] = NoProcess]
       IN IF waiting.for = "stop"
          THEN process' = freed /\ UNCHANGED managed
          ELSE \E p \in Pids : Forked(freed, managed, p)
    /\ UNCHANGED <<abandoned, hostEvents>>

\* Mutant: the second wait has no end.
KillGraceEndless == FALSE /\ UNCHANGED supervisorVars

\* The second grace is over: the call returns false, and nobody waits for the
\* child any more.
KillGraceOver ==
    /\ waiting # NoTermination /\ waiting.sent = "SIGKILL"
    /\ Is(waiting.pid, "child", "running") /\ process[waiting.pid].grit = "hung"
    /\ waiting' = NoTermination
    /\ abandoned' = abandoned \cup {waiting.pid}
    /\ UNCHANGED <<process, managed, hostEvents>>

\* terminateUnmanaged: SIGTERM to any process that is not managed.  A process
\* of the host is gone at once, or stays.
TerminateUnmanaged(p) ==
    /\ managed' = ReapedManaged
    /\ p \notin ReapedManaged /\ ReapedTable[p] # NoProcess
    /\ \/ process' = ReapedTable
       \/ /\ ReapedTable[p].kin = "host"
          /\ process' = [ReapedTable EXCEPT ![p] = NoProcess]
    /\ UNCHANGED <<waiting, abandoned, hostEvents>>
=============================================================================
