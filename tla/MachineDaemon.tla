--------------------------- MODULE MachineDaemon ---------------------------
(***************************************************************************)
(* The machine daemon of one host (control/machine/MachineDaemon.cpp with     *)
(* MachineAgent.cpp): the commands of operators and what they act on (the     *)
(* process supervisor, the tick profiler, the daemon's own state), the audit  *)
(* of every attempt, and what a tick sends to the center: registration,       *)
(* reports, audit entries and profile artifacts.  The session commands are    *)
(* in SessionLinkage.tla.                                                    *)
(*                                                                         *)
(* The daemon is one thread: a tick handles the requests that have come, one  *)
(* after another, and then (TickEnd) stops, or reports and relays.  stop and  *)
(* restart block in the supervisor (waiting).                                *)
(*                                                                         *)
(* What is abstracted: payloads that do not parse (rejected like any other    *)
(* refusal), the command in an audit entry, the text of answers, traces and   *)
(* metrics; the report timer may be due in any tick; the names a terminate    *)
(* may hit are those of every process of the host.                           *)
(***************************************************************************)
EXTENDS ProcessSupervisor, OpsControlCenter

CONSTANTS
    Self,           \* the daemon's nodeId_
    Sources,        \* components that send requests
    RoleOf,         \* Config::roleBindings
    Trusted,        \* the trusted components of each policy
    AuditCapacity, WindowTicks, MaxArtifacts,
    MaxRequests, MaxStarts, MaxPrunes  \* bounds

ASSUME DaemonAssumption ==
    /\ Self \in Nodes
    /\ RoleOf \in [Sources -> 0..3]
    /\ {AuditCapacity, MaxRequests, MaxStarts, MaxPrunes} \subseteq Nat
    /\ {WindowTicks, MaxArtifacts} \subseteq Nat \ {0}

\* What an action asks for: a place on a list, and a role (1 ReadOnly,
\* 2 Operator, 3 Admin).
Needs ==
    [snapshot  |-> [list |-> "any",      role |-> 1],
     execute   |-> [list |-> "exec",     role |-> 2],
     trigger   |-> [list |-> "trigger",  role |-> 2],
     profiles  |-> [list |-> "access",   role |-> 1],
     processes |-> [list |-> "govern",   role |-> 1],
     terminate |-> [list |-> "govern",   role |-> 3],
     config    |-> [list |-> "any",      role |-> 3],
     draining  |-> [list |-> "nodeOps",  role |-> 2],
     shutdown  |-> [list |-> "nodeOps",  role |-> 3]]

VARIABLES
    up,                 \* listener_ and hub_
    shutdownRequested,
    reporting,          \* config_.reportInterval > 0
    draining,           \* MachineAgent::draining_
    profiler,           \* the TickProfiler: its window and its ring
    relayed,            \* relayedHandles_
    auditLog,
    center,
    asker,              \* who asked for the termination under way
    spent

daemonVars == <<up, shutdownRequested, reporting, draining, relayed>>
vars == <<supervisorVars, daemonVars, profiler, auditLog, center, asker, spent>>

Budget == [requests |-> MaxRequests, starts |-> MaxStarts, prunes |-> MaxPrunes]

Spend(what) ==
    /\ spent[what] < Budget[what]
    /\ spent' = [spent EXCEPT ![what] = @ + 1]

Init ==
    /\ SupervisorInit
    /\ up = FALSE /\ shutdownRequested = FALSE /\ reporting = TRUE
    /\ draining = FALSE /\ relayed = {} /\ auditLog = <<>> /\ asker = Self
    /\ profiler = [sampling |-> FALSE, samples |-> 0, handle |-> 0, ring |-> <<>>]
    /\ center = EmptyCenter
    /\ spent = [what \in DOMAIN Budget |-> 0]

-----------------------------------------------------------------------------
(* The daemon's life.                                                        *)
\* stop: off the center's roster first, then off the network.
Stop ==
    /\ up' = FALSE
    /\ center' = Deregistered(center, Self)
    /\ UNCHANGED <<supervisorVars, relayed>>

StopDaemon ==
    /\ up /\ waiting = NoTermination /\ Stop
    /\ UNCHANGED <<shutdownRequested, reporting, draining, profiler, auditLog,
                   asker, spent>>

StartDaemon ==
    /\ ~ up
    /\ Spend("starts")
    /\ up' = TRUE
    /\ ListProcesses
    /\ center' = Registered(center, Self)
    /\ UNCHANGED <<shutdownRequested, reporting, draining, relayed, profiler,
                   auditLog, asker>>

\* relayArtifacts: every artifact of the ring that was not relayed before; what
\* has left the ring is forgotten.
InRing == Range(profiler.ring)
RelayAll(c) == Relayed(c, Self, Others(profiler.ring, relayed))

\* The end of a tick: a requested shutdown, or the report if it is due and the
\* relay.
TickEnd ==
    /\ up /\ waiting = NoTermination
    /\ IF shutdownRequested
       THEN Stop
       ELSE /\ \/ /\ reporting /\ ListProcesses
                  /\ center' = RelayAll(Reported(center, Self, InRing))
               \/ /\ center' = RelayAll(center)
                  /\ UNCHANGED supervisorVars
            /\ relayed' = InRing
            /\ UNCHANGED up
    /\ UNCHANGED <<shutdownRequested, reporting, draining, profiler, auditLog,
                   asker, spent>>

\* TickProfiler: a window is triggered, filled by ticks, and becomes an artifact.
Triggered == [profiler EXCEPT !.sampling = TRUE, !.samples = 0, !.handle = @ + 1]

TickCompleted ==
    /\ profiler.sampling
    /\ profiler' =
         IF profiler.samples + 1 < WindowTicks
         THEN [profiler EXCEPT !.samples = @ + 1]
         ELSE [profiler EXCEPT !.sampling = FALSE, !.samples = 0,
                    !.ring = Pushed(@, MaxArtifacts, profiler.handle)]
    /\ UNCHANGED <<supervisorVars, daemonVars, auditLog, center, asker, spent>>

-----------------------------------------------------------------------------
(* Requests.                                                                 *)
Entitled(src, what) ==
    /\ Needs[what].list # "any" => src \in Trusted[Needs[what].list]
    /\ RoleOf[src] >= Needs[what].role

\* appendAudit: the ring of the daemon, and the center.
Audit(src, accepted, ok) ==
    LET entry == [source |-> src, accepted |-> accepted, ok |-> ok]
    IN /\ auditLog' = Pushed(auditLog, AuditCapacity, entry)
       /\ center' = Audited(center, Self, entry)

Serving == up /\ waiting = NoTermination

\* Any request of a source that may not make it.
Reject(src, what) ==
    /\ Serving /\ ~ Entitled(src, what) /\ Spend("requests")
    /\ Audit(src, FALSE, FALSE)
    /\ UNCHANGED <<supervisorVars, daemonVars, profiler, asker>>

UnknownMethod(src) ==
    /\ Serving /\ Spend("requests")
    /\ Audit(src, FALSE, FALSE)
    /\ UNCHANGED <<supervisorVars, daemonVars, profiler, asker>>

Asked(src, what) == Serving /\ Entitled(src, what) /\ Spend("requests")

\* snapshot and processes read the table, which reaps; the reads of the daemon's
\* own state (audit, profiles, profile download) change the audit at most.
Snapshot(src) ==
    /\ Asked(src, "snapshot")
    /\ ListProcesses
    /\ UNCHANGED <<daemonVars, profiler, auditLog, center, asker>>

ProcessList(src) ==
    /\ Asked(src, "processes")
    /\ ListProcesses /\ Audit(src, TRUE, TRUE)
    /\ UNCHANGED <<daemonVars, profiler, asker>>

ReadProfiles(src) ==
    /\ Asked(src, "profiles")
    /\ Audit(src, TRUE, TRUE)
    /\ UNCHANGED <<supervisorVars, daemonVars, profiler, asker>>

ProfileTrigger(src) ==
    /\ Asked(src, "trigger")
    /\ IF profiler.sampling
       THEN Audit(src, FALSE, FALSE) /\ UNCHANGED profiler
       ELSE Audit(src, TRUE, TRUE) /\ profiler' = Triggered
    /\ UNCHANGED <<supervisorVars, daemonVars, asker>>

ExecuteStart(src) ==
    /\ Asked(src, "execute")
    /\ \E p \in Pids : Start(p)
    /\ Audit(src, TRUE, TRUE)
    /\ UNCHANGED <<daemonVars, profiler, asker>>

\* stop and restart of a pid that is managed wait for the child to end.
ExecuteStop(src, p) ==
    /\ Asked(src, "execute")
    /\ \/ /\ StopManaged(p) \/ RestartManaged(p)
          /\ asker' = src /\ UNCHANGED <<auditLog, center>>
       \/ /\ p \notin managed
          /\ Audit(src, TRUE, FALSE)
          /\ UNCHANGED <<supervisorVars, asker>>
       \/ /\ p \notin ReapedManaged    \* restart reaps first
          /\ ListProcesses
          /\ Audit(src, TRUE, FALSE)
          /\ UNCHANGED asker
    /\ UNCHANGED <<daemonVars, profiler>>

TerminationEnds ==
    /\ \/ TerminationDone /\ Audit(asker, TRUE, TRUE)
       \/ KillGraceOver /\ Audit(asker, TRUE, FALSE)
    /\ asker' = Self
    /\ UNCHANGED <<daemonVars, profiler, spent>>

\* machine.terminate lists the processes anew, and refuses a pid that is not
\* there or that is managed.
Terminate(src, p) ==
    /\ Asked(src, "terminate")
    /\ \/ TerminateUnmanaged(p) /\ Audit(src, TRUE, TRUE)
       \/ /\ ReapedTable[p] = NoProcess \/ p \in ReapedManaged
          /\ ListProcesses /\ Audit(src, FALSE, FALSE)
    /\ UNCHANGED <<daemonVars, profiler, asker>>

ConfigApply(src, value) ==
    /\ Asked(src, "config")
    /\ reporting' = value
    /\ Audit(src, TRUE, TRUE)
    /\ UNCHANGED <<supervisorVars, up, shutdownRequested, draining, relayed,
                   profiler, asker>>

SetDraining(src, value) ==
    /\ Asked(src, "draining")
    /\ draining' = value
    /\ Audit(src, TRUE, TRUE)
    /\ UNCHANGED <<supervisorVars, up, shutdownRequested, reporting, relayed,
                   profiler, asker>>

\* The shutdown is carried out at the end of the tick; nothing resets the flag.
Shutdown(src) ==
    /\ Asked(src, "shutdown")
    /\ shutdownRequested' = TRUE
    /\ Audit(src, TRUE, TRUE)
    /\ UNCHANGED <<supervisorVars, up, reporting, draining, relayed, profiler,
                   asker>>

-----------------------------------------------------------------------------
(* The host, and the other callers of the center.                            *)
\* HostSteps happen when they like, what a termination waits for (Heeded) does.
HostSteps ==
    /\ \E p \in Pids : HostStart(p) \/ HostExit(p) \/ ChildExit(p)
    /\ UNCHANGED <<daemonVars, profiler, auditLog, center, asker, spent>>

Heeded ==
    /\ Obey \/ TermGraceOver
    /\ UNCHANGED <<daemonVars, profiler, auditLog, center, asker, spent>>

\* Other nodes report, the center prunes nodes whose last report is old, and
\* operators query its profiles.
CenterSteps ==
    /\ Spend("prunes")
    /\ \/ \E n \in Nodes \ {Self} : center' = Reported(center, n, {})
       \/ \E stale \in SUBSET center.nodes :
             stale # {} /\ center' = Pruned(center, stale)
       \/ \E src \in Sources, ok \in BOOLEAN : center' = QueriedBy(center, src, ok)
    /\ UNCHANGED <<supervisorVars, daemonVars, profiler, auditLog, asker>>

Requests ==
    \E src \in Sources :
        \/ \E what \in DOMAIN Needs : Reject(src, what)
        \/ UnknownMethod(src) \/ Snapshot(src) \/ ProcessList(src)
        \/ ReadProfiles(src) \/ ProfileTrigger(src) \/ ExecuteStart(src)
        \/ \E p \in Pids : ExecuteStop(src, p) \/ Terminate(src, p)
        \/ \E value \in BOOLEAN : ConfigApply(src, value) \/ SetDraining(src, value)
        \/ Shutdown(src)

Next == StartDaemon \/ StopDaemon \/ TickEnd \/ TickCompleted \/ Requests \/ TerminationEnds
        \/ HostSteps \/ Heeded \/ CenterSteps

Fairness ==
    /\ WF_vars(TickEnd)
    /\ WF_vars(TerminationEnds) /\ WF_vars(Heeded)

Spec == Init /\ [][Next]_vars /\ Fairness

-----------------------------------------------------------------------------
\* Each variable is of the type the source gives it.
TypeOK ==
    /\ process \in [Pids -> Processes \cup {NoProcess}]
    /\ managed \subseteq Pids /\ abandoned \subseteq Pids
    /\ waiting = NoTermination \/ waiting.pid \in Pids
    /\ up \in BOOLEAN /\ reporting \in BOOLEAN /\ draining \in BOOLEAN
    /\ shutdownRequested \in BOOLEAN
    /\ Len(profiler.ring) <= MaxArtifacts /\ profiler.samples < WindowTicks
    /\ Len(auditLog) <= AuditCapacity /\ Len(center.trail) <= MaxTrail
    /\ Len(center.copies) <= MaxCopies
    /\ asker \in Sources \cup {Self}

\* The map of managed processes and the host's table tell of the same children,
\* although pids are used again: a managed pid is a child of the daemon that has
\* not been reaped, and a child that runs is managed, unless it is being
\* terminated or its termination was given up.
ManagedAreOurs ==
    /\ \A p \in managed : process[p] # NoProcess /\ process[p].kin = "child"
    /\ \A p \in Pids :
          Is(p, "child", "running") =>
             \/ p \in managed \/ p \in abandoned
             \/ waiting # NoTermination /\ waiting.pid = p

\* The order of arrival by which the center evicts is the roster, each node
\* once, and no longer than the limit.
RosterIsOrdered ==
    /\ Range(center.order) = center.nodes
    /\ Len(center.order) = Cardinality(center.nodes)
    /\ MaxNodes # 0 => Cardinality(center.nodes) <= MaxNodes

\* A daemon that has stopped is not on the center's roster.
StoppedIsForgotten == ~ up => Self \notin center.nodes

\* The center gets an artifact once, whatever leaves the daemon's ring and
\* however often the daemon is stopped and started.
CopiesAreDistinct == IsInjective(center.copies)

\* What the daemon, its supervisor and the center say of children, nodes and copies
\* is so.
SupervisionIsSound == TypeOK /\ ManagedAreOurs /\ StoppedIsForgotten /\ CopiesAreDistinct

\* A node that was told to shut down goes, though a stop or a restart of a hung
\* child be handled in the same tick.
ShutdownHappens == shutdownRequested ~> ~ up
=============================================================================
