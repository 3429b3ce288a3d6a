---------------------------- MODULE BackupTopology ----------------------------
(***************************************************************************)
(* runtime/BackupTopologyCoordinator.cpp: which process backs up which, and *)
(* the rebuild of that order: prime, acknowledge, promote.  The processes  *)
(* answer by messages, which may outlive the rebuild they were sent in.    *)
(***************************************************************************)
EXTENDS Naturals, Sequences, FiniteSets, SequencesExt

CONSTANTS Processes, Epochs, Hashes, MaxRounds, MaxJoins, MaxPrimes

ASSUME TopologyAssumption == Hashes \subseteq Nat /\ MaxRounds \in Nat

VARIABLES
    processes,          \* the members in order: [id, acked]
    activeVersion, stagingVersion, rebuilding,
    acks,               \* acknowledgements under way
    staged,             \* history: the version each rebuild staged
    joined,             \* history: how often a process registered
    primed,             \* history: [id, round, joined] of every process that primed
    believed            \* history: members whose acked flag is owed to another round

topologyVars == <<processes, activeVersion, stagingVersion, rebuilding, acks,
                  staged, joined, primed, believed>>

NoVersion == [version |-> 0, epoch |-> 0]

TopologyInit ==
    /\ processes = << >> /\ activeVersion = NoVersion /\ stagingVersion = NoVersion
    /\ rebuilding = FALSE /\ acks = {} /\ staged = << >>
    /\ joined = [p \in Processes |-> 0] /\ primed = {} /\ believed = {}

Round == Len(staged)

Members == {processes[i].id : i \in DOMAIN processes}

VersionsStay == UNCHANGED <<activeVersion, stagingVersion, rebuilding, staged>>

-----------------------------------------------------------------------------
(* Membership: it may change in the middle of a rebuild *)

Joins == FoldFunction(+, 0, joined)

RegisterProcess(p) ==
    /\ p \notin Members /\ Joins < MaxJoins
    /\ processes' = Append(processes, [id |-> p, acked |-> FALSE])
    /\ joined' = [joined EXCEPT ![p] = @ + 1]
    /\ VersionsStay /\ UNCHANGED <<acks, primed, believed>>

UnregisterProcess(p) ==
    /\ \E i \in DOMAIN processes :
          processes[i].id = p /\ processes' = RemoveAt(processes, i)
    /\ believed' = believed \ {p}
    /\ VersionsStay /\ UNCHANGED <<acks, joined, primed>>

-----------------------------------------------------------------------------
(* A rebuild *)

\* Mutant: the acknowledgements of the last rebuild still count.
AcksKept == processes

AcksCleared == [i \in DOMAIN processes |-> [processes[i] EXCEPT !.acked = FALSE]]

BeginRebuild(epoch) ==
    /\ ~rebuilding /\ processes # << >> /\ Round < MaxRounds
    /\ rebuilding' = TRUE
    /\ stagingVersion' = [version |-> activeVersion.version + 1, epoch |-> epoch]
    /\ staged' = Append(staged, stagingVersion')
    /\ processes' = AcksCleared
    /\ believed' = {}
    /\ UNCHANGED <<activeVersion, acks, joined, primed>>

\* A process that was told of the rebuild primes its share, and says so.
Prime(p) ==
    /\ rebuilding /\ p \in Members
    /\ LET share == [id |-> p, round |-> Round, joined |-> joined[p]] IN
       /\ share \notin primed /\ Cardinality(primed) < MaxPrimes
       /\ primed' = primed \cup {share}
       /\ acks' = acks \cup {[share |-> share, version |-> stagingVersion]}
    /\ VersionsStay /\ UNCHANGED <<processes, joined, believed>>

Expected(ack) == rebuilding /\ ack.version = stagingVersion /\ ack.share.id \in Members

\* The coordinator knows the process and the version, not the round.
AckPrimed(ack) ==
    LET p == ack.share.id IN
    /\ ack \in acks /\ acks' = acks \ {ack}
    /\ IF Expected(ack)
       THEN /\ processes' = [i \in DOMAIN processes |->
                 IF processes[i].id = p THEN [processes[i] EXCEPT !.acked = TRUE] ELSE processes[i]]
            /\ believed' = IF ack.share.round = Round /\ ack.share.joined = joined[p]
                           THEN believed ELSE believed \cup {p}
       ELSE UNCHANGED <<processes, believed>>
    /\ VersionsStay /\ UNCHANGED <<joined, primed>>

AllAcked == rebuilding /\ \A i \in DOMAIN processes : processes[i].acked

Promote ==
    /\ AllAcked
    /\ activeVersion' = stagingVersion /\ rebuilding' = FALSE
    /\ UNCHANGED <<processes, stagingVersion, acks, staged, joined, primed, believed>>

Abort ==
    /\ rebuilding /\ rebuilding' = FALSE
    /\ UNCHANGED <<processes, activeVersion, stagingVersion, acks, staged, joined,
                   primed, believed>>

TopologyNext ==
    \/ \E p \in Processes : RegisterProcess(p) \/ UnregisterProcess(p) \/ Prime(p)
    \/ \E epoch \in Epochs : BeginRebuild(epoch)
    \/ \E ack \in acks : AckPrimed(ack)
    \/ Promote \/ Abort

-----------------------------------------------------------------------------
(* Placement: h is the hash of the entity's id *)

RouteFor(h) ==
    LET n == Len(processes)
        first == h % n
        second == (h \div n + 1) % n
    IN [primary |-> processes[first + 1].id,
        backup |-> processes[(IF second = first THEN (second + 1) % n ELSE second) + 1].id]

-----------------------------------------------------------------------------
(* Properties *)

TopologyTypeOK ==
    /\ Members \subseteq Processes /\ believed \subseteq Members
    /\ activeVersion.version \in 0 .. MaxRounds /\ activeVersion.epoch \in Epochs \cup {0}

HasPrimed(p) == [id |-> p, round |-> Round, joined |-> joined[p]] \in primed

\* What is promoted has been primed in this rebuild by every member, also by one
\* that joined in its middle.  An acknowledgement of an aborted rebuild counts
\* only if the caller used its epoch again, or of a member that left and came back.
\* And no entity is its own backup.
PrimedBeforePromoted ==
    /\ TopologyTypeOK
    /\ AllAcked => \A p \in Members : HasPrimed(p) \/ p \in believed
    /\ Len(processes) >= 2 => \A h \in Hashes : RouteFor(h).primary # RouteFor(h).backup
    /\ \A p \in believed :
         joined[p] > 1 \/ \E r \in 1 .. Round - 1 : staged[r] = stagingVersion
=============================================================================
