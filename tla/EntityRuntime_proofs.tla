------------------------ MODULE EntityRuntime_proofs ------------------------
(***************************************************************************)
(* Proofs about EntityRuntime, for every set of entities and CellApps and   *)
(* every value of the bounds: type correctness, that an entity never has    *)
(* two authoritative cell bodies (SingleAuthority), that the base knows     *)
(* what it destroys (PendingIsRegistered); while nothing disturbs it, that  *)
(* its binding is true and its destructions are answered; while no route    *)
(* lapses, that no effect is lost (NoEffectIsLost); and, while migrations   *)
(* are direct too, that every source body is answered, that an entity       *)
(* loses its cell part by a destroyCell only, and that the runtime          *)
(* implements CellPlacement.                                                *)
(***************************************************************************)
EXTENDS EntityRuntime, TLAPS

Nets == [Links -> Seq(Messages)]

TypeInv == TypeOK /\ RoutesLeadAway

-----------------------------------------------------------------------------
(* The connections *)

\* A message of a connection that is not empty is a message, and what is left
\* of the connections after it was taken off is well typed.
LEMMA PopType ==
    ASSUME NEW n \in Nets, NEW l \in Links, n[l] # <<>>
    PROVE  Head(n[l]) \in Messages /\ Pop(n, l) \in Nets
<1>1. n[l] \in Seq(Messages)
    BY DEF Nets
<1>2. Head(n[l]) \in Messages /\ Tail(n[l]) \in Seq(Messages)
    BY <1>1
<1> QED
    BY <1>2 DEF Pop, Nets

\* A queue stays well typed when a message is sent, whether or not the
\* transport accepts it.
LEMMA SendType ==
    ASSUME NEW n \in Nets, NEW l \in Links, NEW m \in Messages, NEW r
    PROVE  Push(n, l, m) \in Nets /\ Send(n, l, m, r) \in Nets
<1>1. n[l] \in Seq(Messages)
    BY DEF Nets
<1>2. Append(n[l], m) \in Seq(Messages)
    BY <1>1
<1> QED
    BY <1>2 DEF Push, Send, Nets

\* The messages the handlers build are messages.
LEMMA SignalType ==
    ASSUME NEW e \in Entities,
           NEW type \in {"createCell", "destroyCell", "cellReady",
                         "cellDestroyed", "spawnRequest", "call"}
    PROVE  Signal(type, e) \in Messages
BY DEF Signal, Messages

\* Two different processes are connected.
LEMMA LinkType ==
    ASSUME NEW s \in Processes, NEW d \in Processes, s # d
    PROVE  <<s, d>> \in Links
BY DEF Links

LEMMA BaseLinks ==
    ASSUME NEW c \in Cells
    PROVE  <<Base, c>> \in Links /\ <<c, Base>> \in Links
BY ConstantsAssumption, LinkType DEF Processes

\* The counters of the environment stay natural numbers.
LEMMA ChargeType ==
    ASSUME NEW u \in [{"calls", "lapses", "refusals", "spawns"} -> Nat], NEW r
    PROVE  /\ Charge(u, r) \in [{"calls", "lapses", "refusals", "spawns"} -> Nat]
           /\ \A what \in {"calls", "lapses", "refusals", "spawns"} :
                 Spend(u, what) \in [{"calls", "lapses", "refusals", "spawns"} -> Nat]
BY DEF Charge, Spend

\* An update of one entity at one CellApp leaves the table well typed, and
\* changes that entry only.
LEMMA TableUpdate ==
    ASSUME NEW S, NEW f \in [Cells -> [Entities -> S]],
           NEW c \in Cells, NEW e \in Entities, NEW x \in S
    PROVE  /\ [f EXCEPT ![c][e] = x] \in [Cells -> [Entities -> S]]
           /\ \A d \in Cells, o \in Entities :
                 [f EXCEPT ![c][e] = x][d][o]
                     = IF d = c /\ o = e THEN x ELSE f[d][o]
OBVIOUS

-----------------------------------------------------------------------------
(* Type correctness *)

LEMMA TypeInit == Init => TypeInv
<1> SUFFICES ASSUME Init PROVE TypeInv
    OBVIOUS
<1>1. net \in Nets
    BY DEF Init, Nets
<1> QED
    BY <1>1, ConstantsAssumption DEF Init, TypeInv, TypeOK, RoutesLeadAway, Nets

LEMMA TypeStep == TypeInv /\ [Next]_vars => TypeInv'
<1> SUFFICES ASSUME TypeInv, [Next]_vars
             PROVE  TypeInv'
    OBVIOUS
<1> USE DEF TypeInv
<1> DEFINE Uses == [{"calls", "lapses", "refusals", "spawns"} -> Nat]
<1>1. /\ net \in Nets
      /\ used \in Uses
    BY DEF TypeOK, Nets
<1>2. ASSUME NEW e \in Entities, NEW c \in Cells, EnterGame(e, c)
      PROVE  TypeInv'
  <2>1. net' \in Nets /\ used' \in Uses
    <3>1. <<Base, c>> \in Links
        BY BaseLinks
    <3> QED
        BY <3>1, <1>2, <1>1, SignalType, SendType, ChargeType DEF EnterGame
  <2> QED
      BY <1>2, <2>1 DEF EnterGame, TypeOK, RoutesLeadAway, cellVars, Nets
<1>3. ASSUME NEW e \in Entities, DestroyEntity(e)
      PROVE  TypeInv'
  <2>1. net' \in Nets /\ used' \in Uses
    <3>1. cellCall[e] # NoCell => <<Base, cellCall[e]>> \in Links
        BY BaseLinks DEF TypeOK
    <3> QED
        BY <3>1, <1>3, <1>1, SignalType, SendType, ChargeType
        DEF DestroyEntity
  <2> QED
      BY <1>3, <2>1 DEF DestroyEntity, CompleteBaseDestruction, Unbind, TypeOK,
                        RoutesLeadAway, cellVars, Nets
<1>4. ASSUME NEW e \in Entities, LeaveWorld(e) \/ CallCell(e)
      PROVE  TypeInv'
  <2>1. net' \in Nets /\ used' \in Uses
    <3>1. <<Base, cellCall[e]>> \in Links
        BY <1>4, BaseLinks DEF TypeOK, LeaveWorld, CallCell
    <3>2. Signal("destroyCell", e) \in Messages /\ Signal("call", e) \in Messages
        BY SignalType
    <3> QED
        BY <3>1, <3>2, <1>4, <1>1, SendType, ChargeType
        DEF LeaveWorld, CallCell
  <2> QED
      BY <1>4, <2>1 DEF LeaveWorld, CallCell, TypeOK, RoutesLeadAway, cellVars,
                        baseVars, Nets
<1>5. ASSUME NEW e \in Entities, ClientDisconnect(e)
      PROVE  TypeInv'
  <2>1. net' \in Nets /\ used' \in Uses
    <3>1. cellCall[e] \in Cells /\ <<Base, cellCall[e]>> \in Links
        BY <1>5, BaseLinks DEF ClientDisconnect, TypeOK
    <3> QED
        BY <3>1, <1>5, <1>1, SignalType, SendType, ChargeType
        DEF ClientDisconnect
  <2> QED
      BY <1>5, <2>1 DEF ClientDisconnect, TypeOK, RoutesLeadAway, cellVars, Nets
<1>6. ASSUME NEW c \in Cells, HandleCellReady(c)
      PROVE  TypeInv'
  <2> DEFINE l == <<c, Base>>
  <2>1. l \in Links /\ net[l] # <<>>
      BY <1>6, BaseLinks DEF HandleCellReady, Arrived
  <2>2. Head(net[l]) \in Messages /\ net' \in Nets
      BY <1>6, <1>1, <2>1, PopType DEF HandleCellReady
  <2>3. Head(net[l]).e \in Entities
      BY <2>2 DEF Messages
  <2> QED
      BY <1>6, <2>2, <2>3 DEF HandleCellReady, Bind, TypeOK, RoutesLeadAway,
                              cellVars, Nets
<1>7. ASSUME NEW c \in Cells, HandleCellDestroyed(c)
      PROVE  TypeInv'
  <2> DEFINE l == <<c, Base>>
  <2>1. l \in Links /\ net[l] # <<>>
      BY <1>7, BaseLinks DEF HandleCellDestroyed, Arrived
  <2>2. Head(net[l]) \in Messages /\ net' \in Nets
      BY <1>7, <1>1, <2>1, PopType DEF HandleCellDestroyed
  <2>3. Head(net[l]).e \in Entities
      BY <2>2 DEF Messages
  <2> QED
      BY <1>7, <2>2, <2>3 DEF HandleCellDestroyed, CompleteBaseDestruction,
                              Unbind, TypeOK, RoutesLeadAway, cellVars, Nets
<1>8. ASSUME NEW c \in Cells, HandleSpawnRequest(c)
      PROVE  TypeInv'
  <2> DEFINE l == <<c, Base>>
             requester == Head(net[l]).e
  <2>1. l \in Links /\ net[l] # <<>>
      BY <1>8, BaseLinks DEF HandleSpawnRequest, Arrived
  <2>2. Head(net[l]) \in Messages /\ Pop(net, l) \in Nets
      BY <1>1, <2>1, PopType
  <2>3. requester \in Entities
      BY <2>2 DEF Messages
  <2>4. cellCall[requester] # NoCell => <<Base, cellCall[requester]>> \in Links
      BY <2>3, BaseLinks DEF TypeOK
  <2>5. /\ net' \in Nets
        /\ used' \in Uses
        /\ baseState' \in [Entities -> {"Unborn", "Active", "Destroying", "Gone"}]
    <3>1. CASE net' = Pop(net, l) /\ UNCHANGED <<baseState, used>>
        BY <3>1, <2>2, <1>1 DEF TypeOK
    <3>2. ASSUME NEW e \in Entities,
                 \/ /\ cellCall[requester] # NoCell
                    /\ baseState' = [baseState EXCEPT ![e] = "Active"]
                    /\ \E r \in SendResults :
                          /\ net' = Send(Pop(net, l), <<Base, cellCall[requester]>>,
                                         Signal("createCell", e), r)
                          /\ used' = Charge(used, r)
                 \/ /\ baseState' = [baseState EXCEPT ![e] = "Gone"]
                    /\ net' = Pop(net, l)
                    /\ UNCHANGED used
          PROVE  /\ net' \in Nets
                 /\ used' \in Uses
                 /\ baseState' \in [Entities -> {"Unborn", "Active", "Destroying", "Gone"}]
      <4>1. Signal("createCell", e) \in Messages
          BY SignalType
      <4>2. baseState' \in [Entities -> {"Unborn", "Active", "Destroying", "Gone"}]
          BY <3>2 DEF TypeOK
      <4> HIDE DEF l, requester
      <4> QED
          BY <4>1, <4>2, <3>2, <2>2, <2>4, <1>1, SendType, ChargeType
    <3> QED
        BY <1>8, <3>1, <3>2 DEF HandleSpawnRequest
  <2> QED
      BY <1>8, <2>5 DEF HandleSpawnRequest, TypeOK, RoutesLeadAway, cellVars,
                        Nets
<1>9. ASSUME NEW c \in Cells, HandleCreateCell(c) \/ HandleDestroyCell(c)
      PROVE  TypeInv'
  <2> DEFINE l == <<Base, c>>
             e == Head(net[l]).e
  <2>1. /\ l \in Links /\ <<c, Base>> \in Links
        /\ net[l] # <<>>
      BY <1>9, BaseLinks DEF HandleCreateCell, HandleDestroyCell, Arrived
  <2>2. Head(net[l]) \in Messages /\ Pop(net, l) \in Nets
      BY <1>1, <2>1, PopType
  <2>3. /\ e \in Entities
        /\ Signal("cellReady", e) \in Messages
        /\ Signal("cellDestroyed", e) \in Messages
      BY <2>2, SignalType DEF Messages
  <2>4. net' \in Nets /\ used' \in Uses
      BY <1>9, <1>1, <2>1, <2>2, <2>3, SendType, ChargeType
      DEF HandleCreateCell, HandleDestroyCell, TellDestroyed
  <2>5. CASE HandleCreateCell(c)
    <3>1. /\ body' \in [Cells -> [Entities -> {"None", "Active", "Migrating"}]]
          /\ work' \in [Cells -> [Entities -> Nat]]
      <4> HIDE DEF e
      <4>1. /\ [body EXCEPT ![c][e] = "Active"]
                  \in [Cells -> [Entities -> {"None", "Active", "Migrating"}]]
            /\ [work EXCEPT ![c][e] = 0] \in [Cells -> [Entities -> Nat]]
          BY <2>3, TableUpdate DEF TypeOK
      <4> QED
          BY <2>5, <4>1 DEF HandleCreateCell, TypeOK, e
    <3> QED
        BY <2>5, <2>4, <3>1 DEF HandleCreateCell, TypeOK, RoutesLeadAway,
                                baseVars, Nets
  <2>6. CASE HandleDestroyCell(c)
    <3>1. body' \in [Cells -> [Entities -> {"None", "Active", "Migrating"}]]
      <4> HIDE DEF e
      <4>1. [body EXCEPT ![c][e] = "None"]
                \in [Cells -> [Entities -> {"None", "Active", "Migrating"}]]
          BY <2>3, TableUpdate DEF TypeOK
      <4> QED
          BY <2>6, <4>1 DEF HandleDestroyCell, TypeOK, e
    <3> QED
        BY <2>6, <2>4, <3>1 DEF HandleDestroyCell, TypeOK, RoutesLeadAway,
                                baseVars, Nets
  <2> QED
      BY <1>9, <2>5, <2>6
<1>10. ASSUME NEW c \in Cells, NEW t \in Cells, NEW e \in Entities,
             BeginMigration(c, t, e)
      PROVE  TypeInv'
  <2>1. used' \in Uses
      BY <1>10, <1>1, ChargeType DEF BeginMigration
  <2>2. CASE UNCHANGED <<epochs, net, body, migrationRoutes>>
      BY <1>10, <2>1, <2>2 DEF BeginMigration, TypeOK, RoutesLeadAway, baseVars
  <2>3. CASE /\ epochs' = epochs + 1
             /\ net' = Push(net, <<c, t>>,
                            [type |-> "transfer", e |-> e,
                             epoch |-> epochs + 1, work |-> work[c][e]])
             /\ Leaving(c, e)
             /\ OpenRoute(c, e, t, epochs + 1)
    <3>1. epochs + 1 \in 1 .. MaxMigrations /\ t # c /\ work[c][e] \in Nat
        BY <1>10, ConstantsAssumption DEF BeginMigration, TypeOK
    <3>2. [type |-> "transfer", e |-> e, epoch |-> epochs + 1,
           work |-> work[c][e]] \in Messages
        BY <3>1 DEF Messages
    <3>3. <<c, t>> \in Links
        BY <3>1, LinkType DEF Processes
    <3>4. net' \in Nets
        BY <2>3, <3>2, <3>3, <1>1, SendType
    <3>5. [target |-> t, epoch |-> epochs + 1, expired |-> FALSE] \in Routes
        BY <3>1 DEF Routes
    <3>6. /\ migrationRoutes' \in [Cells -> [Entities -> Routes \cup {NoRoute}]]
          /\ RoutesLeadAway'
        BY <2>3, <3>1, <3>5 DEF OpenRoute, TypeOK, RoutesLeadAway
    <3>7. /\ body' \in [Cells -> [Entities -> {"None", "Active", "Migrating"}]]
          /\ epochs' \in 0 .. MaxMigrations
        BY <2>3, <3>1 DEF Leaving, TypeOK
    <3> QED
        BY <1>10, <2>1, <3>4, <3>6, <3>7 DEF BeginMigration, TypeOK, baseVars,
                                            Nets
  <2> QED
      BY <1>10, <2>2, <2>3 DEF BeginMigration
<1>11. ASSUME NEW c \in Cells, NEW s \in Cells \ {c},
              ApplyMigrationTransfer(s, c) \/ ApplyMigrationCommit(s, c)
       PROVE  TypeInv'
  <2> DEFINE l == <<s, c>>
             m == Head(net[l])
  <2>1. /\ l \in Links /\ <<c, s>> \in Links /\ <<c, Base>> \in Links
        /\ net[l] # <<>>
      BY <1>11, LinkType, BaseLinks
      DEF ApplyMigrationTransfer, ApplyMigrationCommit, Arrived, Processes
  <2>2. m \in Messages /\ Pop(net, l) \in Nets
      BY <1>1, <2>1, PopType
  <2>3. m.e \in Entities
      BY <2>2 DEF Messages
  <2>4. CASE ApplyMigrationTransfer(s, c)
    <3>1. m.epoch \in 1 .. MaxMigrations /\ m.work \in Nat
        BY <2>2, <2>4 DEF ApplyMigrationTransfer, Arrived, Messages
    <3>2. /\ Signal("cellReady", m.e) \in Messages
          /\ [type |-> "commit", e |-> m.e, epoch |-> m.epoch] \in Messages
        BY <2>3, <3>1, SignalType DEF Messages
    <3>3. net' \in Nets /\ used' \in Uses
      <4>1. CASE net' = Pop(net, l) /\ UNCHANGED <<body, work, used>>
          BY <4>1, <2>2, <1>1
      <4>2. ASSUME NEW r1, NEW r2,
                   net' = Send(Send(Pop(net, l), <<c, Base>>,
                                    Signal("cellReady", m.e), r1),
                               <<c, s>>,
                               [type |-> "commit", e |-> m.e,
                                epoch |-> m.epoch], r2),
                   used' = Charge(Charge(used, r1), r2)
            PROVE  net' \in Nets /\ used' \in Uses
        <5> DEFINE n == Send(Pop(net, l), <<c, Base>>,
                             Signal("cellReady", m.e), r1)
        <5>1. n \in Nets
            BY <2>1, <2>2, <3>2, SendType
        <5>2. Send(n, <<c, s>>, [type |-> "commit", e |-> m.e,
                                 epoch |-> m.epoch], r2) \in Nets
          <6> HIDE DEF n, m
          <6> QED
              BY <5>1, <2>1, <3>2, SendType
        <5> QED
            BY <4>2, <5>2, <1>1, ChargeType
      <4> QED
          BY <2>4, <4>1, <4>2 DEF ApplyMigrationTransfer
    <3>4. /\ body' \in [Cells -> [Entities -> {"None", "Active", "Migrating"}]]
          /\ work' \in [Cells -> [Entities -> Nat]]
      <4> HIDE DEF m
      <4>1. /\ [body EXCEPT ![c][m.e] = "Active"]
                  \in [Cells -> [Entities -> {"None", "Active", "Migrating"}]]
            /\ [work EXCEPT ![c][m.e] = m.work] \in [Cells -> [Entities -> Nat]]
          BY <2>3, <3>1, TableUpdate DEF TypeOK
      <4> QED
          BY <2>4, <4>1 DEF ApplyMigrationTransfer, TypeOK, m
    <3> QED
        BY <2>4, <3>3, <3>4 DEF ApplyMigrationTransfer, TypeOK,
                                RoutesLeadAway, baseVars, Nets
  <2>5. CASE ApplyMigrationCommit(s, c)
    <3>1. net' \in Nets
        BY <2>5, <2>2 DEF ApplyMigrationCommit
    <3> QED
        BY <2>5, <2>3, <3>1 DEF ApplyMigrationCommit, TypeOK, RoutesLeadAway,
                                baseVars, Nets
  <2> QED
      BY <1>11, <2>4, <2>5
<1>12. ASSUME NEW c \in Cells, NEW s \in Processes \ {c}, DispatchCall(s, c)
       PROVE  TypeInv'
  <2> DEFINE l == <<s, c>>
             m == Head(net[l])
  <2>1. l \in Links /\ net[l] # <<>>
      BY <1>12, LinkType DEF DispatchCall, Arrived, Processes
  <2>2. m \in Messages /\ Pop(net, l) \in Nets
      BY <1>1, <2>1, PopType
  <2>3. m.e \in Entities
      BY <2>2 DEF Messages
  <2>4. net' \in Nets /\ used' \in Uses
    <3>1. CASE net' = Pop(net, l) /\ UNCHANGED used
        BY <3>1, <2>2, <1>1
    <3>2. ASSUME InWindow(c, m.e), NEW r,
                 net' = Send(Pop(net, l),
                             <<c, migrationRoutes[c][m.e].target>>, m, r),
                 used' = Charge(used, r)
          PROVE  net' \in Nets /\ used' \in Uses
      <4>1. migrationRoutes[c][m.e].target \in Cells \ {c}
          BY <3>2, <2>3 DEF InWindow, TypeOK, RoutesLeadAway, Routes
      <4>2. <<c, migrationRoutes[c][m.e].target>> \in Links
          BY <4>1, LinkType DEF Processes
      <4> QED
          BY <4>2, <3>2, <2>2, <1>1, SendType, ChargeType
    <3> QED
        BY <1>12, <3>1, <3>2 DEF DispatchCall
  <2>5. /\ work' \in [Cells -> [Entities -> Nat]]
        /\ applied' \in [Entities -> Nat]
    <3> HIDE DEF m
    <3>1. work[c][m.e] + 1 \in Nat /\ applied[m.e] + 1 \in Nat
        BY <2>3 DEF TypeOK
    <3>2. /\ [work EXCEPT ![c][m.e] = work[c][m.e] + 1]
                \in [Cells -> [Entities -> Nat]]
          /\ [applied EXCEPT ![m.e] = applied[m.e] + 1] \in [Entities -> Nat]
        BY <2>3, <3>1, TableUpdate DEF TypeOK
    <3>3. CASE ExecuteCall(c, m.e)
        BY <3>2, <3>3 DEF ExecuteCall, TypeOK
    <3>4. CASE UNCHANGED <<work, applied>>
        BY <3>4 DEF TypeOK
    <3> QED
        BY <1>12, <3>3, <3>4 DEF DispatchCall, m
  <2>6. /\ migrationRoutes' \in [Cells -> [Entities -> Routes \cup {NoRoute}]]
        /\ RoutesLeadAway'
    <3> HIDE DEF m
    <3>1. /\ [migrationRoutes EXCEPT ![c][m.e] = NoRoute]
                \in [Cells -> [Entities -> Routes \cup {NoRoute}]]
          /\ \A d \in Cells, o \in Entities :
                [migrationRoutes EXCEPT ![c][m.e] = NoRoute][d][o]
                    = IF d = c /\ o = m.e THEN NoRoute
                                         ELSE migrationRoutes[d][o]
        BY <2>3, TableUpdate DEF TypeOK
    <3>2. \/ migrationRoutes' = [migrationRoutes EXCEPT ![c][m.e] = NoRoute]
          \/ migrationRoutes' = migrationRoutes
        BY <1>12 DEF DispatchCall, m
    <3>3. migrationRoutes' \in [Cells -> [Entities -> Routes \cup {NoRoute}]]
        BY <3>1, <3>2 DEF TypeOK
    <3>4. ASSUME NEW d \in Cells, NEW o \in Entities
          PROVE  \/ migrationRoutes'[d][o] = NoRoute
                 \/ migrationRoutes'[d][o] = migrationRoutes[d][o]
        BY <3>1, <3>2
    <3> QED
        BY <3>3, <3>4 DEF RoutesLeadAway
  <2> QED
      BY <1>12, <2>4, <2>5, <2>6 DEF DispatchCall, TypeOK, baseVars, Nets
<1>13. ASSUME NEW c \in Cells, NEW e \in Entities,
              ExpireRoute(c, e) \/ ClearMigrationRoute(c, e)
       PROVE  TypeInv'
  <2>1. used' \in Uses
      BY <1>13, <1>1, ChargeType DEF ExpireRoute, ClearMigrationRoute
  <2>2. /\ migrationRoutes' \in [Cells -> [Entities -> Routes \cup {NoRoute}]]
        /\ RoutesLeadAway'
    <3> DEFINE r == migrationRoutes[c][e]
    <3>1. r \in Routes /\ r.target # c
        BY <1>13 DEF ExpireRoute, ClearMigrationRoute, TypeOK, RoutesLeadAway
    <3>2. [r EXCEPT !.expired = TRUE] \in Routes
        BY <3>1 DEF Routes
    <3>3. [r EXCEPT !.expired = TRUE].target # c
        BY <3>1 DEF Routes
    <3>4. \E x \in Routes \cup {NoRoute} :
             /\ x # NoRoute => x.target # c
             /\ migrationRoutes' = [migrationRoutes EXCEPT ![c][e] = x]
      <4>1. CASE migrationRoutes' = [migrationRoutes EXCEPT ![c][e] = NoRoute]
          BY <4>1
      <4>2. CASE migrationRoutes' = [migrationRoutes EXCEPT ![c][e] =
                                        [r EXCEPT !.expired = TRUE]]
          BY <4>2, <3>2, <3>3
      <4> QED
          BY <1>13, <4>1, <4>2 DEF ExpireRoute, ClearMigrationRoute, TypeOK
    <3>5. PICK x \in Routes \cup {NoRoute} :
             /\ x # NoRoute => x.target # c
             /\ migrationRoutes' = [migrationRoutes EXCEPT ![c][e] = x]
        BY <3>4
    <3>6. /\ migrationRoutes' \in [Cells -> [Entities -> Routes \cup {NoRoute}]]
          /\ \A d \in Cells, o \in Entities :
                migrationRoutes'[d][o]
                    = IF d = c /\ o = e THEN x ELSE migrationRoutes[d][o]
        BY <3>5, TableUpdate DEF TypeOK
    <3> QED
        BY <3>5, <3>6 DEF RoutesLeadAway
  <2> QED
      BY <1>13, <2>1, <2>2 DEF ExpireRoute, ClearMigrationRoute, TypeOK,
                               baseVars
<1>14. ASSUME NEW c \in Cells, NEW e \in Entities, RequestSpawnEntity(c, e)
       PROVE  TypeInv'
  <2>1. <<c, Base>> \in Links /\ Signal("spawnRequest", e) \in Messages
      BY BaseLinks, SignalType
  <2>2. net' \in Nets /\ used' \in Uses
      BY <1>14, <2>1, <1>1, SendType, ChargeType DEF RequestSpawnEntity
  <2> QED
      BY <1>14, <2>2 DEF RequestSpawnEntity, TypeOK, RoutesLeadAway, baseVars,
                         cellVars, Nets
<1>15. CASE UNCHANGED vars
    BY <1>15 DEF vars, baseVars, cellVars, TypeOK, RoutesLeadAway
<1> QED
    BY <1>2, <1>3, <1>4, <1>5, <1>6, <1>7, <1>8, <1>9, <1>10, <1>11, <1>12,
       <1>13, <1>14, <1>15
    DEF Next, Environment, Deliver

\* Every variable keeps its type: no handler sends a message of an unknown
\* kind, binds a base to something that is not a CellApp, or makes a CellApp
\* route an entity to itself.
THEOREM TypeCorrect == Spec => []TypeOK
<1>1. TypeInv => TypeOK
    BY DEF TypeInv
<1> QED
    BY <1>1, TypeInit, TypeStep, PTL DEF Spec
-----------------------------------------------------------------------------
(* Claims on the connections *)

\* Message m is about e and of one of the types T.
Of(T, m, e) == m.e = e /\ m.type \in T

\* Connections n carry at most one message of types T about e, or none.
AtMostOne(T, n, e) ==
    \A l1, l2 \in Links : \A i \in DOMAIN n[l1], j \in DOMAIN n[l2] :
        Of(T, n[l1][i], e) /\ Of(T, n[l2][j], e) => l1 = l2 /\ i = j

Absent(T, n, e) == \A l \in Links : \A i \in DOMAIN n[l] : ~ Of(T, n[l][i], e)

\* The messages that claim authority over an entity.
ClaimTypes     == {"createCell", "transfer"}
OneClaim(n, e) == AtMostOne(ClaimTypes, n, e)
NoClaim(n, e)  == Absent(ClaimTypes, n, e)

\* What is left after Pop are the messages behind the head, one place further
\* in front; the other connections are as before.
LEMMA PopMessages ==
    ASSUME NEW n \in Nets, NEW l \in Links, n[l] # <<>>
    PROVE  /\ 1 \in DOMAIN n[l] /\ n[l][1] = Head(n[l])
           /\ \A k \in Links \ {l} : Pop(n, l)[k] = n[k]
           /\ \A i \in DOMAIN Pop(n, l)[l] :
                 /\ i \in Nat \ {0}
                 /\ i + 1 \in DOMAIN n[l]
                 /\ Pop(n, l)[l][i] = n[l][i + 1]
<1>1. n[l] \in Seq(Messages) /\ Pop(n, l)[l] = Tail(n[l])
    BY DEF Nets, Pop
<1>2. \A k \in Links \ {l} : Pop(n, l)[k] = n[k]
    BY DEF Nets, Pop
<1> DEFINE s == n[l]
<1>3. s \in Seq(Messages) /\ s # <<>>
    BY <1>1
<1>4. /\ 1 \in DOMAIN s /\ s[1] = Head(s)
      /\ \A i \in DOMAIN Tail(s) :
            i \in Nat \ {0} /\ i + 1 \in DOMAIN s /\ Tail(s)[i] = s[i + 1]
  <2> HIDE DEF s
  <2> QED
      BY <1>3
<1> QED
    BY <1>1, <1>2, <1>4

\* What is there after Push are the old messages at their places and the new
\* one behind them.
LEMMA PushMessages ==
    ASSUME NEW n \in Nets, NEW l \in Links, NEW m \in Messages
    PROVE  /\ \A k \in Links \ {l} : Push(n, l, m)[k] = n[k]
           /\ \A i \in DOMAIN Push(n, l, m)[l] :
                 \/ i \in DOMAIN n[l] /\ Push(n, l, m)[l][i] = n[l][i]
                 \/ i = Len(n[l]) + 1 /\ Push(n, l, m)[l][i] = m
<1>1. n[l] \in Seq(Messages) /\ Push(n, l, m)[l] = Append(n[l], m)
    BY DEF Nets, Push
<1>2. \A k \in Links \ {l} : Push(n, l, m)[k] = n[k]
    BY DEF Nets, Push
<1> DEFINE s == n[l]
<1>3. \A i \in DOMAIN Append(s, m) :
         \/ i \in DOMAIN s /\ Append(s, m)[i] = s[i]
         \/ i = Len(s) + 1 /\ Append(s, m)[i] = m
  <2>1. s \in Seq(Messages)
      BY <1>1
  <2> HIDE DEF s
  <2> QED
      BY <2>1
<1> QED
    BY <1>1, <1>2, <1>3

\* Handling a message adds none, and handling the only one leaves none.
LEMMA PopOf ==
    ASSUME NEW T, NEW n \in Nets, NEW l \in Links, n[l] # <<>>, NEW e \in Entities
    PROVE  /\ Absent(T, n, e) => Absent(T, Pop(n, l), e)
           /\ AtMostOne(T, n, e) => AtMostOne(T, Pop(n, l), e)
           /\ AtMostOne(T, n, e) /\ Of(T, Head(n[l]), e) => Absent(T, Pop(n, l), e)
           /\ Absent(T, n, e) => ~ Of(T, Head(n[l]), e)
<1> DEFINE p == Pop(n, l)
<1>1. ASSUME NEW k \in Links, NEW i \in DOMAIN p[k]
      PROVE  \/ k # l /\ i \in DOMAIN n[k] /\ p[k][i] = n[k][i]
             \/ /\ k = l /\ i \in Nat \ {0}
                /\ i + 1 \in DOMAIN n[k] /\ p[k][i] = n[k][i + 1]
    BY PopMessages
<1>2. 1 \in DOMAIN n[l] /\ n[l][1] = Head(n[l])
    BY PopMessages
<1> HIDE DEF p
<1>3. Absent(T, n, e) => Absent(T, p, e)
    BY <1>1 DEF Absent
<1>4. ASSUME AtMostOne(T, n, e)
      PROVE  AtMostOne(T, p, e)
  <2> SUFFICES ASSUME NEW k1 \in Links, NEW k2 \in Links,
                      NEW i \in DOMAIN p[k1], NEW j \in DOMAIN p[k2],
                      Of(T, p[k1][i], e), Of(T, p[k2][j], e)
               PROVE  k1 = k2 /\ i = j
      BY DEF AtMostOne
  <2>1. PICK a \in DOMAIN n[k1] : /\ p[k1][i] = n[k1][a]
                                  /\ a = i \/ (k1 = l /\ i \in Nat /\ a = i + 1)
                                  /\ k1 # l => a = i
                                  /\ k1 = l => i \in Nat /\ a = i + 1
      BY <1>1
  <2>2. PICK b \in DOMAIN n[k2] : /\ p[k2][j] = n[k2][b]
                                  /\ k2 # l => b = j
                                  /\ k2 = l => j \in Nat /\ b = j + 1
      BY <1>1
  <2>3. k1 = k2 /\ a = b
      BY <1>4, <2>1, <2>2 DEF AtMostOne
  <2> QED
      BY <2>1, <2>2, <2>3
<1>5. ASSUME AtMostOne(T, n, e), Of(T, Head(n[l]), e)
      PROVE  Absent(T, p, e)
  <2> SUFFICES ASSUME NEW k \in Links, NEW i \in DOMAIN p[k],
                      Of(T, p[k][i], e)
               PROVE  FALSE
      BY DEF Absent
  <2>1. PICK a \in DOMAIN n[k] : /\ p[k][i] = n[k][a]
                                 /\ k = l => i \in Nat \ {0} /\ a = i + 1
      BY <1>1
  <2>2. k = l /\ a = 1
      BY <1>2, <1>5, <2>1 DEF AtMostOne
  <2> QED
      BY <2>1, <2>2
<1>6. Absent(T, n, e) => ~ Of(T, Head(n[l]), e)
    BY <1>2 DEF Absent
<1> QED
    BY <1>3, <1>4, <1>5, <1>6 DEF p

\* A message of another type or entity changes nothing; one sent where there was
\* none is the only one.
LEMMA SendOf ==
    ASSUME NEW T, NEW n \in Nets, NEW l \in Links, NEW m \in Messages, NEW r,
           NEW e \in Entities
    PROVE  /\ Absent(T, n, e) => AtMostOne(T, Send(n, l, m, r), e)
           /\ ~ Of(T, m, e) /\ Absent(T, n, e) => Absent(T, Send(n, l, m, r), e)
           /\ ~ Of(T, m, e) /\ AtMostOne(T, n, e) => AtMostOne(T, Send(n, l, m, r), e)
<1> DEFINE p == Push(n, l, m)
<1>1. ASSUME NEW k \in Links, NEW i \in DOMAIN p[k]
      PROVE  \/ i \in DOMAIN n[k] /\ p[k][i] = n[k][i]
             \/ k = l /\ i = Len(n[k]) + 1 /\ p[k][i] = m
    BY PushMessages
<1> HIDE DEF p
<1>2. Absent(T, n, e) => AtMostOne(T, p, e)
    BY <1>1 DEF Absent, AtMostOne
<1>3. ~ Of(T, m, e) /\ Absent(T, n, e) => Absent(T, p, e)
    BY <1>1 DEF Absent
<1>4. ~ Of(T, m, e) /\ AtMostOne(T, n, e) => AtMostOne(T, p, e)
    BY <1>1 DEF AtMostOne
<1>5. Absent(T, n, e) => AtMostOne(T, n, e)
    BY DEF Absent, AtMostOne
<1> QED
    BY <1>2, <1>3, <1>4, <1>5 DEF p, Send

\* The same of claims.
LEMMA PopClaims ==
    ASSUME NEW n \in Nets, NEW l \in Links, n[l] # <<>>, NEW e \in Entities
    PROVE  /\ NoClaim(n, e) => NoClaim(Pop(n, l), e)
           /\ OneClaim(n, e) => OneClaim(Pop(n, l), e)
           /\ OneClaim(n, e) /\ Claims(Head(n[l]), e) => NoClaim(Pop(n, l), e)
BY PopOf DEF NoClaim, OneClaim, Claims, Of, ClaimTypes

LEMMA SendClaims ==
    ASSUME NEW n \in Nets, NEW l \in Links, NEW m \in Messages, NEW r,
           NEW e \in Entities
    PROVE  /\ NoClaim(n, e) => OneClaim(Send(n, l, m, r), e)
           /\ ~ Claims(m, e) /\ NoClaim(n, e) => NoClaim(Send(n, l, m, r), e)
           /\ ~ Claims(m, e) /\ OneClaim(n, e) => OneClaim(Send(n, l, m, r), e)
BY SendOf DEF NoClaim, OneClaim, Claims, Of, ClaimTypes

-----------------------------------------------------------------------------
(* Single authority *)

\* The inductive invariant, for one entity: at most one claim in flight, at
\* most one Active body, never both, and nothing at all before the base part
\* was created (which is what makes the first createCell the first claim).
Authority(e) ==
    /\ OneClaim(net, e)
    /\ \A c1, c2 \in Cells :
          body[c1][e] = "Active" /\ body[c2][e] = "Active" => c1 = c2
    /\ \A c \in Cells : body[c][e] = "Active" => NoClaim(net, e)
    /\ baseState[e] = "Unborn" =>
          NoClaim(net, e) /\ \A c \in Cells : body[c][e] # "Active"

AuthorityInv == \A e \in Entities : Authority(e)

LEMMA AuthorityInit == Init => AuthorityInv
<1> SUFFICES ASSUME Init, NEW e \in Entities PROVE Authority(e)
    BY DEF AuthorityInv
<1>1. \A l \in Links : net[l] = << >>
    BY DEF Init
<1>2. NoClaim(net, e) /\ OneClaim(net, e)
    BY <1>1 DEF NoClaim, OneClaim, Absent, AtMostOne
<1>3. \A c \in Cells : body[c][e] = "None"
    BY DEF Init
<1> QED
    BY <1>2, <1>3 DEF Authority

\* A step that activates no body of e, sends no claim to it and does not turn
\* it back into an entity that was never created keeps its authority single.
LEMMA QuietStep ==
    ASSUME NEW e \in Entities, Authority(e),
           NoClaim(net, e) => NoClaim(net', e),
           OneClaim(net, e) => OneClaim(net', e),
           \A c \in Cells : body'[c][e] = "Active" => body[c][e] = "Active",
           baseState'[e] = "Unborn" => baseState[e] = "Unborn"
    PROVE  Authority(e)'
BY DEF Authority, NoClaim, OneClaim

LEMMA AuthorityStep ==
    TypeInv /\ AuthorityInv /\ [Next]_vars => AuthorityInv'
<1> SUFFICES ASSUME TypeInv, AuthorityInv, [Next]_vars, NEW o \in Entities
             PROVE  Authority(o)'
    BY DEF AuthorityInv
<1>1. /\ net \in Nets
      /\ body \in [Cells -> [Entities -> {"None", "Active", "Migrating"}]]
      /\ baseState \in [Entities -> {"Unborn", "Active", "Destroying", "Gone"}]
      /\ migrationRoutes \in [Cells -> [Entities -> Routes \cup {NoRoute}]]
      /\ RoutesLeadAway
    BY DEF TypeInv, TypeOK, Nets
<1>2. Authority(o)
    BY DEF AuthorityInv
<1>3. ASSUME NEW e \in Entities, NEW c \in Cells, EnterGame(e, c)
      PROVE  Authority(o)'
  <2>1. <<Base, c>> \in Links /\ Signal("createCell", e) \in Messages
      BY BaseLinks, SignalType
  <2>2. PICK r : net' = Send(net, <<Base, c>>, Signal("createCell", e), r)
      BY <1>3 DEF EnterGame
  <2>3. body' = body /\ baseState[e] = "Unborn"
        /\ baseState' = [baseState EXCEPT ![e] = "Active"]
      BY <1>3 DEF EnterGame, cellVars
  <2>4. CASE o = e
    <3>1. NoClaim(net, o) /\ \A d \in Cells : body[d][o] # "Active"
        BY <1>2, <2>3, <2>4 DEF Authority
    <3>2. OneClaim(net', o)
        BY <3>1, <2>1, <2>2, <1>1, SendClaims
    <3>3. baseState'[o] = "Active"
        BY <2>3, <2>4, <1>1
    <3> QED
        BY <3>1, <3>2, <3>3, <2>3 DEF Authority, OneClaim
  <2>5. CASE o # e
    <3>1. ~ Claims(Signal("createCell", e), o)
        BY <2>5 DEF Claims, Signal
    <3>2. /\ NoClaim(net, o) => NoClaim(net', o)
          /\ OneClaim(net, o) => OneClaim(net', o)
        BY <3>1, <2>1, <2>2, <1>1, SendClaims
    <3>3. baseState'[o] = baseState[o]
        BY <2>3, <2>5, <1>1
    <3> QED
        BY <3>2, <3>3, <2>3, <1>2, QuietStep
  <2> QED
      BY <2>4, <2>5
<1>4. ASSUME NEW e \in Entities,
             DestroyEntity(e) \/ LeaveWorld(e) \/ ClientDisconnect(e) \/ CallCell(e)
      PROVE  Authority(o)'
  <2>1. /\ \A type \in {"destroyCell", "call"} :
              /\ Signal(type, e) \in Messages
              /\ ~ Claims(Signal(type, e), o)
        /\ cellCall[e] # NoCell => <<Base, cellCall[e]>> \in Links
      BY SignalType, BaseLinks DEF Claims, Signal, TypeInv, TypeOK
  <2>2. /\ NoClaim(net, o) => NoClaim(net', o)
        /\ OneClaim(net, o) => OneClaim(net', o)
    <3>1. CASE net' = net
        BY <3>1
    <3>2. ASSUME NEW r, NEW type \in {"destroyCell", "call"},
                 cellCall[e] # NoCell,
                 net' = Send(net, <<Base, cellCall[e]>>, Signal(type, e), r)
          PROVE  /\ NoClaim(net, o) => NoClaim(net', o)
                 /\ OneClaim(net, o) => OneClaim(net', o)
        BY <3>2, <2>1, <1>1, SendClaims
    <3>3. ASSUME NEW r1, NEW r2, cellCall[e] # NoCell,
                 net' = Send(Send(net, <<Base, cellCall[e]>>,
                                  Signal("destroyCell", e), r1),
                             <<Base, cellCall[e]>>,
                             Signal("destroyCell", e), r2)
          PROVE  /\ NoClaim(net, o) => NoClaim(net', o)
                 /\ OneClaim(net, o) => OneClaim(net', o)
      <4> DEFINE n == Send(net, <<Base, cellCall[e]>>,
                           Signal("destroyCell", e), r1)
      <4>1. /\ n \in Nets
            /\ NoClaim(net, o) => NoClaim(n, o)
            /\ OneClaim(net, o) => OneClaim(n, o)
          BY <3>3, <2>1, <1>1, SendType, SendClaims
      <4>2. net' = Send(n, <<Base, cellCall[e]>>, Signal("destroyCell", e), r2)
          BY <3>3
      <4> HIDE DEF n
      <4> QED
          BY <4>1, <4>2, <3>3, <2>1, SendClaims
    <3>4. CASE DestroyEntity(e)
        BY <3>4, <3>1, <3>2 DEF DestroyEntity
    <3>5. CASE LeaveWorld(e)
        BY <3>5, <3>2 DEF LeaveWorld
    <3>6. CASE ClientDisconnect(e)
        BY <3>6, <3>3 DEF ClientDisconnect
    <3>7. CASE CallCell(e)
        BY <3>7, <3>2 DEF CallCell
    <3> QED
        BY <1>4, <3>4, <3>5, <3>6, <3>7
  <2>3. body' = body /\ (baseState'[o] = "Unborn" => baseState[o] = "Unborn")
      BY <1>4, <1>1 DEF DestroyEntity, LeaveWorld, ClientDisconnect, CallCell,
                        CompleteBaseDestruction, cellVars, baseVars
  <2> QED
      BY <2>2, <2>3, <1>2, QuietStep
<1>5. ASSUME NEW c \in Cells, HandleCellReady(c) \/ HandleCellDestroyed(c)
      PROVE  Authority(o)'
  <2> DEFINE l == <<c, Base>>
  <2>1. l \in Links /\ net[l] # <<>> /\ net' = Pop(net, l)
      BY <1>5, BaseLinks DEF HandleCellReady, HandleCellDestroyed, Arrived
  <2>2. /\ NoClaim(net, o) => NoClaim(net', o)
        /\ OneClaim(net, o) => OneClaim(net', o)
      BY <2>1, <1>1, PopClaims
  <2>3. body' = body /\ (baseState'[o] = "Unborn" => baseState[o] = "Unborn")
      BY <1>5, <1>1 DEF HandleCellReady, HandleCellDestroyed,
                        CompleteBaseDestruction, cellVars
  <2> QED
      BY <2>2, <2>3, <1>2, QuietStep
<1>6. ASSUME NEW c \in Cells, HandleSpawnRequest(c)
      PROVE  Authority(o)'
  <2> DEFINE l == <<c, Base>>
             requester == Head(net[l]).e
             n == Pop(net, l)
  <2>1. l \in Links /\ net[l] # <<>>
      BY <1>6, BaseLinks DEF HandleSpawnRequest, Arrived
  <2>2. /\ n \in Nets /\ requester \in Entities
        /\ NoClaim(net, o) => NoClaim(n, o)
        /\ OneClaim(net, o) => OneClaim(n, o)
      BY <2>1, <1>1, PopType, PopClaims DEF Messages
  <2>3. cellCall[requester] # NoCell => <<Base, cellCall[requester]>> \in Links
      BY <2>2, BaseLinks DEF TypeInv, TypeOK
  <2>4. body' = body
      BY <1>6 DEF HandleSpawnRequest, cellVars
  <2>5. CASE net' = n /\ baseState' = baseState
      BY <2>5, <2>2, <2>4, <1>2, QuietStep
  <2>6. ASSUME NEW e \in Entities,
               baseState' = [baseState EXCEPT ![e] = "Gone"], net' = n
        PROVE  Authority(o)'
    <3>1. baseState'[o] = "Unborn" => baseState[o] = "Unborn"
        BY <2>6, <1>1
    <3> QED
        BY <3>1, <2>6, <2>2, <2>4, <1>2, QuietStep
  <2>7. ASSUME NEW e \in Entities, NEW r, baseState[e] = "Unborn",
               cellCall[requester] # NoCell,
               baseState' = [baseState EXCEPT ![e] = "Active"],
               net' = Send(n, <<Base, cellCall[requester]>>,
                           Signal("createCell", e), r)
        PROVE  Authority(o)'
    <3> HIDE DEF n
    <3>1. Signal("createCell", e) \in Messages
        BY SignalType
    <3>2. CASE o = e
      <4>1. NoClaim(n, o) /\ \A d \in Cells : body[d][o] # "Active"
          BY <1>2, <2>2, <2>7, <3>2 DEF Authority
      <4>2. OneClaim(net', o)
          BY <4>1, <3>1, <2>2, <2>3, <2>7, SendClaims
      <4>3. baseState'[o] = "Active"
          BY <2>7, <3>2, <1>1
      <4> QED
          BY <4>1, <4>2, <4>3, <2>4 DEF Authority, OneClaim
    <3>3. CASE o # e
      <4>1. ~ Claims(Signal("createCell", e), o)
          BY <3>3 DEF Claims, Signal
      <4>2. /\ NoClaim(n, o) => NoClaim(net', o)
            /\ OneClaim(n, o) => OneClaim(net', o)
          BY <4>1, <3>1, <2>2, <2>3, <2>7, SendClaims
      <4>3. baseState'[o] = baseState[o]
          BY <2>7, <3>3, <1>1
      <4> QED
          BY <4>2, <4>3, <2>2, <2>4, <1>2, QuietStep
    <3> QED
        BY <3>2, <3>3
  <2> QED
      BY <1>6, <2>5, <2>6, <2>7 DEF HandleSpawnRequest
<1>7. ASSUME NEW c \in Cells, NEW l \in Links, NEW e \in Entities, NEW n \in Nets,
             net[l] # <<>>, Claims(Head(net[l]), e),
             body' = [body EXCEPT ![c][e] = "Active"],
             baseState' = baseState,
             \A x \in Entities :
                /\ NoClaim(Pop(net, l), x) => NoClaim(n, x)
                /\ OneClaim(Pop(net, l), x) => OneClaim(n, x),
             net' = n
      PROVE  Authority(o)'
  <2>1. \A d \in Cells, x \in Entities :
           body'[d][x] = IF d = c /\ x = e THEN "Active" ELSE body[d][x]
      BY <1>7, <1>1, TableUpdate
  <2>2. CASE o = e
    <3>1. ~ NoClaim(net, o)
      <4>1. 1 \in DOMAIN net[l] /\ net[l][1] = Head(net[l])
          BY <1>7, <1>1, PopMessages
      <4> QED
          BY <4>1, <1>7, <2>2 DEF NoClaim, Absent, Claims, Of, ClaimTypes
    <3>2. \A d \in Cells : body[d][o] # "Active"
        BY <3>1, <1>2 DEF Authority
    <3>3. NoClaim(net', o)
      <4>1. NoClaim(Pop(net, l), o)
          BY <1>7, <1>2, <1>1, <2>2, PopClaims DEF Authority
      <4> QED
          BY <4>1, <1>7
    <3>4. baseState'[o] # "Unborn"
        BY <3>1, <1>7, <1>2 DEF Authority
    <3>5. \A d \in Cells : body'[d][o] = "Active" => d = c
        BY <2>1, <2>2, <3>2
    <3> QED
        BY <3>3, <3>4, <3>5 DEF Authority, NoClaim, OneClaim, Absent, AtMostOne
  <2>3. CASE o # e
    <3>1. /\ NoClaim(net, o) => NoClaim(net', o)
          /\ OneClaim(net, o) => OneClaim(net', o)
        BY <1>7, <1>1, PopClaims
    <3>2. \A d \in Cells : body'[d][o] = body[d][o]
        BY <2>1, <2>3
    <3> QED
        BY <3>1, <3>2, <1>7, <1>2, QuietStep
  <2> QED
      BY <2>2, <2>3
<1>8. ASSUME NEW c \in Cells, HandleCreateCell(c)
      PROVE  Authority(o)'
  <2> DEFINE l == <<Base, c>>
             e == Head(net[l]).e
  <2>1. /\ l \in Links /\ <<c, Base>> \in Links /\ net[l] # <<>>
        /\ baseState' = baseState
      BY <1>8, BaseLinks DEF HandleCreateCell, Arrived, baseVars
  <2>2. /\ Pop(net, l) \in Nets
        /\ Head(net[l]) \in Messages
        /\ \A x \in Entities : /\ NoClaim(net, x) => NoClaim(Pop(net, l), x)
                               /\ OneClaim(net, x) => OneClaim(Pop(net, l), x)
      BY <2>1, <1>1, PopType, PopClaims
  <2>3. e \in Entities /\ Claims(Head(net[l]), e)
      BY <1>8, <2>2 DEF HandleCreateCell, Arrived, Claims, Messages
  <2>4. CASE net' = Pop(net, l) /\ body' = body
      BY <2>4, <2>1, <2>2, <1>2, QuietStep
  <2>5. ASSUME NEW r, body' = [body EXCEPT ![c][e] = "Active"],
               net' = Send(Pop(net, l), <<c, Base>>, Signal("cellReady", e), r)
        PROVE  Authority(o)'
    <3> DEFINE n == Pop(net, l)
    <3>1. /\ Signal("cellReady", e) \in Messages
          /\ \A x \in Entities : ~ Claims(Signal("cellReady", e), x)
        BY <2>3, SignalType DEF Claims, Signal
    <3> HIDE DEF e
    <3>2. /\ net' \in Nets
          /\ \A x \in Entities : /\ NoClaim(n, x) => NoClaim(net', x)
                                 /\ OneClaim(n, x) => OneClaim(net', x)
      <4> HIDE DEF n
      <4>1. net' = Send(n, <<c, Base>>, Signal("cellReady", e), r)
          BY <2>5 DEF n
      <4>2. n \in Nets
          BY <2>2 DEF n
      <4> QED
          BY <4>1, <4>2, <3>1, <2>1, SendType, SendClaims
    <3> QED
        BY <3>2, <2>1, <2>3, <2>5, <1>7
  <2> QED
      BY <1>8, <2>4, <2>5 DEF HandleCreateCell
<1>9. ASSUME NEW c \in Cells, HandleDestroyCell(c)
      PROVE  Authority(o)'
  <2> DEFINE l == <<Base, c>>
             e == Head(net[l]).e
             n == Pop(net, l)
  <2>1. /\ l \in Links /\ <<c, Base>> \in Links /\ net[l] # <<>>
        /\ baseState' = baseState
      BY <1>9, BaseLinks DEF HandleDestroyCell, Arrived, baseVars
  <2>2. /\ n \in Nets
        /\ e \in Entities
        /\ NoClaim(net, o) => NoClaim(n, o)
        /\ OneClaim(net, o) => OneClaim(n, o)
      BY <2>1, <1>1, PopType, PopClaims DEF Messages
  <2>3. /\ Signal("cellDestroyed", e) \in Messages
        /\ ~ Claims(Signal("cellDestroyed", e), o)
      BY <2>2, SignalType DEF Claims, Signal
  <2>4. /\ NoClaim(n, o) => NoClaim(net', o)
        /\ OneClaim(n, o) => OneClaim(net', o)
    <3>1. net' = n \/ \E r : net' = Send(n, <<c, Base>>,
                                         Signal("cellDestroyed", e), r)
        BY <1>9 DEF HandleDestroyCell, TellDestroyed
    <3> HIDE DEF n, e
    <3> QED
        BY <3>1, <2>1, <2>2, <2>3, SendClaims
  <2>5. \A d \in Cells : body'[d][o] = "Active" => body[d][o] = "Active"
    <3>1. body' = body \/ body' = [body EXCEPT ![c][e] = "None"]
        BY <1>9 DEF HandleDestroyCell
    <3> HIDE DEF e
    <3>2. \A d \in Cells, x \in Entities :
             [body EXCEPT ![c][e] = "None"][d][x]
                 = IF d = c /\ x = e THEN "None" ELSE body[d][x]
        BY <2>2, <1>1, TableUpdate
    <3>3. CASE body' = [body EXCEPT ![c][e] = "None"]
      <4>1. \A d \in Cells : body'[d][o] = IF d = c /\ o = e THEN "None"
                                                      ELSE body[d][o]
          BY <3>2, <3>3
      <4> QED
          BY <4>1
    <3> QED
        BY <3>1, <3>3
  <2> QED
      BY <2>1, <2>2, <2>4, <2>5, <1>2, QuietStep
<1>10. ASSUME NEW c \in Cells, NEW t \in Cells, NEW e \in Entities,
             BeginMigration(c, t, e)
      PROVE  Authority(o)'
  <2>1. baseState' = baseState /\ t # c /\ body[c][e] = "Active"
      BY <1>10 DEF BeginMigration, baseVars
  <2>2. CASE net' = net /\ body' = body
      BY <2>1, <2>2, <1>2, QuietStep
  <2>3. CASE /\ epochs' = epochs + 1
             /\ net' = Push(net, <<c, t>>,
                            [type |-> "transfer", e |-> e,
                             epoch |-> epochs + 1, work |-> work[c][e]])
             /\ Leaving(c, e)
    <3> DEFINE m == [type |-> "transfer", e |-> e, epoch |-> epochs + 1,
                     work |-> work[c][e]]
    <3>1. m \in Messages
      <4>1. epochs + 1 \in 1 .. MaxMigrations /\ work[c][e] \in Nat
          BY <1>10, ConstantsAssumption DEF BeginMigration, TypeInv, TypeOK
      <4> QED
          BY <4>1 DEF Messages
    <3>2. <<c, t>> \in Links
        BY <2>1, LinkType DEF Processes
    <3>3. net' = Send(net, <<c, t>>, m, "Accepted")
        BY <2>3 DEF Send
    <3>4. \A d \in Cells, x \in Entities :
             body'[d][x] = IF d = c /\ x = e THEN "Migrating" ELSE body[d][x]
        BY <2>3, <1>1, TableUpdate DEF Leaving
    <3>5. CASE o = e
      <4>1. /\ NoClaim(net, o)
            /\ \A d \in Cells : body[d][o] = "Active" => d = c
            /\ baseState[o] # "Unborn"
          BY <2>1, <3>5, <1>2 DEF Authority
      <4>2. OneClaim(net', o)
        <5> HIDE DEF m
        <5> QED
            BY <4>1, <3>1, <3>2, <3>3, <1>1, SendClaims
      <4>3. \A d \in Cells : body'[d][o] # "Active"
          BY <4>1, <3>4, <3>5
      <4> QED
          BY <4>1, <4>2, <4>3, <2>1 DEF Authority, OneClaim
    <3>6. CASE o # e
      <4>1. ~ Claims(m, o)
          BY <3>6 DEF Claims
      <4>2. \A d \in Cells : body'[d][o] = body[d][o]
          BY <3>4, <3>6
      <4>3. /\ NoClaim(net, o) => NoClaim(net', o)
            /\ OneClaim(net, o) => OneClaim(net', o)
        <5> HIDE DEF m
        <5> QED
            BY <4>1, <3>1, <3>2, <3>3, <1>1, SendClaims
      <4> QED
          BY <4>2, <4>3, <2>1, <1>2, QuietStep
    <3> QED
        BY <3>5, <3>6
  <2> QED
      BY <1>10, <2>2, <2>3 DEF BeginMigration
<1>11. ASSUME NEW c \in Cells, NEW s \in Cells \ {c}, ApplyMigrationTransfer(s, c)
      PROVE  Authority(o)'
  <2> DEFINE l == <<s, c>>
             m == Head(net[l])
             n == Pop(net, l)
  <2>1. /\ l \in Links /\ <<c, s>> \in Links /\ <<c, Base>> \in Links
        /\ net[l] # <<>>
        /\ baseState' = baseState
      BY <1>11, LinkType, BaseLinks
      DEF ApplyMigrationTransfer, Arrived, Processes, baseVars
  <2>2. /\ n \in Nets
        /\ m \in Messages
        /\ \A x \in Entities : /\ NoClaim(net, x) => NoClaim(n, x)
                               /\ OneClaim(net, x) => OneClaim(n, x)
      BY <2>1, <1>1, PopType, PopClaims
  <2>3. /\ m.e \in Entities /\ Claims(m, m.e)
        /\ [type |-> "commit", e |-> m.e, epoch |-> m.epoch] \in Messages
        /\ Signal("cellReady", m.e) \in Messages
    <3>1. m.e \in Entities /\ m.type = "transfer"
          /\ m.epoch \in 1 .. MaxMigrations
        BY <1>11, <2>2 DEF ApplyMigrationTransfer, Arrived, Messages
    <3> HIDE DEF m
    <3> QED
        BY <3>1, SignalType DEF Claims, Messages
  <2>4. CASE net' = n /\ body' = body
      BY <2>4, <2>1, <2>2, <1>2, QuietStep
  <2>5. ASSUME NEW r1, NEW r2, body' = [body EXCEPT ![c][m.e] = "Active"],
               net' = Send(Send(n, <<c, Base>>, Signal("cellReady", m.e), r1),
                           <<c, s>>,
                           [type |-> "commit", e |-> m.e, epoch |-> m.epoch],
                           r2)
        PROVE  Authority(o)'
    <3> DEFINE n1 == Send(n, <<c, Base>>, Signal("cellReady", m.e), r1)
               reply == [type |-> "commit", e |-> m.e, epoch |-> m.epoch]
    <3>1. \A x \in Entities : /\ ~ Claims(Signal("cellReady", m.e), x)
                              /\ ~ Claims(reply, x)
        BY DEF Claims, Signal
    <3>2. /\ n1 \in Nets
          /\ \A x \in Entities : /\ NoClaim(n, x) => NoClaim(n1, x)
                                 /\ OneClaim(n, x) => OneClaim(n1, x)
      <4> HIDE DEF n, m
      <4> QED
          BY <3>1, <2>1, <2>2, <2>3, SendType, SendClaims
    <3>3. /\ net' \in Nets
          /\ \A x \in Entities : /\ NoClaim(n1, x) => NoClaim(net', x)
                                 /\ OneClaim(n1, x) => OneClaim(net', x)
      <4>1. net' = Send(n1, <<c, s>>, reply, r2) /\ reply \in Messages
          BY <2>3, <2>5
      <4> HIDE DEF n1, reply
      <4> QED
          BY <4>1, <3>1, <3>2, <2>1, SendType, SendClaims
    <3>4. \A x \in Entities : /\ NoClaim(Pop(net, l), x) => NoClaim(net', x)
                              /\ OneClaim(Pop(net, l), x) => OneClaim(net', x)
        BY <3>2, <3>3
    <3> HIDE DEF n1, reply
    <3> QED
        BY <3>3, <3>4, <2>1, <2>3, <2>5, <1>7
  <2> QED
      BY <1>11, <2>4, <2>5 DEF ApplyMigrationTransfer
<1>12. ASSUME NEW c \in Cells, NEW s \in Cells \ {c}, ApplyMigrationCommit(s, c)
       PROVE  Authority(o)'
  <2> DEFINE l == <<s, c>>
             m == Head(net[l])
  <2>1. l \in Links /\ net[l] # <<>> /\ net' = Pop(net, l) /\ baseState' = baseState
      BY <1>12, LinkType DEF ApplyMigrationCommit, Arrived, Processes, baseVars
  <2>2. /\ m \in Messages
        /\ NoClaim(net, o) => NoClaim(net', o)
        /\ OneClaim(net, o) => OneClaim(net', o)
      BY <2>1, <1>1, PopType, PopClaims
  <2>3. m.e \in Entities
      BY <2>2 DEF Messages
  <2>4. \A d \in Cells : body'[d][o] = "Active" => body[d][o] = "Active"
    <3>1. body' = body \/ body' = [body EXCEPT ![c][m.e] = "None"]
        BY <1>12 DEF ApplyMigrationCommit
    <3> HIDE DEF m
    <3>2. \A d \in Cells, x \in Entities :
             [body EXCEPT ![c][m.e] = "None"][d][x]
                 = IF d = c /\ x = m.e THEN "None" ELSE body[d][x]
        BY <2>3, <1>1, TableUpdate
    <3>3. CASE body' = [body EXCEPT ![c][m.e] = "None"]
      <4>1. \A d \in Cells : body'[d][o] = IF d = c /\ o = m.e THEN "None"
                                                      ELSE body[d][o]
          BY <3>2, <3>3
      <4> QED
          BY <4>1
    <3> QED
        BY <3>1, <3>3
  <2> QED
      BY <2>1, <2>2, <2>4, <1>2, QuietStep
<1>13. ASSUME NEW c \in Cells, NEW s \in Processes \ {c}, DispatchCall(s, c)
       PROVE  Authority(o)'
  <2> DEFINE l == <<s, c>>
             m == Head(net[l])
             n == Pop(net, l)
  <2>1. /\ l \in Links /\ net[l] # <<>> /\ body' = body /\ baseState' = baseState
      BY <1>13, LinkType DEF DispatchCall, Arrived, Processes, baseVars
  <2>2. /\ n \in Nets /\ m \in Messages /\ m.e \in Entities
        /\ NoClaim(net, o) => NoClaim(n, o)
        /\ OneClaim(net, o) => OneClaim(n, o)
      BY <2>1, <1>1, PopType, PopClaims DEF Messages
  <2>3. ~ Claims(m, o)
      BY <1>13 DEF DispatchCall, Arrived, Claims
  <2>4. CASE net' = n
      BY <2>4, <2>1, <2>2, <1>2, QuietStep
  <2>5. ASSUME InWindow(c, m.e), NEW r,
               net' = Send(n, <<c, migrationRoutes[c][m.e].target>>, m, r)
        PROVE  Authority(o)'
    <3>1. <<c, migrationRoutes[c][m.e].target>> \in Links
      <4>1. migrationRoutes[c][m.e].target \in Cells \ {c}
          BY <2>5, <2>2, <1>1 DEF InWindow, RoutesLeadAway, Routes
      <4> QED
          BY <4>1, LinkType DEF Processes
    <3> HIDE DEF n, m
    <3>2. /\ NoClaim(n, o) => NoClaim(net', o)
          /\ OneClaim(n, o) => OneClaim(net', o)
        BY <3>1, <2>2, <2>3, <2>5, SendClaims
    <3> QED
        BY <3>2, <2>1, <2>2, <1>2, QuietStep
  <2> QED
      BY <1>13, <2>4, <2>5 DEF DispatchCall
<1>14. ASSUME NEW c \in Cells, NEW e \in Entities,
              ExpireRoute(c, e) \/ ClearMigrationRoute(c, e)
       PROVE  Authority(o)'
    BY <1>14, <1>2, QuietStep DEF ExpireRoute, ClearMigrationRoute, baseVars
<1>15. ASSUME NEW c \in Cells, NEW e \in Entities, RequestSpawnEntity(c, e)
       PROVE  Authority(o)'
  <2>1. /\ <<c, Base>> \in Links /\ Signal("spawnRequest", e) \in Messages
        /\ ~ Claims(Signal("spawnRequest", e), o)
      BY BaseLinks, SignalType DEF Claims, Signal
  <2>2. /\ NoClaim(net, o) => NoClaim(net', o)
        /\ OneClaim(net, o) => OneClaim(net', o)
      BY <1>15, <2>1, <1>1, SendClaims DEF RequestSpawnEntity
  <2>3. body' = body /\ baseState' = baseState
      BY <1>15 DEF RequestSpawnEntity, baseVars, cellVars
  <2> QED
      BY <2>2, <2>3, <1>2, QuietStep
<1>16. CASE UNCHANGED vars
    BY <1>16, <1>2, QuietStep DEF vars, baseVars, cellVars
<1> QED
    BY <1>3, <1>4, <1>5, <1>6, <1>8, <1>9, <1>10, <1>11, <1>12, <1>13, <1>14,
       <1>15, <1>16
    DEF Next, Environment, Deliver

\* The inductive invariant is what the runs check.
LEMMA AuthorityIsSingle == AuthorityInv => SingleAuthority
BY DEF AuthorityInv, Authority, SingleAuthority, OneClaim, NoClaim, AtMostOne, Absent,
       Claims, Of, ClaimTypes, ClaimInFlight

\* Whatever the order of migrations, destructions, spawns, refused sends and
\* expired or cleared routes, and however many CellApps there are: an entity
\* has at most one authoritative cell body, counting the one that is still
\* inside a createCell or a migration snapshot.
THEOREM AuthorityStaysSingle == Spec => []SingleAuthority
<1>1. Init => TypeInv /\ AuthorityInv
    BY TypeInit, AuthorityInit
<1>2. TypeInv /\ AuthorityInv /\ [Next]_vars => (TypeInv /\ AuthorityInv)'
    BY TypeStep, AuthorityStep
<1> QED
    BY <1>1, <1>2, AuthorityIsSingle, PTL DEF Spec

-----------------------------------------------------------------------------
(* Base parts that wait for their destruction *)

\* An entity is registered as long as it is bound, and waits for its destruction
\* exactly while it is in pendingDestructions_.
Registry(e) ==
    /\ e \in pendingDestructions <=> baseState[e] = "Destroying"
    /\ cellCall[e] # NoCell => Registered(e)

RegistryInv == \A e \in Entities : Registry(e)

LEMMA RegistryInit == Init => RegistryInv
BY DEF Init, RegistryInv, Registry

\* The two outcomes of a step at the base: nothing about an entity changes, or
\* one entity is created, bound, unbound, doomed or destroyed.
LEMMA RegistryStep == TypeInv /\ RegistryInv /\ [Next]_vars => RegistryInv'
<1> SUFFICES ASSUME TypeInv, RegistryInv, [Next]_vars, NEW o \in Entities
             PROVE  Registry(o)'
    BY DEF RegistryInv
<1>1. /\ baseState \in [Entities -> {"Unborn", "Active", "Destroying", "Gone"}]
      /\ cellCall \in [Entities -> Cells \cup {NoCell}]
      /\ net \in Nets
    BY DEF TypeInv, TypeOK, Nets
<1>2. \A e \in Entities : Registry(e)
    BY DEF RegistryInv
<1>3. UNCHANGED baseVars => Registry(o)'
    BY <1>2 DEF baseVars, Registry, Registered
<1>4. ASSUME NEW s \in Processes, NEW d \in Processes, s # d, net[<<s, d>>] # <<>>
      PROVE  Head(net[<<s, d>>]).e \in Entities
    BY <1>4, <1>1, LinkType, PopType DEF Messages
<1>5. ASSUME NEW e \in Entities, NEW c \in Cells, EnterGame(e, c)
      PROVE  Registry(o)'
    BY <1>5, <1>1, <1>2 DEF EnterGame, Registry, Registered
<1>6. ASSUME NEW e \in Entities,
             DestroyEntity(e) \/ LeaveWorld(e) \/ ClientDisconnect(e) \/ CallCell(e)
      PROVE  Registry(o)'
    BY <1>6, <1>1, <1>2
    DEF DestroyEntity, LeaveWorld, ClientDisconnect, CallCell,
        CompleteBaseDestruction, Unbind, Registry, Registered, baseVars
<1>7. ASSUME NEW c \in Cells, HandleCellReady(c)
      PROVE  Registry(o)'
  <2> DEFINE e == Head(net[<<c, Base>>]).e
  <2>1. e \in Entities
      BY <1>7, <1>4, ConstantsAssumption DEF HandleCellReady, Arrived, Processes
  <2>2. /\ UNCHANGED <<baseState, pendingDestructions>>
        /\ IF Registered(e) THEN cellCall' = [cellCall EXCEPT ![e] = c]
                            ELSE UNCHANGED cellCall
      BY <1>7 DEF HandleCellReady, Bind
  <2> HIDE DEF e
  <2> QED
      BY <2>1, <2>2, <1>1, <1>2 DEF Registry, Registered
<1>8. ASSUME NEW c \in Cells, HandleCellDestroyed(c)
      PROVE  Registry(o)'
  <2> DEFINE e == Head(net[<<c, Base>>]).e
  <2>1. e \in Entities
      BY <1>8, <1>4, ConstantsAssumption DEF HandleCellDestroyed, Arrived, Processes
  <2>2. \/ CompleteBaseDestruction(e)
        \/ /\ UNCHANGED <<baseState, pendingDestructions>>
           /\ Unbind(e) \/ UNCHANGED cellCall
      BY <1>8 DEF HandleCellDestroyed
  <2> HIDE DEF e
  <2> QED
      BY <2>1, <2>2, <1>1, <1>2
      DEF CompleteBaseDestruction, Unbind, Registry, Registered
<1>9. ASSUME NEW c \in Cells, HandleSpawnRequest(c)
      PROVE  Registry(o)'
  <2>1. /\ UNCHANGED <<cellCall, pendingDestructions>>
        /\ \/ UNCHANGED baseState
           \/ \E e \in Entities : \E x \in {"Active", "Gone"} :
                 /\ baseState[e] = "Unborn"
                 /\ baseState' = [baseState EXCEPT ![e] = x]
      BY <1>9 DEF HandleSpawnRequest
  <2> QED
      BY <2>1, <1>1, <1>2 DEF Registry, Registered
<1>10. ASSUME NEW c \in Cells,
             \/ HandleCreateCell(c) \/ HandleDestroyCell(c)
             \/ \E s \in Processes : \/ ApplyMigrationTransfer(s, c)
                                     \/ ApplyMigrationCommit(s, c)
                                     \/ DispatchCall(s, c)
             \/ \E e \in Entities : \/ \E t \in Cells : BeginMigration(c, t, e)
                                    \/ ExpireRoute(c, e)
                                    \/ ClearMigrationRoute(c, e)
                                    \/ RequestSpawnEntity(c, e)
      PROVE  Registry(o)'
  <2>1. UNCHANGED baseVars
      BY <1>10 DEF HandleCreateCell, HandleDestroyCell, ApplyMigrationTransfer,
                  ApplyMigrationCommit, DispatchCall, BeginMigration, ExpireRoute,
                  ClearMigrationRoute, RequestSpawnEntity
  <2> QED
      BY <2>1, <1>3
<1>11. CASE UNCHANGED vars
    BY <1>11, <1>3 DEF vars
<1> QED
    BY <1>5, <1>6, <1>7, <1>8, <1>9, <1>10, <1>11
    DEF Next, Environment, Deliver, Processes

\* completeBaseDestruction never meets an id that is not registered: an id waits
\* in pendingDestructions_ exactly while its base part is being destroyed,
\* whatever migrates, is refused or answers twice.
THEOREM PendingStaysRegistered == Spec => []PendingIsRegistered
<1>1. Init => TypeInv /\ RegistryInv
    BY TypeInit, RegistryInit
<1>2. TypeInv /\ RegistryInv /\ [Next]_vars => (TypeInv /\ RegistryInv)'
    BY TypeStep, RegistryStep
<1>3. RegistryInv => PendingIsRegistered
    BY DEF RegistryInv, Registry, PendingIsRegistered
<1> QED
    BY <1>1, <1>2, <1>3, PTL DEF Spec

-----------------------------------------------------------------------------
(* Messages and their answers *)

\* Message m is queued on connection l of n.
Queued(n, l, m) == \E i \in DOMAIN n[l] : n[l][i] = m

\* On connection l of n, every a has a b behind it.
Followed(n, l, a, b) ==
    \A i \in DOMAIN n[l] : n[l][i] = a =>
        \E j \in DOMAIN n[l] : j > i /\ n[l][j] = b

\* Handling a message takes no other message away and no answer from what is
\* left; the answer to the message that is handled is among what is left.
LEMMA PopQueued ==
    ASSUME NEW n \in Nets, NEW l \in Links, n[l] # <<>>, NEW k \in Links,
           NEW a, NEW b
    PROVE  /\ Queued(n, k, a) /\ (k # l \/ Head(n[l]) # a) => Queued(Pop(n, l), k, a)
           /\ Followed(n, k, a, b) => Followed(Pop(n, l), k, a, b)
           /\ Followed(n, l, a, b) /\ Head(n[l]) = a => Queued(Pop(n, l), l, b)
<1> DEFINE s == n[l]
           t == Pop(n, l)[l]
<1>1. s \in Seq(Messages) /\ s # <<>> /\ t = Tail(s)
    BY DEF Nets, Pop
<1>2. \A h \in Links \ {l} : Pop(n, l)[h] = n[h]
    BY PopMessages
<1>3. /\ \A i \in DOMAIN s : i \in Nat \ {0} /\ (i # 1 => i - 1 \in DOMAIN t /\ t[i - 1] = s[i])
      /\ s[1] = Head(s) /\ 1 \in DOMAIN s
      /\ \A i \in DOMAIN t : i \in Nat \ {0} /\ i + 1 \in DOMAIN s /\ t[i] = s[i + 1]
  <2> HIDE DEF s, t
  <2> QED
      BY <1>1
<1> HIDE DEF s, t
<1>4. (\E i \in DOMAIN s : s[i] = a) /\ Head(s) # a => \E i \in DOMAIN t : t[i] = a
    BY <1>3
<1>5. ASSUME \A i \in DOMAIN s : s[i] = a => \E j \in DOMAIN s : j > i /\ s[j] = b
      PROVE  /\ \A i \in DOMAIN t : t[i] = a => \E j \in DOMAIN t : j > i /\ t[j] = b
             /\ Head(s) = a => \E j \in DOMAIN t : t[j] = b
  <2>1. ASSUME NEW i \in DOMAIN t, t[i] = a
        PROVE  \E j \in DOMAIN t : j > i /\ t[j] = b
    <3>1. i \in Nat /\ i + 1 \in DOMAIN s /\ s[i + 1] = a
        BY <2>1, <1>3
    <3>2. PICK j \in DOMAIN s : j > i + 1 /\ s[j] = b
        BY <3>1, <1>5
    <3>3. j \in Nat \ {0} /\ j # 1 /\ j - 1 > i
        BY <3>1, <3>2, <1>3
    <3> QED
        BY <3>2, <3>3, <1>3
  <2>2. ASSUME Head(s) = a
        PROVE  \E j \in DOMAIN t : t[j] = b
    <3>1. PICK j \in DOMAIN s : j > 1 /\ s[j] = b
        BY <2>2, <1>3, <1>5
    <3> QED
        BY <3>1, <1>3
  <2> QED
      BY <2>1, <2>2
<1>6. CASE k = l
    BY <1>4, <1>5, <1>6 DEF Queued, Followed, s, t
<1>7. CASE k # l
    BY <1>2, <1>5, <1>7 DEF Queued, Followed, s, t
<1> QED
    BY <1>6, <1>7

\* Sending a message takes none away, and answers all there is when it is the
\* answer.
LEMMA PushQueued ==
    ASSUME NEW n \in Nets, NEW l \in Links, NEW m \in Messages, NEW k \in Links,
           NEW a, NEW b
    PROVE  /\ Queued(n, k, a) => Queued(Push(n, l, m), k, a)
           /\ Queued(Push(n, l, m), l, m)
           /\ Followed(n, k, a, b) /\ (k # l \/ m # a) => Followed(Push(n, l, m), k, a, b)
           /\ m # a => Followed(Push(n, l, m), l, a, m)
<1> DEFINE s == n[l]
           t == Push(n, l, m)[l]
<1>1. s \in Seq(Messages) /\ t = Append(s, m)
    BY DEF Nets, Push
<1>2. \A h \in Links \ {l} : Push(n, l, m)[h] = n[h]
    BY PushMessages
<1>3. /\ \A i \in DOMAIN s : i \in DOMAIN t /\ t[i] = s[i] /\ i < Len(s) + 1
      /\ Len(s) + 1 \in DOMAIN t /\ t[Len(s) + 1] = m
      /\ \A i \in DOMAIN t : i \in DOMAIN s \/ i = Len(s) + 1
  <2> HIDE DEF s, t
  <2> QED
      BY <1>1
<1> HIDE DEF s, t
<1>4. CASE k = l
    BY <1>3, <1>4 DEF Queued, Followed, s, t
<1>5. CASE k # l
    BY <1>2, <1>3, <1>5 DEF Queued, Followed, s, t
<1> QED
    BY <1>4, <1>5

\* A message without data is what Signal builds.
LEMMA HeadSignal ==
    ASSUME NEW m \in Messages,
           m.type \in {"createCell", "destroyCell", "cellReady",
                       "cellDestroyed", "spawnRequest", "call"}
    PROVE  m.e \in Entities /\ m = Signal(m.type, m.e)
<1>1. m \in [type : {"createCell", "destroyCell", "cellReady", "cellDestroyed",
                     "spawnRequest", "call"}, e : Entities]
    BY DEF Messages
<1> QED
    BY <1>1 DEF Signal

-----------------------------------------------------------------------------
(* The base and its cell part, until something migrates or is refused *)

\* What makes the base learn of a cell part: the request to create it, or the
\* answer.
Births == {"createCell", "cellReady"}

Ready(e)     == Signal("cellReady", e)
Destroyed(e) == Signal("cellDestroyed", e)
Request(e)   == Signal("destroyCell", e)

\* Nothing has migrated and no send was refused so far.
Undisturbed == epochs = 0 /\ used["refusals"] = 0

\* The inductive invariant for one entity: its cell part is asked for and
\* reported once, the report and the binding are of a CellApp that hosts it or
\* has sent the news of its end, and a base part that waits is answered.
Attended(e) ==
    /\ AtMostOne(Births, net, e)
    /\ baseState[e] = "Unborn" \/ cellCall[e] # NoCell => Absent(Births, net, e)
    /\ \A c \in Cells :
          Hosts(c, e) \/ Followed(net, <<c, Base>>, Ready(e), Destroyed(e))
    /\ cellCall[e] # NoCell =>
          Hosts(cellCall[e], e) \/ Queued(net, <<cellCall[e], Base>>, Destroyed(e))
    /\ e \in pendingDestructions =>
          /\ cellCall[e] # NoCell
          /\ \/ Queued(net, <<cellCall[e], Base>>, Destroyed(e))
             \/ /\ Hosts(cellCall[e], e)
                /\ Queued(net, <<Base, cellCall[e]>>, Request(e))

\* Snapshots and commits are there only after an epoch was used.
EpochUsed(n) ==
    \A l \in Links : \A i \in DOMAIN n[l] :
        n[l][i].type \in {"transfer", "commit"} => epochs # 0

AttendedInv ==
    /\ EpochUsed(net)
    /\ Undisturbed => \A e \in Entities : Attended(e)

\* What the connections say about e is still said in n2.
Keeps(n, n2, e) ==
    /\ AtMostOne(Births, n, e) => AtMostOne(Births, n2, e)
    /\ Absent(Births, n, e) => Absent(Births, n2, e)
    /\ \A c \in Cells :
          /\ Queued(n, <<c, Base>>, Destroyed(e)) => Queued(n2, <<c, Base>>, Destroyed(e))
          /\ Queued(n, <<Base, c>>, Request(e)) => Queued(n2, <<Base, c>>, Request(e))
          /\ Followed(n, <<c, Base>>, Ready(e), Destroyed(e))
                => Followed(n2, <<c, Base>>, Ready(e), Destroyed(e))

LEMMA PopKeeps ==
    ASSUME NEW n \in Nets, NEW l \in Links, n[l] # <<>>, NEW e \in Entities,
           Head(n[l]) # Destroyed(e), Head(n[l]) # Request(e)
    PROVE  Keeps(n, Pop(n, l), e)
<1>1. \A c \in Cells : <<c, Base>> \in Links /\ <<Base, c>> \in Links
    BY BaseLinks
<1> QED
    BY <1>1, PopQueued, PopOf DEF Keeps

LEMMA PushKeeps ==
    ASSUME NEW n \in Nets, NEW l \in Links, NEW m \in Messages, NEW e \in Entities,
           ~ Of(Births, m, e)
    PROVE  Keeps(n, Push(n, l, m), e)
<1>1. \A c \in Cells : <<c, Base>> \in Links /\ <<Base, c>> \in Links
    BY BaseLinks
<1>2. m # Ready(e)
    BY DEF Of, Births, Ready, Signal
<1>3. Push(n, l, m) = Send(n, l, m, "Accepted")
    BY DEF Send
<1>4. /\ AtMostOne(Births, n, e) => AtMostOne(Births, Push(n, l, m), e)
      /\ Absent(Births, n, e) => Absent(Births, Push(n, l, m), e)
    BY <1>3, SendOf
<1> QED
    BY <1>1, <1>2, <1>4, PushQueued DEF Keeps

LEMMA KeepsOn ==
    ASSUME NEW n1, NEW n2, NEW n3, NEW e, Keeps(n1, n2, e), Keeps(n2, n3, e)
    PROVE  Keeps(n1, n3, e)
BY DEF Keeps

\* A step that changes nothing about e but what more is said of it.
LEMMA AttendedFrame ==
    ASSUME TypeInv, NEW e \in Entities, Attended(e), Keeps(net, net', e),
           cellCall'[e] = cellCall[e],
           \A c \in Cells : Hosts(c, e)' <=> Hosts(c, e),
           e \in pendingDestructions' <=> e \in pendingDestructions,
           baseState'[e] = "Unborn" => baseState[e] = "Unborn"
    PROVE  Attended(e)'
<1>1. cellCall[e] \in Cells \cup {NoCell}
    BY DEF TypeInv, TypeOK
<1> DEFINE c == cellCall[e]
<1>2. c # NoCell => c \in Cells
    BY <1>1
<1>3. Attended(e)' <=>
        /\ AtMostOne(Births, net', e)
        /\ baseState'[e] = "Unborn" \/ c # NoCell => Absent(Births, net', e)
        /\ \A d \in Cells :
              Hosts(d, e)' \/ Followed(net', <<d, Base>>, Ready(e), Destroyed(e))
        /\ c # NoCell => Hosts(c, e)' \/ Queued(net', <<c, Base>>, Destroyed(e))
        /\ e \in pendingDestructions' =>
              /\ c # NoCell
              /\ \/ Queued(net', <<c, Base>>, Destroyed(e))
                 \/ Hosts(c, e)' /\ Queued(net', <<Base, c>>, Request(e))
    BY DEF Attended, AtMostOne, Absent, Of, Hosts, Queued, Followed, Ready,
           Destroyed, Request, Signal
<1> QED
    BY <1>2, <1>3 DEF Attended, Keeps

LEMMA AttendedInit == Init => AttendedInv
<1> SUFFICES ASSUME Init PROVE AttendedInv
    OBVIOUS
<1>1. \A l \in Links : net[l] = << >>
    BY DEF Init
<1>2. \A c \in Cells : <<c, Base>> \in Links
    BY BaseLinks
<1>3. \A e \in Entities : /\ AtMostOne(Births, net, e) /\ Absent(Births, net, e)
                          /\ \A c \in Cells :
                                Followed(net, <<c, Base>>, Ready(e), Destroyed(e))
    BY <1>1, <1>2 DEF AtMostOne, Absent, Followed
<1> QED
    BY <1>1, <1>3 DEF Init, AttendedInv, Attended, EpochUsed

\* Snapshots and commits stay accounted for: the game layer and the handlers
\* send none but in an epoch, and answer a snapshot with its commit.
LEMMA EpochUsedStep ==
    ASSUME NEW n \in Nets, NEW l \in Links, NEW m \in Messages, NEW r, EpochUsed(n)
    PROVE  /\ n[l] # <<>> => EpochUsed(Pop(n, l))
           /\ n[l] # <<>> /\ Head(n[l]).type \in {"transfer", "commit"} => epochs # 0
           /\ m.type \notin {"transfer", "commit"} \/ epochs # 0 => EpochUsed(Send(n, l, m, r))
<1>1. n[l] # <<>> => EpochUsed(Pop(n, l))
    BY PopMessages DEF EpochUsed
<1>2. n[l] # <<>> /\ Head(n[l]).type \in {"transfer", "commit"} => epochs # 0
    BY PopMessages DEF EpochUsed
<1>3. m.type \notin {"transfer", "commit"} \/ epochs # 0 => EpochUsed(Push(n, l, m))
    BY PushMessages DEF EpochUsed
<1> QED
    BY <1>1, <1>2, <1>3 DEF Send

LEMMA EpochUsedKept == TypeInv /\ EpochUsed(net) /\ [Next]_vars => EpochUsed(net)'
<1> SUFFICES ASSUME TypeInv, EpochUsed(net), [Next]_vars
             PROVE  EpochUsed(net)'
    OBVIOUS
<1>1. /\ net \in Nets
      /\ epochs \in Nat
    BY ConstantsAssumption DEF TypeInv, TypeOK, Nets
<1>2. \A type, e : type \notin {"transfer", "commit"} =>
         Signal(type, e).type \notin {"transfer", "commit"}
    BY DEF Signal
<1>3. ASSUME NEW n \in Nets, EpochUsed(n), NEW l \in Links, NEW e \in Entities, NEW r,
             NEW type \in {"createCell", "destroyCell", "cellReady", "cellDestroyed",
                           "spawnRequest", "call"}
      PROVE  Send(n, l, Signal(type, e), r) \in Nets /\ EpochUsed(Send(n, l, Signal(type, e), r))
  <2>1. Signal(type, e) \in Messages
      BY SignalType
  <2>2. Signal(type, e).type \notin {"transfer", "commit"}
      BY <1>2
  <2> QED
      BY <2>1, <2>2, <1>3, SendType, EpochUsedStep
<1>4. ASSUME NEW s \in Processes, NEW d \in Processes, s # d, net[<<s, d>>] # <<>>
      PROVE  /\ <<s, d>> \in Links
             /\ Head(net[<<s, d>>]) \in Messages /\ Head(net[<<s, d>>]).e \in Entities
             /\ Pop(net, <<s, d>>) \in Nets /\ EpochUsed(Pop(net, <<s, d>>))
             /\ Head(net[<<s, d>>]).type \in {"transfer", "commit"} => epochs # 0
  <2>1. <<s, d>> \in Links
      BY <1>4, LinkType
  <2>2. Head(net[<<s, d>>]) \in Messages
      BY <2>1, <1>4, <1>1, PopType
  <2> QED
      BY <2>1, <2>2, <1>4, <1>1, PopType, EpochUsedStep DEF Messages
<1>5. \A c \in Cells : /\ c \in Processes /\ Base \in Processes /\ c # Base
                       /\ <<Base, c>> \in Links /\ <<c, Base>> \in Links
    BY BaseLinks, ConstantsAssumption DEF Processes
<1>6. \A e \in Entities : cellCall[e] # NoCell => cellCall[e] \in Cells
    BY DEF TypeInv, TypeOK
<1>7. EpochUsed(net') /\ UNCHANGED epochs => EpochUsed(net)'
    BY DEF EpochUsed
<1>8. ASSUME NEW e \in Entities,
             \/ \E c \in Cells : EnterGame(e, c)
             \/ DestroyEntity(e) \/ LeaveWorld(e) \/ CallCell(e)
      PROVE  EpochUsed(net)'
  <2>1. UNCHANGED epochs
      BY <1>8 DEF EnterGame, DestroyEntity, LeaveWorld, CallCell
  <2>2. ASSUME NEW c \in Cells, NEW r, NEW type \in {"createCell", "destroyCell", "call"},
               net' = Send(net, <<Base, c>>, Signal(type, e), r)
        PROVE  EpochUsed(net)'
      BY <2>1, <2>2, <1>5, <1>7, <1>3, <1>1
  <2>3. CASE \E c \in Cells : EnterGame(e, c)
      BY <2>2, <2>3 DEF EnterGame
  <2>4. CASE DestroyEntity(e) /\ cellCall[e] # NoCell
      BY <2>2, <2>4, <1>6 DEF DestroyEntity
  <2>5. CASE DestroyEntity(e) /\ cellCall[e] = NoCell
      BY <2>1, <2>5, <1>7 DEF DestroyEntity
  <2>6. CASE LeaveWorld(e)
      BY <2>2, <2>6, <1>6 DEF LeaveWorld
  <2>7. CASE CallCell(e)
      BY <2>2, <2>7, <1>6 DEF CallCell
  <2> QED
      BY <1>8, <2>3, <2>4, <2>5, <2>6, <2>7
<1>9. ASSUME NEW e \in Entities, ClientDisconnect(e)
      PROVE  EpochUsed(net)'
  <2>1. PICK c \in Cells :
           \E r1, r2 : net' = Send(Send(net, <<Base, c>>, Signal("destroyCell", e), r1),
                                  <<Base, c>>, Signal("destroyCell", e), r2)
      BY <1>9, <1>6 DEF ClientDisconnect
  <2>2. PICK r1, r2 : net' = Send(Send(net, <<Base, c>>, Signal("destroyCell", e), r1),
                                  <<Base, c>>, Signal("destroyCell", e), r2)
      BY <2>1
  <2> DEFINE n == Send(net, <<Base, c>>, Signal("destroyCell", e), r1)
  <2>3. n \in Nets /\ EpochUsed(n)
      BY <1>5, <1>3, <1>1
  <2>4. EpochUsed(net')
    <3> HIDE DEF n
    <3>1. net' = Send(n, <<Base, c>>, Signal("destroyCell", e), r2)
        BY <2>2 DEF n
    <3> QED
        BY <3>1, <2>3, <1>5, <1>3
  <2> QED
      BY <1>9, <2>4, <1>7 DEF ClientDisconnect
<1>10. ASSUME NEW c \in Cells, HandleCellReady(c) \/ HandleCellDestroyed(c)
      PROVE  EpochUsed(net)'
  <2>1. net[<<c, Base>>] # <<>> /\ net' = Pop(net, <<c, Base>>) /\ UNCHANGED epochs
      BY <1>10 DEF HandleCellReady, HandleCellDestroyed, Arrived
  <2> QED
      BY <2>1, <1>5, <1>7, <1>4
<1>11. ASSUME NEW c \in Cells, HandleSpawnRequest(c)
      PROVE  EpochUsed(net)'
  <2> DEFINE n == Pop(net, <<c, Base>>)
             requester == Head(net[<<c, Base>>]).e
  <2>1. net[<<c, Base>>] # <<>> /\ UNCHANGED epochs
      BY <1>11 DEF HandleSpawnRequest, Arrived
  <2>2. n \in Nets /\ EpochUsed(n) /\ requester \in Entities
      BY <2>1, <1>5, <1>4
  <2>3. net' = n \/ \E d \in Cells, e \in Entities : \E r :
                       net' = Send(n, <<Base, d>>, Signal("createCell", e), r)
      BY <1>11, <2>2, <1>6 DEF HandleSpawnRequest
  <2> HIDE DEF n, requester
  <2> QED
      BY <2>1, <2>2, <2>3, <1>5, <1>7, <1>3
<1>12. ASSUME NEW c \in Cells, HandleCreateCell(c) \/ HandleDestroyCell(c)
      PROVE  EpochUsed(net)'
  <2> DEFINE n == Pop(net, <<Base, c>>)
             e == Head(net[<<Base, c>>]).e
  <2>1. net[<<Base, c>>] # <<>> /\ UNCHANGED epochs
      BY <1>12 DEF HandleCreateCell, HandleDestroyCell, Arrived
  <2>2. n \in Nets /\ EpochUsed(n) /\ e \in Entities
      BY <2>1, <1>5, <1>4
  <2>3. \/ net' = n
        \/ \E r : net' = Send(n, <<c, Base>>, Signal("cellReady", e), r)
        \/ \E r : net' = Send(n, <<c, Base>>, Signal("cellDestroyed", e), r)
      BY <1>12 DEF HandleCreateCell, HandleDestroyCell, TellDestroyed
  <2> HIDE DEF n, e
  <2> QED
      BY <2>1, <2>2, <2>3, <1>5, <1>7, <1>3
<1>13. ASSUME NEW c \in Cells, NEW t \in Cells, NEW e \in Entities, BeginMigration(c, t, e)
      PROVE  EpochUsed(net)'
  <2>1. CASE UNCHANGED <<epochs, net>>
      BY <2>1, <1>7
  <2>2. CASE epochs' = epochs + 1
      BY <2>2, <1>1 DEF EpochUsed
  <2> QED
      BY <1>13, <2>1, <2>2 DEF BeginMigration
<1>14. ASSUME NEW c \in Cells, NEW s \in Cells \ {c},
             ApplyMigrationTransfer(s, c) \/ ApplyMigrationCommit(s, c)
      PROVE  EpochUsed(net)'
  <2>1. /\ net[<<s, c>>] # <<>> /\ Head(net[<<s, c>>]).type \in {"transfer", "commit"}
        /\ UNCHANGED epochs
      BY <1>14 DEF ApplyMigrationTransfer, ApplyMigrationCommit, Arrived
  <2>2. epochs # 0
      BY <2>1, <1>5, <1>4
  <2> QED
      BY <2>1, <2>2 DEF EpochUsed
<1>15. ASSUME NEW c \in Cells, NEW s \in Processes \ {c}, DispatchCall(s, c)
      PROVE  EpochUsed(net)'
  <2> DEFINE m == Head(net[<<s, c>>])
             n == Pop(net, <<s, c>>)
  <2>1. net[<<s, c>>] # <<>> /\ UNCHANGED epochs /\ m.type = "call"
      BY <1>15 DEF DispatchCall, Arrived
  <2>2. n \in Nets /\ EpochUsed(n) /\ m.e \in Entities /\ m \in Messages
      BY <2>1, <1>5, <1>4
  <2>3. m = Signal("call", m.e)
      BY <2>1, <2>2, HeadSignal
  <2>4. CASE net' = n
      BY <2>1, <2>2, <2>4, <1>7
  <2>5. ASSUME InWindow(c, m.e), NEW r,
               net' = Send(n, <<c, migrationRoutes[c][m.e].target>>, m, r)
        PROVE  EpochUsed(net)'
    <3>1. <<c, migrationRoutes[c][m.e].target>> \in Links
      <4>1. migrationRoutes[c][m.e].target \in Cells \ {c}
          BY <2>5, <2>2 DEF InWindow, RoutesLeadAway, Routes, TypeInv, TypeOK
      <4> QED
          BY <4>1, LinkType DEF Processes
    <3> DEFINE k == <<c, migrationRoutes[c][m.e].target>>
               o == m.e
    <3>2. net' = Send(n, k, Signal("call", o), r) /\ k \in Links /\ o \in Entities
        BY <2>2, <2>3, <2>5, <3>1
    <3> HIDE DEF n, k, o, m
    <3> QED
        BY <3>2, <2>1, <2>2, <1>7, <1>3
  <2> QED
      BY <1>15, <2>4, <2>5 DEF DispatchCall
<1>16. ASSUME NEW c \in Cells, NEW e \in Entities, RequestSpawnEntity(c, e)
      PROVE  EpochUsed(net)'
  <2>1. \E r : net' = Send(net, <<c, Base>>, Signal("spawnRequest", e), r)
      BY <1>16 DEF RequestSpawnEntity
  <2>2. UNCHANGED epochs
      BY <1>16 DEF RequestSpawnEntity
  <2> QED
      BY <2>1, <2>2, <1>5, <1>7, <1>3, <1>1
<1>17. ASSUME UNCHANGED <<net, epochs>>
       PROVE  EpochUsed(net)'
    BY <1>17, <1>7
<1> QED
    BY <1>8, <1>9, <1>10, <1>11, <1>12, <1>13, <1>14, <1>15, <1>16, <1>17
    DEF Next, Environment, Deliver, ExpireRoute, ClearMigrationRoute, vars

\* Attended(e)' with the values of the next state made explicit.
LEMMA AttendedNext ==
    ASSUME NEW e \in Entities, NEW n, n = net', NEW a, a = cellCall'[e],
           AtMostOne(Births, n, e),
           baseState'[e] = "Unborn" \/ a # NoCell => Absent(Births, n, e),
           \A c \in Cells : body'[c][e] # "None"
                              \/ Followed(n, <<c, Base>>, Ready(e), Destroyed(e)),
           a # NoCell => body'[a][e] # "None" \/ Queued(n, <<a, Base>>, Destroyed(e)),
           e \in pendingDestructions' =>
              /\ a # NoCell
              /\ \/ Queued(n, <<a, Base>>, Destroyed(e))
                 \/ body'[a][e] # "None" /\ Queued(n, <<Base, a>>, Request(e))
    PROVE  Attended(e)'
<1>1. n = net' /\ a = cellCall'[e]
    OBVIOUS
<1> QED
    BY <1>1 DEF Attended, AtMostOne, Absent, Of, Hosts, Queued, Followed, Ready,
                Destroyed, Request, Signal

LEMMA AttendedStep ==
    TypeInv /\ RegistryInv /\ AttendedInv /\ [Next]_vars => AttendedInv'
<1> SUFFICES ASSUME TypeInv, RegistryInv, AttendedInv, [Next]_vars, Undisturbed',
                    NEW o \in Entities
             PROVE  Attended(o)'
    BY EpochUsedKept DEF AttendedInv
<1> DEFINE Uses == [{"calls", "lapses", "refusals", "spawns"} -> Nat]
<1>1. /\ net \in Nets /\ used \in Uses /\ epochs \in Nat
      /\ body \in [Cells -> [Entities -> {"None", "Active", "Migrating"}]]
      /\ baseState \in [Entities -> {"Unborn", "Active", "Destroying", "Gone"}]
      /\ cellCall \in [Entities -> Cells \cup {NoCell}]
      /\ NoCell \notin Cells
    BY ConstantsAssumption DEF TypeInv, TypeOK, Nets
<1>2. used'["refusals"] = 0 /\ epochs' = 0
    BY DEF Undisturbed
<1>3. \A c \in Cells : /\ c \in Processes /\ Base \in Processes /\ c # Base
                       /\ <<Base, c>> \in Links /\ <<c, Base>> \in Links
    BY BaseLinks, ConstantsAssumption DEF Processes
<1>4. Registry(o)
    BY DEF RegistryInv
<1>5. Undisturbed => Attended(o)
    BY DEF AttendedInv
<1>6. \A type, e : Of(Births, Signal(type, e), o) <=> e = o /\ type \in Births
    BY DEF Of, Signal
<1>7. \A type1, type2, e1, e2 :
         Signal(type1, e1) = Signal(type2, e2) <=> type1 = type2 /\ e1 = e2
    BY DEF Signal
<1>8. ASSUME NEW what, NEW r \in SendResults,
             used' = Charge(used, r) \/ used' = Charge(Spend(used, "calls"), r)
                \/ used' = Charge(Spend(used, "spawns"), r),
             UNCHANGED epochs
      PROVE  r = "Accepted" /\ Undisturbed
    BY <1>8, <1>1, <1>2 DEF SendResults, Charge, Spend, Undisturbed
<1>9. ASSUME NEW l \in Links, net[l] # <<>>, NEW type, NEW e,
             Head(net[l]) = Signal(type, e),
             e # o \/ type \notin {"cellDestroyed", "destroyCell"}
      PROVE  Pop(net, l) \in Nets /\ Keeps(net, Pop(net, l), o)
  <2>1. Head(net[l]) # Destroyed(o) /\ Head(net[l]) # Request(o)
      BY <1>9, <1>7 DEF Destroyed, Request
  <2> QED
      BY <2>1, <1>9, <1>1, PopType, PopKeeps
<1>10. ASSUME NEW n \in Nets, NEW l \in Links, NEW e \in Entities,
             NEW type \in {"createCell", "destroyCell", "cellReady", "cellDestroyed",
                           "spawnRequest", "call"},
             e # o \/ type \notin Births
      PROVE  Push(n, l, Signal(type, e)) \in Nets /\ Keeps(n, Push(n, l, Signal(type, e)), o)
  <2>1. Signal(type, e) \in Messages /\ ~ Of(Births, Signal(type, e), o)
      BY <1>10, <1>6, SignalType
  <2> QED
      BY <2>1, SendType, PushKeeps
<1>11. ASSUME NEW e \in Entities, NEW c \in Cells, EnterGame(e, c)
      PROVE  Attended(o)'
  <2> DEFINE m == Signal("createCell", e)
  <2>1. /\ net' = Push(net, <<Base, c>>, m)
        /\ Undisturbed
        /\ baseState[e] = "Unborn" /\ baseState' = [baseState EXCEPT ![e] = "Active"]
        /\ UNCHANGED <<cellCall, pendingDestructions, body>>
      BY <1>11, <1>8 DEF EnterGame, Send, cellVars
  <2>2. m \in Messages
      BY SignalType
  <2>3. CASE o # e
    <3>1. Keeps(net, net', o)
        BY <2>1, <2>3, <1>3, <1>10, <1>1
    <3> QED
        BY <3>1, <2>1, <2>3, <1>5, <1>1, AttendedFrame DEF Hosts
  <2>4. CASE o = e
    <3>1. cellCall[o] = NoCell /\ o \notin pendingDestructions
        BY <2>1, <2>4, <1>4 DEF Registry, Registered
    <3>2. AtMostOne(Births, net', o)
        BY <2>1, <2>2, <2>4, <1>5, <1>3, <1>1, SendOf DEF Attended, Send
    <3>3. \A d \in Cells :
             Hosts(d, o) \/ Followed(net', <<d, Base>>, Ready(o), Destroyed(o))
        BY <2>1, <2>2, <1>5, <1>3, <1>1, PushQueued DEF Attended
    <3> QED
        BY <3>1, <3>2, <3>3, <2>1, <2>4, <1>1, AttendedNext DEF Hosts
  <2> QED
      BY <2>3, <2>4
<1>12. ASSUME NEW e \in Entities, DestroyEntity(e)
      PROVE  Attended(o)'
  <2>1. CASE cellCall[e] = NoCell
    <3>1. /\ CompleteBaseDestruction(e) /\ Undisturbed
          /\ UNCHANGED <<net, body>>
        BY <1>12, <2>1, <1>2 DEF DestroyEntity, cellVars, Undisturbed
    <3>2. Keeps(net, net', o)
        BY <3>1 DEF Keeps
    <3>3. Registered(e)
        BY <1>12 DEF DestroyEntity
    <3>4. CASE o # e
        BY <3>1, <3>2, <3>4, <1>5, <1>1, AttendedFrame
        DEF Hosts, CompleteBaseDestruction, Unbind
    <3>5. CASE o = e
        BY <3>1, <3>5, <1>5, <1>1, AttendedNext
        DEF Hosts, CompleteBaseDestruction, Unbind, Attended
    <3> QED
        BY <3>4, <3>5
  <2>2. CASE cellCall[e] # NoCell
    <3> DEFINE c == cellCall[e]
               m == Signal("destroyCell", e)
    <3>1. /\ net' = Push(net, <<Base, c>>, m)
          /\ Undisturbed
          /\ baseState' = [baseState EXCEPT ![e] = "Destroying"]
          /\ pendingDestructions' = pendingDestructions \cup {e}
          /\ UNCHANGED <<cellCall, body>>
        BY <1>12, <2>2, <1>8 DEF DestroyEntity, Send, cellVars
    <3>2. c \in Cells /\ m \in Messages /\ ~ Of(Births, m, o)
        BY <2>2, <1>1, <1>6, SignalType DEF Births
    <3>3. Keeps(net, net', o)
        BY <3>1, <3>2, <1>3, <1>1, PushKeeps
    <3>4. CASE o # e
        BY <3>1, <3>3, <3>4, <1>5, <1>1, AttendedFrame DEF Hosts
    <3>5. CASE o = e
      <4>1. Queued(net', <<Base, c>>, Request(o))
          BY <3>1, <3>2, <3>5, <1>3, <1>1, PushQueued DEF Request
      <4> HIDE DEF c
      <4>2. c = cellCall'[o] /\ c # NoCell
          BY <2>2, <3>1, <3>5 DEF c
      <4>3. Attended(o) /\ c = cellCall[o]
          BY <3>1, <3>5, <1>5 DEF c
      <4> QED
          BY <4>1, <4>2, <4>3, <3>1, <3>2, <3>3, <3>5, <1>1, AttendedNext
          DEF Hosts, Attended, Keeps
    <3> QED
        BY <3>4, <3>5
  <2> QED
      BY <2>1, <2>2
<1>13. ASSUME NEW e \in Entities, LeaveWorld(e) \/ CallCell(e)
      PROVE  Attended(o)'
  <2> DEFINE c == cellCall[e]
  <2>1. /\ Undisturbed
        /\ \/ net' = Push(net, <<Base, c>>, Signal("destroyCell", e))
           \/ net' = Push(net, <<Base, c>>, Signal("call", e))
      BY <1>13, <1>8 DEF LeaveWorld, CallCell, Send
  <2>2. /\ c \in Cells
        /\ UNCHANGED <<cellCall, body, baseState, pendingDestructions>>
      BY <1>13, <1>1 DEF LeaveWorld, CallCell, baseVars, cellVars
  <2>3. Keeps(net, net', o)
    <3>1. <<Base, c>> \in Links
        BY <2>2, <1>3
    <3>2. CASE net' = Push(net, <<Base, c>>, Signal("destroyCell", e))
        BY <3>1, <3>2, <1>10, <1>1 DEF Births
    <3>3. CASE net' = Push(net, <<Base, c>>, Signal("call", e))
        BY <3>1, <3>3, <1>10, <1>1 DEF Births
    <3> QED
        BY <2>1, <3>2, <3>3
  <2> QED
      BY <2>1, <2>2, <2>3, <1>5, AttendedFrame DEF Hosts
<1>14. ASSUME NEW e \in Entities, ClientDisconnect(e)
      PROVE  Attended(o)'
  <2> DEFINE c == cellCall[e]
             m == Signal("destroyCell", e)
             n == Push(net, <<Base, c>>, m)
  <2>1. PICK r1 \in SendResults, r2 \in SendResults :
           /\ net' = Send(Send(net, <<Base, c>>, m, r1), <<Base, c>>, m, r2)
           /\ used' = Charge(Charge(used, r1), r2)
      BY <1>14 DEF ClientDisconnect
  <2>2. r1 = "Accepted" /\ r2 = "Accepted" /\ used' = used
      BY <2>1, <1>1, <1>2 DEF SendResults, Charge, Spend
  <2>3. /\ net' = Push(n, <<Base, c>>, m)
        /\ Undisturbed
        /\ baseState' = [baseState EXCEPT ![e] = "Destroying"]
        /\ pendingDestructions' = pendingDestructions \cup {e}
        /\ UNCHANGED <<cellCall, body>>
        /\ c # NoCell
      BY <1>14, <1>2, <2>1, <2>2 DEF ClientDisconnect, Send, cellVars, Undisturbed
  <2>4. c \in Cells /\ m \in Messages /\ ~ Of(Births, m, o)
      BY <2>3, <1>1, <1>6, SignalType DEF Births
  <2>5. n \in Nets /\ Keeps(net, n, o)
      BY <2>4, <1>3, <1>1, PushKeeps, SendType
  <2>6. Keeps(net, net', o) /\ (o = e => Queued(net', <<Base, c>>, Request(o)))
    <3> HIDE DEF n
    <3>1. Keeps(n, net', o)
        BY <2>3, <2>4, <2>5, <1>3, PushKeeps
    <3>2. o = e => Queued(net', <<Base, c>>, Request(o))
        BY <2>3, <2>4, <2>5, <1>3, PushQueued DEF Request
    <3> QED
        BY <3>1, <3>2, <2>5, KeepsOn
  <2>7. CASE o # e
      BY <2>3, <2>6, <2>7, <1>5, <1>1, AttendedFrame DEF Hosts
  <2>8. CASE o = e
    <3> HIDE DEF c
    <3>1. c = cellCall'[o] /\ Attended(o) /\ c = cellCall[o]
        BY <2>3, <2>8, <1>5 DEF c
    <3> QED
        BY <3>1, <2>3, <2>4, <2>6, <2>8, <1>1, AttendedNext
        DEF Hosts, Attended, Keeps
  <2> QED
      BY <2>7, <2>8
<1>15. ASSUME NEW c \in Cells, HandleCellReady(c)
      PROVE  Attended(o)'
  <2> DEFINE l == <<c, Base>>
             e == Head(net[l]).e
  <2>1. /\ net[l] # <<>> /\ net' = Pop(net, l) /\ Undisturbed
        /\ UNCHANGED <<baseState, pendingDestructions, body>>
        /\ IF Registered(e) THEN cellCall' = [cellCall EXCEPT ![e] = c]
                            ELSE UNCHANGED cellCall
      BY <1>15, <1>2 DEF HandleCellReady, Arrived, Bind, cellVars, Undisturbed
  <2>2. e \in Entities /\ Head(net[l]) = Ready(e)
      BY <1>15, <2>1, <1>3, <1>1, PopType, HeadSignal
      DEF HandleCellReady, Arrived, Ready
  <2> HIDE DEF e
  <2>3. Keeps(net, net', o)
      BY <2>1, <2>2, <1>3, <1>9 DEF Ready
  <2>4. CASE o # e \/ ~ Registered(e)
      BY <2>1, <2>2, <2>3, <2>4, <1>5, <1>1, AttendedFrame DEF Hosts
  <2>5. CASE o = e /\ Registered(e)
    <3>1. Of(Births, Head(net[l]), o)
        BY <2>2, <2>5, <1>6 DEF Ready, Births
    <3>2. Absent(Births, net', o) /\ AtMostOne(Births, net', o)
        BY <3>1, <2>1, <1>5, <1>3, <1>1, PopOf DEF Attended
    <3>3. cellCall[o] = NoCell
        BY <3>1, <2>1, <1>5, <1>3, <1>1, PopOf DEF Attended
    <3>4. o \notin pendingDestructions
        BY <3>3, <2>1, <1>5 DEF Attended
    <3>5. Hosts(c, o) \/ Queued(net', <<c, Base>>, Destroyed(o))
        BY <2>1, <2>2, <2>5, <1>5, <1>3, <1>1, PopQueued DEF Attended
    <3>6. \A d \in Cells :
             Hosts(d, o) \/ Followed(net', <<d, Base>>, Ready(o), Destroyed(o))
        BY <2>1, <2>3, <1>5 DEF Attended, Keeps
    <3>7. cellCall'[o] = c
        BY <2>1, <2>2, <2>5, <1>1
    <3> QED
        BY <3>2, <3>4, <3>5, <3>6, <3>7, <2>1, AttendedNext DEF Hosts
  <2> QED
      BY <2>4, <2>5
<1>16. ASSUME NEW c \in Cells, HandleCellDestroyed(c)
      PROVE  Attended(o)'
  <2> DEFINE l == <<c, Base>>
             e == Head(net[l]).e
  <2>1. /\ net[l] # <<>> /\ net' = Pop(net, l) /\ Undisturbed
        /\ UNCHANGED body
        /\ \/ CompleteBaseDestruction(e)
           \/ /\ e \notin pendingDestructions
              /\ IF Registered(e) THEN Unbind(e) ELSE UNCHANGED cellCall
              /\ UNCHANGED <<baseState, pendingDestructions>>
      BY <1>16, <1>2 DEF HandleCellDestroyed, Arrived, cellVars, Undisturbed
  <2>2. e \in Entities /\ Head(net[l]) = Destroyed(e)
      BY <1>16, <2>1, <1>3, <1>1, PopType, HeadSignal
      DEF HandleCellDestroyed, Arrived, Destroyed
  <2> HIDE DEF e
  <2>3. CASE o # e
    <3>1. Keeps(net, net', o)
        BY <2>1, <2>2, <2>3, <1>3, <1>9 DEF Destroyed
    <3> QED
        BY <3>1, <2>1, <2>3, <1>5, <1>1, AttendedFrame
        DEF Hosts, CompleteBaseDestruction, Unbind
  <2>4. CASE o = e
    <3>1. cellCall'[o] = NoCell /\ o \notin pendingDestructions'
        BY <2>1, <2>2, <2>4, <1>4, <1>1
        DEF Registry, Registered, CompleteBaseDestruction, Unbind
    <3>2. baseState'[o] = "Unborn" => baseState[o] = "Unborn"
        BY <2>1, <2>2, <2>4, <1>1 DEF CompleteBaseDestruction
    <3>3. /\ AtMostOne(Births, net', o)
          /\ Absent(Births, net, o) => Absent(Births, net', o)
        BY <2>1, <1>5, <1>3, <1>1, PopOf DEF Attended
    <3>4. \A d \in Cells :
             Hosts(d, o) \/ Followed(net', <<d, Base>>, Ready(o), Destroyed(o))
        BY <2>1, <1>5, <1>3, <1>1, PopQueued DEF Attended
    <3> QED
        BY <3>1, <3>2, <3>3, <3>4, <2>1, <1>5, AttendedNext DEF Hosts, Attended
  <2> QED
      BY <2>3, <2>4
<1>17. ASSUME NEW c \in Cells, HandleSpawnRequest(c)
      PROVE  Attended(o)'
  <2> DEFINE l == <<c, Base>>
             requester == Head(net[l]).e
             n == Pop(net, l)
  <2>1. /\ net[l] # <<>>
        /\ Undisturbed
        /\ UNCHANGED <<cellCall, pendingDestructions, body>>
        /\ \/ net' = n /\ UNCHANGED baseState
           \/ \E e \in Entities :
                 /\ baseState[e] = "Unborn"
                 /\ \/ /\ baseState' = [baseState EXCEPT ![e] = "Active"]
                       /\ cellCall[requester] # NoCell
                       /\ net' = Push(n, <<Base, cellCall[requester]>>,
                                      Signal("createCell", e))
                    \/ /\ baseState' = [baseState EXCEPT ![e] = "Gone"]
                       /\ net' = n
      BY <1>17, <1>8, <1>2 DEF HandleSpawnRequest, Arrived, Send, cellVars, Undisturbed
  <2>2. requester \in Entities /\ Head(net[l]) = Signal("spawnRequest", requester)
        /\ n \in Nets
      BY <1>17, <2>1, <1>3, <1>1, PopType, HeadSignal DEF HandleSpawnRequest, Arrived
  <2>3. Keeps(net, n, o)
      BY <2>1, <2>2, <1>3, <1>9
  <2> HIDE DEF requester, n
  <2>4. CASE net' = n /\ baseState'[o] = baseState[o]
      BY <2>1, <2>3, <2>4, <1>5, AttendedFrame DEF Hosts
  <2>5. ASSUME NEW e \in Entities, baseState[e] = "Unborn",
               baseState' = [baseState EXCEPT ![e] = "Gone"], net' = n
        PROVE  Attended(o)'
      BY <2>1, <2>3, <2>5, <1>5, <1>1, AttendedFrame DEF Hosts
  <2>6. ASSUME NEW e \in Entities, NEW d \in Cells, baseState[e] = "Unborn",
               baseState' = [baseState EXCEPT ![e] = "Active"],
               net' = Push(n, <<Base, d>>, Signal("createCell", e))
        PROVE  Attended(o)'
    <3> DEFINE m == Signal("createCell", e)
    <3>1. m \in Messages
        BY SignalType
    <3>2. CASE o # e
      <4>1. Keeps(n, net', o)
          BY <2>2, <2>6, <3>2, <1>3, <1>10
      <4>2. Keeps(net, net', o)
          BY <4>1, <2>3, KeepsOn
      <4> QED
          BY <4>2, <3>2, <2>1, <2>6, <1>5, <1>1, AttendedFrame DEF Hosts
    <3>3. CASE o = e
      <4>1. cellCall[o] = NoCell /\ o \notin pendingDestructions
          BY <2>6, <3>3, <1>4 DEF Registry, Registered
      <4>2. Absent(Births, n, o)
          BY <2>1, <2>3, <2>6, <3>3, <1>5 DEF Attended, Keeps
      <4>3. AtMostOne(Births, net', o)
          BY <4>2, <2>2, <2>6, <3>1, <1>3, SendOf DEF Send
      <4>4. \A x \in Cells :
               Hosts(x, o) \/ Followed(net', <<x, Base>>, Ready(o), Destroyed(o))
          BY <2>1, <2>2, <2>3, <2>6, <3>1, <1>5, <1>3, PushQueued
          DEF Attended, Keeps
      <4> QED
          BY <4>1, <4>3, <4>4, <3>3, <2>1, <2>6, <1>1, AttendedNext DEF Hosts
    <3> QED
        BY <3>2, <3>3
  <2> QED
      BY <2>1, <2>2, <2>4, <2>5, <2>6, <1>1
<1>18. ASSUME NEW c \in Cells, HandleCreateCell(c)
      PROVE  Attended(o)'
  <2> DEFINE l == <<Base, c>>
             e == Head(net[l]).e
             n == Pop(net, l)
  <2>1. /\ net[l] # <<>>
        /\ Undisturbed
        /\ UNCHANGED <<baseState, cellCall, pendingDestructions>>
        /\ \/ Hosts(c, e) /\ net' = n /\ UNCHANGED body
           \/ /\ body' = [body EXCEPT ![c][e] = "Active"]
              /\ net' = Push(n, <<c, Base>>, Ready(e))
      BY <1>18, <1>8, <1>2
      DEF HandleCreateCell, Arrived, Send, baseVars, Undisturbed, Ready
  <2>2. e \in Entities /\ Head(net[l]) = Signal("createCell", e) /\ n \in Nets
      BY <1>18, <2>1, <1>3, <1>1, PopType, HeadSignal DEF HandleCreateCell, Arrived
  <2>3. Keeps(net, n, o)
      BY <2>1, <2>2, <1>3, <1>9
  <2>4. o = e => Of(Births, Head(net[l]), o)
      BY <2>2, <1>6 DEF Births
  <2>5. o = e => Absent(Births, n, o) /\ ~ Absent(Births, net, o)
      BY <2>1, <2>4, <1>5, <1>3, <1>1, PopOf DEF Attended
  <2>6. Ready(e) \in Messages
      BY <2>2, SignalType DEF Ready
  <2> HIDE DEF e, n
  <2>7. CASE net' = n /\ UNCHANGED body
      BY <2>1, <2>3, <2>7, <1>5, AttendedFrame DEF Hosts
  <2>8. CASE /\ body' = [body EXCEPT ![c][e] = "Active"]
             /\ net' = Push(n, <<c, Base>>, Ready(e))
    <3>1. \A d \in Cells : body'[d][o] = IF d = c /\ o = e THEN "Active" ELSE body[d][o]
      <4>1. \A d \in Cells, x \in Entities :
               [body EXCEPT ![c][e] = "Active"][d][x]
                   = IF d = c /\ x = e THEN "Active" ELSE body[d][x]
          BY <2>2, <1>1, TableUpdate
      <4> QED
          BY <4>1, <2>8
    <3>2. CASE o # e
      <4>1. Keeps(n, net', o)
          BY <2>2, <2>6, <2>8, <3>2, <1>3, <1>6, PushKeeps DEF Ready
      <4>2. Keeps(net, net', o)
          BY <4>1, <2>3, KeepsOn
      <4> QED
          BY <4>2, <3>1, <3>2, <2>1, <1>5, AttendedFrame DEF Hosts
    <3>3. CASE o = e
      <4>1. cellCall[o] = NoCell /\ o \notin pendingDestructions
            /\ baseState[o] # "Unborn"
          BY <2>1, <2>5, <3>3, <1>5 DEF Attended
      <4>2. AtMostOne(Births, net', o)
          BY <2>2, <2>5, <2>6, <2>8, <3>3, <1>3, SendOf DEF Send
      <4>3. \A d \in Cells : \/ body'[d][o] # "None"
                             \/ Followed(net', <<d, Base>>, Ready(o), Destroyed(o))
        <5>1. \A d \in Cells :
                 Hosts(d, o) \/ Followed(n, <<d, Base>>, Ready(o), Destroyed(o))
            BY <2>1, <2>3, <1>5 DEF Attended, Keeps
        <5>2. \A d \in Cells \ {c} :
                 Followed(n, <<d, Base>>, Ready(o), Destroyed(o))
                    => Followed(net', <<d, Base>>, Ready(o), Destroyed(o))
            BY <2>2, <2>6, <2>8, <1>3, PushQueued
        <5> QED
            BY <5>1, <5>2, <3>1, <3>3 DEF Hosts
      <4> QED
          BY <4>1, <4>2, <4>3, <2>1, AttendedNext
    <3> QED
        BY <3>2, <3>3
  <2> QED
      BY <2>1, <2>7, <2>8
<1>19. ASSUME NEW c \in Cells, HandleDestroyCell(c)
      PROVE  Attended(o)'
  <2> DEFINE l == <<Base, c>>
             e == Head(net[l]).e
             n == Pop(net, l)
  <2>1. /\ net[l] # <<>>
        /\ Undisturbed
        /\ UNCHANGED <<baseState, cellCall, pendingDestructions>>
        /\ \/ ~ Hosts(c, e) /\ net' = n /\ UNCHANGED body
           \/ /\ body' = [body EXCEPT ![c][e] = "None"]
              /\ net' = Push(n, <<c, Base>>, Destroyed(e))
      BY <1>19, <1>8, <1>2
      DEF HandleDestroyCell, TellDestroyed, Arrived, Send, baseVars, Undisturbed,
          Destroyed
  <2>2. e \in Entities /\ Head(net[l]) = Request(e) /\ n \in Nets
      BY <1>19, <2>1, <1>3, <1>1, PopType, HeadSignal
      DEF HandleDestroyCell, Arrived, Request
  <2>3. o # e => Keeps(net, n, o)
      BY <2>1, <2>2, <1>3, <1>9 DEF Request
  <2>4. /\ AtMostOne(Births, n, o)
        /\ Absent(Births, net, o) => Absent(Births, n, o)
      BY <2>1, <1>5, <1>3, <1>1, PopOf DEF Attended
  <2>5. \A d \in Cells :
           /\ Queued(net, <<d, Base>>, Destroyed(o)) => Queued(n, <<d, Base>>, Destroyed(o))
           /\ d # c /\ Queued(net, <<Base, d>>, Request(o)) => Queued(n, <<Base, d>>, Request(o))
           /\ Hosts(d, o) \/ Followed(n, <<d, Base>>, Ready(o), Destroyed(o))
      BY <2>1, <1>5, <1>3, <1>1, PopQueued DEF Attended
  <2>6. Destroyed(e) \in Messages /\ ~ Of(Births, Destroyed(e), o)
      BY <2>2, <1>6, SignalType DEF Destroyed, Births
  <2>7. cellCall[o] # NoCell => cellCall[o] \in Cells
      BY <1>1
  <2> HIDE DEF e, n
  <2>8. CASE o # e
    <3>1. net' = n \/ Keeps(n, net', o)
        BY <2>1, <2>2, <2>6, <1>3, PushKeeps
    <3>2. Keeps(net, net', o)
        BY <3>1, <2>3, <2>8, KeepsOn
    <3>3. \A d \in Cells : body'[d][o] = body[d][o]
      <4>1. \A d \in Cells, x \in Entities :
               [body EXCEPT ![c][e] = "None"][d][x]
                   = IF d = c /\ x = e THEN "None" ELSE body[d][x]
          BY <2>2, <1>1, TableUpdate
      <4> QED
          BY <4>1, <2>1, <2>8
    <3> QED
        BY <3>2, <3>3, <2>1, <1>5, AttendedFrame DEF Hosts
  <2>9. CASE o = e /\ ~ Hosts(c, e) /\ net' = n /\ UNCHANGED body
      BY <2>1, <2>4, <2>5, <2>7, <2>9, <1>5, AttendedNext DEF Attended, Hosts
  <2>10. CASE /\ o = e
              /\ body' = [body EXCEPT ![c][e] = "None"]
              /\ net' = Push(n, <<c, Base>>, Destroyed(e))
    <3>1. \A d \in Cells \ {c} : body'[d][o] = body[d][o]
      <4>1. \A d \in Cells, x \in Entities :
               [body EXCEPT ![c][e] = "None"][d][x]
                   = IF d = c /\ x = e THEN "None" ELSE body[d][x]
          BY <2>2, <1>1, TableUpdate
      <4> QED
          BY <4>1, <2>10
    <3>2. /\ AtMostOne(Births, net', o)
          /\ Absent(Births, net, o) => Absent(Births, net', o)
        BY <2>2, <2>4, <2>6, <2>10, <1>3, SendOf DEF Send
    <3>3. Queued(net', <<c, Base>>, Destroyed(o))
        BY <2>2, <2>6, <2>10, <1>3, PushQueued
    <3>4. \A d \in Cells \ {c} :
             /\ Queued(net, <<d, Base>>, Destroyed(o)) => Queued(net', <<d, Base>>, Destroyed(o))
             /\ Queued(net, <<Base, d>>, Request(o)) => Queued(net', <<Base, d>>, Request(o))
        BY <2>2, <2>5, <2>6, <2>10, <1>3, PushQueued
    <3>5. \A d \in Cells : \/ body'[d][o] # "None"
                           \/ Followed(net', <<d, Base>>, Ready(o), Destroyed(o))
      <4>1. Ready(o) # Destroyed(o)
          BY <1>7 DEF Ready, Destroyed
      <4>2. Followed(net', <<c, Base>>, Ready(o), Destroyed(o))
          BY <4>1, <2>2, <2>6, <2>10, <1>3, PushQueued
      <4>3. \A d \in Cells \ {c} :
               Followed(n, <<d, Base>>, Ready(o), Destroyed(o))
                  => Followed(net', <<d, Base>>, Ready(o), Destroyed(o))
          BY <2>2, <2>6, <2>10, <1>3, PushQueued
      <4> QED
          BY <4>2, <4>3, <3>1, <2>5 DEF Hosts
    <3> QED
        BY <3>1, <3>2, <3>3, <3>4, <3>5, <2>1, <2>7, <1>5, AttendedNext
        DEF Attended, Hosts
  <2> QED
      BY <2>1, <2>8, <2>9, <2>10
<1>20. ASSUME NEW c \in Cells, NEW t \in Cells, NEW e \in Entities, BeginMigration(c, t, e)
       PROVE  Attended(o)'
  <2>1. CASE epochs' = epochs + 1
      BY <2>1, <1>1, <1>2
  <2>2. CASE used' = Charge(used, "Refused")
      BY <2>2, <1>1, <1>2 DEF Charge, Spend
  <2> QED
      BY <1>20, <2>1, <2>2 DEF BeginMigration
<1>21. ASSUME NEW c \in Cells, NEW s \in Cells \ {c},
              ApplyMigrationTransfer(s, c) \/ ApplyMigrationCommit(s, c)
       PROVE  Attended(o)'
  <2>1. /\ net[<<s, c>>] # <<>> /\ Head(net[<<s, c>>]).type \in {"transfer", "commit"}
        /\ epochs = 0
      BY <1>21, <1>2 DEF ApplyMigrationTransfer, ApplyMigrationCommit, Arrived
  <2>2. <<s, c>> \in Links
      BY LinkType DEF Processes
  <2>3. Head(net[<<s, c>>]) \in Messages
      BY <2>1, <2>2, <1>1, PopType
  <2> QED
      BY <2>1, <2>2, <2>3, <1>1, EpochUsedStep DEF AttendedInv
<1>22. ASSUME NEW c \in Cells, NEW s \in Processes \ {c}, DispatchCall(s, c)
       PROVE  Attended(o)'
  <2> DEFINE l == <<s, c>>
             m == Head(net[l])
             n == Pop(net, l)
  <2>1. /\ l \in Links /\ net[l] # <<>> /\ m.type = "call"
        /\ UNCHANGED <<epochs, body, baseState, cellCall, pendingDestructions>>
      BY <1>22, LinkType DEF DispatchCall, Arrived, Processes, baseVars
  <2>2. n \in Nets /\ m \in Messages /\ m.e \in Entities /\ m = Signal("call", m.e)
      BY <2>1, <1>1, PopType, HeadSignal
  <2>3. Keeps(net, n, o)
      BY <2>1, <2>2, <1>7, <1>1, PopKeeps DEF Destroyed, Request
  <2>4. CASE net' = n /\ UNCHANGED used
    <3>1. Undisturbed
        BY <2>1, <2>4, <1>2 DEF Undisturbed
    <3> QED
        BY <3>1, <2>1, <2>3, <2>4, <1>5, AttendedFrame DEF Hosts
  <2>5. ASSUME InWindow(c, m.e), NEW r \in SendResults,
               net' = Send(n, <<c, migrationRoutes[c][m.e].target>>, m, r),
               used' = Charge(used, r)
        PROVE  Attended(o)'
    <3>1. <<c, migrationRoutes[c][m.e].target>> \in Links
      <4>1. migrationRoutes[c][m.e].target \in Cells \ {c}
          BY <2>5, <2>2 DEF InWindow, RoutesLeadAway, Routes, TypeInv, TypeOK
      <4> QED
          BY <4>1, LinkType DEF Processes
    <3> DEFINE k == <<c, migrationRoutes[c][m.e].target>>
    <3>2. net' = Push(n, k, m) /\ Undisturbed
        BY <2>1, <2>5, <1>8 DEF Send
    <3>3. ~ Of(Births, m, o)
        BY <2>2, <1>6 DEF Births
    <3> HIDE DEF n, k, m
    <3>4. Keeps(n, net', o)
        BY <3>1, <3>2, <3>3, <2>2, PushKeeps DEF k
    <3>5. Keeps(net, net', o)
        BY <3>4, <2>3, KeepsOn
    <3> QED
        BY <3>2, <3>5, <2>1, <1>5, AttendedFrame DEF Hosts
  <2> QED
      BY <1>22, <2>4, <2>5 DEF DispatchCall
<1>23. ASSUME NEW c \in Cells, NEW e \in Entities, RequestSpawnEntity(c, e)
       PROVE  Attended(o)'
  <2> DEFINE m == Signal("spawnRequest", e)
  <2>1. /\ net' = Push(net, <<c, Base>>, m)
        /\ Undisturbed
        /\ UNCHANGED <<cellCall, body, baseState, pendingDestructions>>
      BY <1>23, <1>8 DEF RequestSpawnEntity, Send, baseVars, cellVars
  <2>2. Keeps(net, net', o)
      BY <2>1, <1>3, <1>10, <1>1 DEF Births
  <2> QED
      BY <2>1, <2>2, <1>5, AttendedFrame DEF Hosts
<1>24. ASSUME \/ UNCHANGED vars
              \/ \E c \in Cells, e \in Entities :
                    ExpireRoute(c, e) \/ ClearMigrationRoute(c, e)
       PROVE  Attended(o)'
  <2>1. UNCHANGED <<net, epochs, cellCall, body, baseState, pendingDestructions>>
      BY <1>24 DEF ExpireRoute, ClearMigrationRoute, vars, baseVars, cellVars
  <2>2. Undisturbed
      BY <1>24, <1>1, <1>2
      DEF ExpireRoute, ClearMigrationRoute, Spend, Undisturbed, vars
  <2>3. Keeps(net, net', o)
      BY <2>1 DEF Keeps
  <2> QED
      BY <2>1, <2>2, <2>3, <1>5, AttendedFrame DEF Hosts
<1> QED
    BY <1>11, <1>12, <1>13, <1>14, <1>15, <1>16, <1>17, <1>18, <1>19, <1>20, <1>21,
       <1>22, <1>23, <1>24
    DEF Next, Environment, Deliver

\* The base of an entity that has not migrated knows where its cell part is, as
\* long as no send was refused: the binding is of a CellApp that hosts the entity
\* or has reported its end.  There is no bound on entities, CellApps, spawns,
\* calls or backlog.
THEOREM BindingStaysTruthful == Spec => [](Undisturbed => BindingIsTruthful)
<1>1. Init => TypeInv /\ RegistryInv /\ AttendedInv
    BY TypeInit, RegistryInit, AttendedInit
<1>2. TypeInv /\ RegistryInv /\ AttendedInv /\ [Next]_vars
         => (TypeInv /\ RegistryInv /\ AttendedInv)'
    BY TypeStep, RegistryStep, AttendedStep
<1>3. AttendedInv => (Undisturbed => BindingIsTruthful)
    BY DEF AttendedInv, Attended, BindingIsTruthful, Queued, InFlight, Destroyed
<1> QED
    BY <1>1, <1>2, <1>3, PTL DEF Spec

\* Under the same conditions a base part that waits for its cell's destruction
\* has its answer on the way, or its request and a body to destroy; a second
\* request of the same disconnect takes neither away.
THEOREM PendingStaysAnswered == Spec => [](Undisturbed => PendingIsAnswered)
<1>1. Init => TypeInv /\ RegistryInv /\ AttendedInv
    BY TypeInit, RegistryInit, AttendedInit
<1>2. TypeInv /\ RegistryInv /\ AttendedInv /\ [Next]_vars
         => (TypeInv /\ RegistryInv /\ AttendedInv)'
    BY TypeStep, RegistryStep, AttendedStep
<1>3. TypeInv /\ AttendedInv => (Undisturbed => PendingIsAnswered)
    BY DEF TypeInv, TypeOK, AttendedInv, Attended, PendingIsAnswered, Queued,
           InFlight, Destroyed, Request
<1> QED
    BY <1>1, <1>2, <1>3, PTL DEF Spec

-----------------------------------------------------------------------------
(* The effects of calls, until a route lapses or a send is refused *)

\* No route has expired or was cleared and no send was refused so far.
Unlapsed == used["lapses"] = 0 /\ used["refusals"] = 0

\* Message m, if it makes a body of e, makes one that has executed x calls.
Carries(m, x, e) ==
    m.e = e => /\ m.type = "transfer" => m.work = x
               /\ m.type = "createCell" => x = 0

AllCarry(n, x, e) == \A l \in Links : \A i \in DOMAIN n[l] : Carries(n[l][i], x, e)

\* The inductive invariant for one entity: what is or becomes authoritative has
\* executed every call, and a body that waits to be committed away is behind a
\* live route.
Effects(e) ==
    /\ \A c \in Cells : migrationRoutes[c][e] # NoRoute => ~ migrationRoutes[c][e].expired
    /\ \A c \in Cells : body[c][e] = "Migrating" => migrationRoutes[c][e] # NoRoute
    /\ \A c \in Cells : body[c][e] = "Active" => work[c][e] = applied[e]
    /\ AllCarry(net, applied[e], e)
    /\ baseState[e] = "Unborn" => applied[e] = 0

EffectsInv == Unlapsed => \A e \in Entities : Effects(e)

LEMMA PopCarry ==
    ASSUME NEW n \in Nets, NEW l \in Links, n[l] # <<>>, NEW x, NEW e, AllCarry(n, x, e)
    PROVE  AllCarry(Pop(n, l), x, e) /\ Carries(Head(n[l]), x, e)
BY PopMessages DEF AllCarry

LEMMA SendCarry ==
    ASSUME NEW n \in Nets, NEW l \in Links, NEW m \in Messages, NEW r, NEW x, NEW e,
           AllCarry(n, x, e), Carries(m, x, e)
    PROVE  AllCarry(Send(n, l, m, r), x, e)
<1>1. AllCarry(Push(n, l, m), x, e)
    BY PushMessages DEF AllCarry
<1> QED
    BY <1>1 DEF Send

\* A signal other than createCell carries nothing.
LEMMA SignalCarries ==
    ASSUME NEW type, NEW e, NEW o, NEW x,
           type # "transfer", type # "createCell" \/ o # e \/ x = 0
    PROVE  Carries(Signal(type, e), x, o)
BY DEF Carries, Signal

\* A step that changes no route, no body's count and no effect of e, and
\* activates no body of it.
LEMMA EffectsFrame ==
    ASSUME TypeInv, NEW e \in Entities, Effects(e), AllCarry(net', applied[e], e),
           applied'[e] = applied[e],
           \A c \in Cells : /\ migrationRoutes'[c][e] = migrationRoutes[c][e]
                            /\ body'[c][e] # "None" =>
                                  /\ body'[c][e] = body[c][e]
                                  /\ work'[c][e] = work[c][e],
           baseState'[e] = "Unborn" => baseState[e] = "Unborn"
    PROVE  Effects(e)'
BY DEF Effects, AllCarry, Carries

LEMMA EffectsInit == Init => EffectsInv
<1> SUFFICES ASSUME Init, NEW e \in Entities PROVE Effects(e)
    BY DEF EffectsInv
<1>1. \A l \in Links : net[l] = << >>
    BY DEF Init
<1>2. AllCarry(net, applied[e], e)
    BY <1>1 DEF AllCarry
<1> QED
    BY <1>2 DEF Init, Effects

LEMMA EffectsStep ==
    TypeInv /\ AuthorityInv /\ EffectsInv /\ [Next]_vars => EffectsInv'
<1> SUFFICES ASSUME TypeInv, AuthorityInv, EffectsInv, [Next]_vars, Unlapsed',
                    NEW o \in Entities
             PROVE  Effects(o)'
    BY DEF EffectsInv
<1> DEFINE Uses == [{"calls", "lapses", "refusals", "spawns"} -> Nat]
<1>1. /\ net \in Nets /\ used \in Uses /\ epochs \in Nat
      /\ body \in [Cells -> [Entities -> {"None", "Active", "Migrating"}]]
      /\ work \in [Cells -> [Entities -> Nat]]
      /\ applied \in [Entities -> Nat]
      /\ migrationRoutes \in [Cells -> [Entities -> Routes \cup {NoRoute}]]
      /\ baseState \in [Entities -> {"Unborn", "Active", "Destroying", "Gone"}]
      /\ cellCall \in [Entities -> Cells \cup {NoCell}]
      /\ NoCell \notin Cells
    BY ConstantsAssumption DEF TypeInv, TypeOK, Nets
<1>2. used'["refusals"] = 0 /\ used'["lapses"] = 0
    BY DEF Unlapsed
<1>3. \A c \in Cells : /\ c \in Processes /\ Base \in Processes /\ c # Base
                       /\ <<Base, c>> \in Links /\ <<c, Base>> \in Links
    BY BaseLinks, ConstantsAssumption DEF Processes
<1>4. Unlapsed => Effects(o)
    BY DEF EffectsInv
<1>5. Authority(o)
    BY DEF AuthorityInv
<1>6. ASSUME NEW r \in SendResults, NEW u \in Uses,
             u["refusals"] = used["refusals"], u["lapses"] = used["lapses"],
             used' = Charge(u, r)
      PROVE  r = "Accepted" /\ Unlapsed
    BY <1>6, <1>1, <1>2 DEF SendResults, Charge, Spend, Unlapsed
<1>7. ASSUME NEW type \in {"destroyCell", "cellReady", "cellDestroyed", "spawnRequest", "call"},
             NEW e \in Entities, NEW l \in Links, NEW n \in Nets, NEW x, NEW r,
             AllCarry(n, x, o)
      PROVE  /\ Send(n, l, Signal(type, e), r) \in Nets
             /\ AllCarry(Send(n, l, Signal(type, e), r), x, o)
  <2>1. Signal(type, e) \in Messages /\ Carries(Signal(type, e), x, o)
      BY SignalType, SignalCarries
  <2> QED
      BY <2>1, <1>7, SendType, SendCarry
<1>8. ASSUME NEW l \in Links, net[l] # <<>>
      PROVE  /\ Head(net[l]) \in Messages /\ Head(net[l]).e \in Entities
             /\ Pop(net, l) \in Nets
             /\ Effects(o) => /\ AllCarry(Pop(net, l), applied[o], o)
                              /\ Carries(Head(net[l]), applied[o], o)
    BY <1>8, <1>1, PopType, PopCarry DEF Messages, Effects
<1>9. ASSUME NEW e \in Entities, NEW c \in Cells, EnterGame(e, c)
      PROVE  Effects(o)'
  <2> DEFINE m == Signal("createCell", e)
  <2>1. PICK r \in SendResults : net' = Send(net, <<Base, c>>, m, r) /\ used' = Charge(used, r)
      BY <1>9 DEF EnterGame
  <2>2. /\ Unlapsed
        /\ baseState[e] = "Unborn" /\ baseState' = [baseState EXCEPT ![e] = "Active"]
        /\ UNCHANGED <<body, work, applied, migrationRoutes>>
      BY <1>9, <2>1, <1>6, <1>1 DEF EnterGame, cellVars
  <2>3. m \in Messages /\ Carries(m, applied[o], o)
      BY <2>2, <1>4, SignalType, SignalCarries DEF Effects
  <2>4. AllCarry(net', applied[o], o)
      BY <2>1, <2>2, <2>3, <1>4, <1>3, <1>1, SendCarry DEF Effects
  <2> QED
      BY <2>2, <2>4, <1>4, <1>1, EffectsFrame
<1>10. ASSUME NEW e \in Entities, DestroyEntity(e)
      PROVE  Effects(o)'
  <2>1. /\ Unlapsed
        /\ \/ net' = net
           \/ /\ cellCall[e] \in Cells
              /\ \E r : net' = Send(net, <<Base, cellCall[e]>>, Signal("destroyCell", e), r)
        /\ baseState' = [baseState EXCEPT ![e] = "Destroying"]
              \/ baseState' = [baseState EXCEPT ![e] = "Gone"]
        /\ UNCHANGED <<body, work, applied, migrationRoutes>>
      BY <1>10, <1>6, <1>1, <1>2
      DEF DestroyEntity, CompleteBaseDestruction, cellVars, Unlapsed
  <2>2. AllCarry(net, applied[o], o)
      BY <2>1, <1>4 DEF Effects
  <2>3. ASSUME cellCall[e] \in Cells, NEW r,
               net' = Send(net, <<Base, cellCall[e]>>, Signal("destroyCell", e), r)
        PROVE  AllCarry(net', applied[o], o)
      BY <2>2, <2>3, <1>3, <1>7, <1>1
  <2>4. AllCarry(net', applied[o], o)
      BY <2>1, <2>2, <2>3
  <2> QED
      BY <2>1, <2>4, <1>4, <1>1, EffectsFrame
<1>11. ASSUME NEW e \in Entities, LeaveWorld(e) \/ CallCell(e)
      PROVE  Effects(o)'
  <2>1. /\ cellCall[e] \in Cells
        /\ UNCHANGED <<body, work, applied, migrationRoutes, baseState>>
      BY <1>11, <1>1 DEF LeaveWorld, CallCell, baseVars, cellVars
  <2>2. ASSUME NEW type \in {"destroyCell", "call"}, NEW r \in SendResults,
               NEW u \in Uses, u = used \/ u = Spend(used, "calls"),
               net' = Send(net, <<Base, cellCall[e]>>, Signal(type, e), r),
               used' = Charge(u, r)
        PROVE  Effects(o)'
    <3>1. Unlapsed
        BY <2>2, <1>6, <1>1 DEF Spend
    <3>2. AllCarry(net', applied[o], o)
        BY <2>1, <2>2, <3>1, <1>4, <1>3, <1>7, <1>1 DEF Effects
    <3> QED
        BY <2>1, <3>1, <3>2, <1>4, EffectsFrame
  <2>3. CASE LeaveWorld(e)
      BY <2>2, <2>3, <1>1 DEF LeaveWorld
  <2>4. CASE CallCell(e)
    <3>1. Spend(used, "calls") \in Uses
        BY <1>1, ChargeType
    <3> QED
        BY <2>2, <2>4, <3>1 DEF CallCell
  <2> QED
      BY <1>11, <2>3, <2>4
<1>12. ASSUME NEW e \in Entities, ClientDisconnect(e)
      PROVE  Effects(o)'
  <2> DEFINE l == <<Base, cellCall[e]>>
             m == Signal("destroyCell", e)
  <2>1. PICK r1 \in SendResults, r2 \in SendResults :
           net' = Send(Send(net, l, m, r1), l, m, r2) /\ used' = Charge(Charge(used, r1), r2)
      BY <1>12 DEF ClientDisconnect
  <2>2. /\ Unlapsed
        /\ l \in Links
        /\ baseState' = [baseState EXCEPT ![e] = "Destroying"]
        /\ baseState[e] = "Active"
        /\ UNCHANGED <<body, work, applied, migrationRoutes>>
    <3>1. Unlapsed
        BY <2>1, <1>1, <1>2 DEF SendResults, Charge, Spend, Unlapsed
    <3> QED
        BY <1>12, <3>1, <1>3, <1>1 DEF ClientDisconnect, cellVars
  <2> DEFINE n == Send(net, l, m, r1)
  <2>3. n \in Nets /\ AllCarry(n, applied[o], o)
      BY <2>2, <1>4, <1>7, <1>1 DEF Effects
  <2>4. AllCarry(net', applied[o], o)
    <3>1. net' = Send(n, l, m, r2)
        BY <2>1
    <3> HIDE DEF n, l
    <3> QED
        BY <3>1, <2>2, <2>3, <1>7
  <2> QED
      BY <2>2, <2>4, <1>4, <1>1, EffectsFrame
<1>13. ASSUME NEW c \in Cells, HandleCellReady(c) \/ HandleCellDestroyed(c)
      PROVE  Effects(o)'
  <2> DEFINE l == <<c, Base>>
             e == Head(net[l]).e
  <2>1. /\ l \in Links /\ net[l] # <<>> /\ net' = Pop(net, l)
        /\ Unlapsed
        /\ UNCHANGED <<body, work, applied, migrationRoutes>>
        /\ baseState' = baseState \/ baseState' = [baseState EXCEPT ![e] = "Gone"]
      BY <1>13, <1>3, <1>2
      DEF HandleCellReady, HandleCellDestroyed, CompleteBaseDestruction, Arrived,
          cellVars, Unlapsed
  <2>2. AllCarry(net', applied[o], o) /\ e \in Entities
      BY <2>1, <1>4, <1>8
  <2> HIDE DEF e, l
  <2> QED
      BY <2>1, <2>2, <1>4, <1>1, EffectsFrame
<1>14. ASSUME NEW c \in Cells, HandleSpawnRequest(c)
      PROVE  Effects(o)'
  <2> DEFINE l == <<c, Base>>
             requester == Head(net[l]).e
             n == Pop(net, l)
  <2>1. l \in Links /\ net[l] # <<>> /\ UNCHANGED <<body, work, applied, migrationRoutes>>
      BY <1>14, <1>3 DEF HandleSpawnRequest, Arrived, cellVars
  <2>2. n \in Nets /\ requester \in Entities /\ (Unlapsed => AllCarry(n, applied[o], o))
      BY <2>1, <1>4, <1>8
  <2>3. CASE net' = n /\ UNCHANGED <<baseState, used>>
    <3>1. Unlapsed
        BY <2>3, <1>2 DEF Unlapsed
    <3> QED
        BY <3>1, <2>1, <2>2, <2>3, <1>4, EffectsFrame
  <2>4. ASSUME NEW e \in Entities, baseState[e] = "Unborn",
               baseState' = [baseState EXCEPT ![e] = "Gone"], net' = n, UNCHANGED used
        PROVE  Effects(o)'
    <3>1. Unlapsed
        BY <2>4, <1>2 DEF Unlapsed
    <3> QED
        BY <3>1, <2>1, <2>2, <2>4, <1>4, <1>1, EffectsFrame
  <2>5. ASSUME NEW e \in Entities, NEW d \in Cells, NEW r \in SendResults,
               baseState[e] = "Unborn", baseState' = [baseState EXCEPT ![e] = "Active"],
               net' = Send(n, <<Base, d>>, Signal("createCell", e), r),
               used' = Charge(used, r)
        PROVE  Effects(o)'
    <3>1. Unlapsed
        BY <2>5, <1>6, <1>1
    <3>2. Signal("createCell", e) \in Messages
          /\ Carries(Signal("createCell", e), applied[o], o)
        BY <2>5, <3>1, <1>4, SignalType, SignalCarries DEF Effects
    <3> HIDE DEF n
    <3>3. AllCarry(net', applied[o], o)
        BY <2>2, <2>5, <3>1, <3>2, <1>3, SendCarry
    <3> QED
        BY <3>1, <3>3, <2>1, <2>5, <1>4, <1>1, EffectsFrame
  <2>6. cellCall[requester] # NoCell => cellCall[requester] \in Cells
      BY <2>2, <1>1
  <2> HIDE DEF n, requester
  <2> QED
      BY <1>14, <2>3, <2>4, <2>5, <2>6 DEF HandleSpawnRequest, n, requester
<1>15. ASSUME NEW c \in Cells, HandleCreateCell(c)
      PROVE  Effects(o)'
  <2> DEFINE l == <<Base, c>>
             e == Head(net[l]).e
             n == Pop(net, l)
  <2>1. /\ l \in Links /\ net[l] # <<>> /\ Head(net[l]).type = "createCell"
        /\ UNCHANGED <<applied, migrationRoutes, baseState>>
      BY <1>15, <1>3 DEF HandleCreateCell, Arrived, baseVars
  <2>2. /\ n \in Nets /\ e \in Entities
        /\ Unlapsed => /\ AllCarry(n, applied[o], o)
                       /\ o = e => applied[o] = 0
      BY <2>1, <1>4, <1>8 DEF Carries
  <2>3. CASE net' = n /\ UNCHANGED <<body, work, used>>
    <3>1. Unlapsed
        BY <2>3, <1>2 DEF Unlapsed
    <3> QED
        BY <3>1, <2>1, <2>2, <2>3, <1>4, EffectsFrame
  <2>4. ASSUME NEW r \in SendResults,
               body' = [body EXCEPT ![c][e] = "Active"], work' = [work EXCEPT ![c][e] = 0],
               net' = Send(n, <<c, Base>>, Signal("cellReady", e), r),
               used' = Charge(used, r)
        PROVE  Effects(o)'
    <3> HIDE DEF e, n
    <3>1. Unlapsed
        BY <2>4, <1>6, <1>1
    <3>2. AllCarry(net', applied[o], o)
        BY <2>2, <2>4, <3>1, <1>3, <1>7
    <3>3. \A d \in Cells, x \in Entities :
             /\ body'[d][x] = IF d = c /\ x = e THEN "Active" ELSE body[d][x]
             /\ work'[d][x] = IF d = c /\ x = e THEN 0 ELSE work[d][x]
        BY <2>2, <2>4, <1>1, TableUpdate
    <3>4. CASE o # e
        BY <3>1, <3>2, <3>3, <3>4, <2>1, <1>4, EffectsFrame
    <3>5. CASE o = e
      <4>1. /\ \A d \in Cells : body'[d][o] = IF d = c THEN "Active" ELSE body[d][o]
            /\ \A d \in Cells : work'[d][o] = IF d = c THEN 0 ELSE work[d][o]
          BY <3>3, <3>5
      <4> QED
          BY <4>1, <3>1, <3>2, <3>5, <2>1, <2>2, <1>4 DEF Effects, AllCarry, Carries
    <3> QED
        BY <3>4, <3>5
  <2> QED
      BY <1>15, <2>3, <2>4 DEF HandleCreateCell
<1>16. ASSUME NEW c \in Cells, HandleDestroyCell(c)
      PROVE  Effects(o)'
  <2> DEFINE l == <<Base, c>>
             e == Head(net[l]).e
             n == Pop(net, l)
  <2>1. /\ l \in Links /\ net[l] # <<>>
        /\ UNCHANGED <<applied, work, migrationRoutes, baseState>>
      BY <1>16, <1>3 DEF HandleDestroyCell, Arrived, baseVars
  <2>2. n \in Nets /\ e \in Entities /\ (Unlapsed => AllCarry(n, applied[o], o))
      BY <2>1, <1>4, <1>8
  <2>3. CASE net' = n /\ UNCHANGED <<body, used>>
    <3>1. Unlapsed
        BY <2>3, <1>2 DEF Unlapsed
    <3> QED
        BY <3>1, <2>1, <2>2, <2>3, <1>4, EffectsFrame
  <2>4. ASSUME NEW r \in SendResults, body' = [body EXCEPT ![c][e] = "None"],
               net' = Send(n, <<c, Base>>, Signal("cellDestroyed", e), r),
               used' = Charge(used, r)
        PROVE  Effects(o)'
    <3> HIDE DEF e, n
    <3>1. Unlapsed
        BY <2>4, <1>6, <1>1
    <3>2. AllCarry(net', applied[o], o)
        BY <2>2, <2>4, <3>1, <1>3, <1>7
    <3>3. \A d \in Cells, x \in Entities :
             body'[d][x] = IF d = c /\ x = e THEN "None" ELSE body[d][x]
        BY <2>2, <2>4, <1>1, TableUpdate
    <3>4. \A d \in Cells : body'[d][o] # "None" => body'[d][o] = body[d][o]
        BY <3>3
    <3> QED
        BY <3>1, <3>2, <3>4, <2>1, <1>4, EffectsFrame
  <2> QED
      BY <1>16, <2>3, <2>4 DEF HandleDestroyCell, TellDestroyed
<1>17. ASSUME NEW c \in Cells, NEW t \in Cells, NEW e \in Entities,
             BeginMigration(c, t, e)
      PROVE  Effects(o)'
  <2>1. CASE used' = Charge(used, "Refused")
      BY <2>1, <1>1, <1>2 DEF Charge, Spend
  <2>2. CASE /\ epochs' = epochs + 1
             /\ used' = Charge(used, "Accepted")
             /\ net' = Push(net, <<c, t>>,
                            [type |-> "transfer", e |-> e,
                             epoch |-> epochs + 1, work |-> work[c][e]])
             /\ Leaving(c, e)
             /\ OpenRoute(c, e, t, epochs + 1)
    <3> DEFINE m == [type |-> "transfer", e |-> e, epoch |-> epochs + 1,
                     work |-> work[c][e]]
               route == [target |-> t, epoch |-> epochs + 1, expired |-> FALSE]
    <3>1. /\ UNCHANGED <<baseState, work, applied>>
          /\ body[c][e] = "Active" /\ t # c
          /\ epochs + 1 \in 1 .. MaxMigrations
        BY <1>17, <1>1, ConstantsAssumption DEF BeginMigration, baseVars, TypeInv, TypeOK
    <3>2. Unlapsed
        BY <2>2, <1>2 DEF Charge, Unlapsed
    <3>3. m \in Messages /\ <<c, t>> \in Links
        BY <3>1, <1>1, LinkType DEF Messages, Processes
    <3>4. Carries(m, applied[o], o)
        BY <3>1, <3>2, <1>4 DEF Carries, Effects
    <3>5. net' = Send(net, <<c, t>>, m, "Accepted")
        BY <2>2 DEF Send
    <3>6. AllCarry(net', applied[o], o)
      <4> HIDE DEF m
      <4> QED
          BY <3>2, <3>3, <3>4, <3>5, <1>4, <1>1, SendCarry DEF Effects
    <3>7. route \in Routes
        BY <3>1 DEF Routes
    <3>8. route # NoRoute => ~ route.expired
        OBVIOUS
    <3>9. \A d \in Cells, x \in Entities :
             /\ body'[d][x] = IF d = c /\ x = e THEN "Migrating" ELSE body[d][x]
             /\ migrationRoutes'[d][x] = IF d = c /\ x = e THEN route
                                                          ELSE migrationRoutes[d][x]
      <4> HIDE DEF route
      <4>1. migrationRoutes' = [migrationRoutes EXCEPT ![c][e] = route]
          BY <2>2 DEF OpenRoute, route
      <4> QED
          BY <2>2, <4>1, <3>7, <1>1, TableUpdate DEF Leaving
    <3>10. CASE o # e
        BY <3>1, <3>2, <3>6, <3>9, <3>10, <1>4, EffectsFrame
    <3>11. CASE o = e
      <4>1. route # NoRoute
          BY <3>7, NoRouteAssumption
      <4> HIDE DEF route
      <4>2. \A d \in Cells :
               /\ body'[d][o] = IF d = c THEN "Migrating" ELSE body[d][o]
               /\ migrationRoutes'[d][o] = IF d = c THEN route ELSE migrationRoutes[d][o]
          BY <3>9, <3>11
      <4> QED
          BY <4>1, <4>2, <3>1, <3>2, <3>6, <3>8, <1>4 DEF Effects, AllCarry, Carries
    <3> QED
        BY <3>10, <3>11
  <2> QED
      BY <1>17, <2>1, <2>2 DEF BeginMigration
<1>18. ASSUME NEW c \in Cells, NEW s \in Cells \ {c}, ApplyMigrationTransfer(s, c)
       PROVE  Effects(o)'
  <2> DEFINE l == <<s, c>>
             m == Head(net[l])
             n == Pop(net, l)
  <2>1. /\ l \in Links /\ <<c, s>> \in Links /\ net[l] # <<>> /\ m.type = "transfer"
        /\ UNCHANGED <<baseState, migrationRoutes, applied>>
      BY <1>18, LinkType DEF ApplyMigrationTransfer, Arrived, Processes, baseVars
  <2>2. /\ n \in Nets /\ m \in Messages /\ m.e \in Entities
        /\ Unlapsed => /\ AllCarry(n, applied[o], o)
                       /\ o = m.e => m.work = applied[o]
      BY <2>1, <1>4, <1>8 DEF Carries
  <2>3. CASE net' = n /\ UNCHANGED <<body, work, used>>
    <3>1. Unlapsed
        BY <2>3, <1>2 DEF Unlapsed
    <3> QED
        BY <3>1, <2>1, <2>2, <2>3, <1>4, EffectsFrame
  <2>4. ASSUME NEW r1 \in SendResults, NEW r2 \in SendResults,
               body' = [body EXCEPT ![c][m.e] = "Active"],
               work' = [work EXCEPT ![c][m.e] = m.work],
               net' = Send(Send(n, <<c, Base>>, Signal("cellReady", m.e), r1),
                           <<c, s>>,
                           [type |-> "commit", e |-> m.e, epoch |-> m.epoch], r2),
               used' = Charge(Charge(used, r1), r2)
        PROVE  Effects(o)'
    <3>1. Unlapsed
        BY <2>4, <1>1, <1>2 DEF SendResults, Charge, Spend, Unlapsed
    <3> DEFINE n1    == Send(n, <<c, Base>>, Signal("cellReady", m.e), r1)
               reply == [type |-> "commit", e |-> m.e, epoch |-> m.epoch]
    <3>2. m.epoch \in 1 .. MaxMigrations /\ m.work \in Nat
        BY <2>1, <2>2 DEF Messages
    <3>3. reply \in Messages /\ Carries(reply, applied[o], o)
        BY <2>2, <3>2 DEF Messages, Carries
    <3>4. n1 \in Nets /\ AllCarry(n1, applied[o], o)
      <4> HIDE DEF n, m
      <4> QED
          BY <2>2, <3>1, <1>3, <1>7
    <3>5. AllCarry(net', applied[o], o)
      <4>1. net' = Send(n1, <<c, s>>, reply, r2)
          BY <2>4
      <4> HIDE DEF n1, reply
      <4> QED
          BY <4>1, <2>1, <3>3, <3>4, SendCarry
    <3>6. \A d \in Cells, x \in Entities :
             /\ body'[d][x] = IF d = c /\ x = m.e THEN "Active" ELSE body[d][x]
             /\ work'[d][x] = IF d = c /\ x = m.e THEN m.work ELSE work[d][x]
      <4> HIDE DEF m
      <4> QED
          BY <2>2, <2>4, <3>2, <1>1, TableUpdate
    <3> HIDE DEF m, n, n1, reply
    <3>7. CASE o # m.e
        BY <3>1, <3>5, <3>6, <3>7, <2>1, <1>4, EffectsFrame
    <3>8. CASE o = m.e
      <4>1. \A d \in Cells :
               /\ body'[d][o] = IF d = c THEN "Active" ELSE body[d][o]
               /\ work'[d][o] = IF d = c THEN m.work ELSE work[d][o]
          BY <3>6, <3>8
      <4> QED
          BY <4>1, <3>1, <3>5, <3>8, <2>1, <2>2, <1>4 DEF Effects, AllCarry, Carries
    <3> QED
        BY <3>7, <3>8
  <2> QED
      BY <1>18, <2>3, <2>4 DEF ApplyMigrationTransfer
<1>19. ASSUME NEW c \in Cells, NEW s \in Cells \ {c}, ApplyMigrationCommit(s, c)
       PROVE  Effects(o)'
  <2> DEFINE l == <<s, c>>
             m == Head(net[l])
  <2>1. /\ l \in Links /\ net[l] # <<>> /\ net' = Pop(net, l) /\ Unlapsed
        /\ UNCHANGED <<baseState, work, migrationRoutes, applied>>
        /\ body' = body \/ body' = [body EXCEPT ![c][m.e] = "None"]
      BY <1>19, <1>2, LinkType
      DEF ApplyMigrationCommit, Arrived, Processes, baseVars, Unlapsed
  <2>2. m.e \in Entities /\ AllCarry(net', applied[o], o)
      BY <2>1, <1>4, <1>8
  <2> HIDE DEF m
  <2>3. \A d \in Cells, x \in Entities :
           [body EXCEPT ![c][m.e] = "None"][d][x]
              = IF d = c /\ x = m.e THEN "None" ELSE body[d][x]
      BY <2>2, <1>1, TableUpdate
  <2>4. \A d \in Cells : body'[d][o] # "None" => body'[d][o] = body[d][o]
      BY <2>1, <2>3
  <2> QED
      BY <2>1, <2>2, <2>4, <1>4, EffectsFrame
<1>20. ASSUME NEW c \in Cells, NEW s \in Processes \ {c}, DispatchCall(s, c)
       PROVE  Effects(o)'
  <2> DEFINE l == <<s, c>>
             m == Head(net[l])
             n == Pop(net, l)
  <2>1. /\ l \in Links /\ net[l] # <<>> /\ m.type = "call"
        /\ UNCHANGED <<baseState, body>>
      BY <1>20, LinkType DEF DispatchCall, Arrived, Processes, baseVars
  <2>2. /\ n \in Nets /\ m \in Messages /\ m.e \in Entities /\ m = Signal("call", m.e)
        /\ Unlapsed => AllCarry(n, applied[o], o)
      BY <2>1, <1>4, <1>8, HeadSignal
  <2>3. CASE /\ ~ InWindow(c, m.e) /\ ExecuteCall(c, m.e) /\ net' = n
             /\ migrationRoutes' = IF Lapsed(c, m.e)
                                   THEN [migrationRoutes EXCEPT ![c][m.e] = NoRoute]
                                   ELSE migrationRoutes
             /\ UNCHANGED used
    <3> HIDE DEF m, n
    <3>1. Unlapsed
        BY <2>3, <1>2 DEF Unlapsed
    <3>2. \A e \in Entities : Effects(e)
        BY <3>1 DEF EffectsInv
    <3>3. /\ ~ Lapsed(c, m.e) /\ migrationRoutes[c][m.e] = NoRoute
          /\ migrationRoutes' = migrationRoutes
        BY <2>2, <2>3, <3>2 DEF Lapsed, InWindow, Effects
    <3>4. CASE UNCHANGED <<work, applied>>
        BY <3>1, <3>3, <3>4, <2>1, <2>2, <2>3, <1>4, EffectsFrame
    <3>5. CASE /\ Hosts(c, m.e)
               /\ work' = [work EXCEPT ![c][m.e] = work[c][m.e] + 1]
               /\ applied' = [applied EXCEPT ![m.e] = applied[m.e] + 1]
      <4>1. /\ \A d \in Cells, x \in Entities :
                  work'[d][x] = IF d = c /\ x = m.e THEN work[c][m.e] + 1 ELSE work[d][x]
            /\ \A x \in Entities :
                  applied'[x] = IF x = m.e THEN applied[m.e] + 1 ELSE applied[x]
          BY <2>2, <3>5, <1>1, TableUpdate
      <4>2. CASE o # m.e
          BY <4>1, <4>2, <3>1, <3>3, <2>1, <2>2, <2>3, <1>4, EffectsFrame
      <4>3. CASE o = m.e
        <5>1. body[c][o] = "Active"
            BY <4>3, <3>2, <3>3, <3>5, <2>2, <1>1 DEF Hosts, Effects
        <5>2. /\ NoClaim(net, o) /\ \A d \in Cells : body[d][o] = "Active" => d = c
              /\ baseState[o] # "Unborn"
            BY <5>1, <1>5 DEF Authority
        <5>3. AllCarry(net', applied'[o], o)
          <6>1. NoClaim(net', o)
              BY <5>2, <2>1, <2>3, <1>1, PopClaims DEF n
          <6> QED
              BY <6>1 DEF NoClaim, Absent, Of, ClaimTypes, AllCarry, Carries
        <5>4. /\ \A d \in Cells : work'[d][o] = IF d = c THEN work[c][o] + 1 ELSE work[d][o]
              /\ applied'[o] = applied[o] + 1
            BY <4>1, <4>3
        <5> QED
            BY <5>1, <5>2, <5>3, <5>4, <3>2, <3>3, <2>1 DEF Effects, AllCarry, Carries
      <4> QED
          BY <4>2, <4>3
    <3> QED
        BY <2>3, <3>4, <3>5 DEF ExecuteCall
  <2>4. ASSUME InWindow(c, m.e), NEW r \in SendResults,
               net' = Send(n, <<c, migrationRoutes[c][m.e].target>>, m, r),
               used' = Charge(used, r),
               IF r = "Accepted" THEN UNCHANGED <<work, applied>>
                                 ELSE ExecuteCall(c, m.e),
               UNCHANGED migrationRoutes
        PROVE  Effects(o)'
    <3>1. <<c, migrationRoutes[c][m.e].target>> \in Links
      <4>1. migrationRoutes[c][m.e].target \in Cells \ {c}
          BY <2>4, <2>2 DEF InWindow, RoutesLeadAway, Routes, TypeInv, TypeOK
      <4> QED
          BY <4>1, LinkType DEF Processes
    <3>2. Unlapsed /\ UNCHANGED <<work, applied>>
        BY <2>4, <1>6, <1>1
    <3> HIDE DEF m, n
    <3>3. AllCarry(net', applied[o], o)
        BY <2>2, <2>4, <3>1, <3>2, <1>7
    <3> QED
        BY <3>2, <3>3, <2>1, <2>4, <1>4, EffectsFrame
  <2> QED
      BY <1>20, <2>3, <2>4 DEF DispatchCall
<1>21. ASSUME NEW c \in Cells, NEW e \in Entities,
              ExpireRoute(c, e) \/ ClearMigrationRoute(c, e)
       PROVE  Effects(o)'
    BY <1>21, <1>1, <1>2 DEF ExpireRoute, ClearMigrationRoute, Spend
<1>22. ASSUME NEW c \in Cells, NEW e \in Entities, RequestSpawnEntity(c, e)
       PROVE  Effects(o)'
  <2>1. PICK r \in SendResults :
           /\ net' = Send(net, <<c, Base>>, Signal("spawnRequest", e), r)
           /\ used' = Charge(Spend(used, "spawns"), r)
      BY <1>22 DEF RequestSpawnEntity
  <2>2. /\ Spend(used, "spawns") \in Uses
        /\ Spend(used, "spawns")["refusals"] = used["refusals"]
        /\ Spend(used, "spawns")["lapses"] = used["lapses"]
      BY <1>1 DEF Spend
  <2>3. Unlapsed /\ UNCHANGED <<body, work, applied, migrationRoutes, baseState>>
      BY <1>22, <2>1, <2>2, <1>6 DEF RequestSpawnEntity, baseVars, cellVars
  <2>4. AllCarry(net', applied[o], o)
      BY <2>1, <2>3, <1>4, <1>3, <1>7, <1>1 DEF Effects
  <2> QED
      BY <2>3, <2>4, <1>4, EffectsFrame
<1>23. CASE UNCHANGED vars
  <2>1. Unlapsed /\ UNCHANGED <<body, work, applied, migrationRoutes, baseState, net>>
      BY <1>23, <1>2 DEF vars, baseVars, cellVars, Unlapsed
  <2> QED
      BY <2>1, <1>4, EffectsFrame DEF Effects
<1> QED
    BY <1>9, <1>10, <1>11, <1>12, <1>13, <1>14, <1>15, <1>16, <1>17, <1>18, <1>19,
       <1>20, <1>21, <1>22, <1>23
    DEF Next, Environment, Deliver

\* As long as no route has expired or was cleared and no send was refused, the
\* authoritative body of an entity, or the snapshot that becomes it, carries the
\* effect of every call that was executed, however many CellApps the entity
\* visits and whatever is destroyed or spawned meanwhile.
THEOREM NoEffectGetsLost == Spec => [](Unlapsed => NoEffectIsLost)
<1>1. Init => TypeInv /\ AuthorityInv /\ EffectsInv
    BY TypeInit, AuthorityInit, EffectsInit
<1>2. TypeInv /\ AuthorityInv /\ EffectsInv /\ [Next]_vars
         => (TypeInv /\ AuthorityInv /\ EffectsInv)'
    BY TypeStep, AuthorityStep, EffectsStep
<1>3. EffectsInv => (Unlapsed => NoEffectIsLost)
    BY DEF EffectsInv, Effects, AllCarry, Carries, NoEffectIsLost
<1> QED
    BY <1>1, <1>2, <1>3, PTL DEF Spec

-----------------------------------------------------------------------------
(* Snapshots and their answers *)

\* Message m moves the cell part of e.
Weighty(m, e)  == m.e = e /\ m.type \in {"createCell", "transfer", "commit"}
Snapshot(m, e) == m.e = e /\ m.type = "transfer"
Commit(e, x)   == [type |-> "commit", e |-> e, epoch |-> x]

\* On connection l of n, every snapshot of e has an a in front of it.
Preceded(n, l, a, e) ==
    \A i \in DOMAIN n[l] : Snapshot(n[l][i], e) =>
        \E j \in DOMAIN n[l] : j < i /\ n[l][j] = a

\* As far as the cell part of e goes, n2 carries the messages of n.
Alike(n, n2, e) ==
    /\ \A l \in Links, m \in Messages :
          Weighty(m, e) => (Queued(n, l, m) <=> Queued(n2, l, m))
    /\ \A l \in Links : \A a :
          Weighty(a, e) /\ Preceded(n, l, a, e) => Preceded(n2, l, a, e)

\* Handling a message other than a moves no snapshot in front of an a, and no
\* snapshot that has an a in front of it is handled.
LEMMA PopPreceded ==
    ASSUME NEW n \in Nets, NEW l \in Links, n[l] # <<>>, NEW k \in Links,
           NEW a, NEW e, Preceded(n, k, a, e)
    PROVE  /\ k # l \/ Head(n[l]) # a => Preceded(Pop(n, l), k, a, e)
           /\ k = l => ~ Snapshot(Head(n[l]), e)
<1> DEFINE s == n[l]
           t == Pop(n, l)[l]
<1>1. s \in Seq(Messages) /\ s # <<>> /\ t = Tail(s)
    BY DEF Nets, Pop
<1>2. \A h \in Links \ {l} : Pop(n, l)[h] = n[h]
    BY PopMessages
<1>3. /\ \A i \in DOMAIN s : i \in Nat \ {0} /\ (i # 1 => i - 1 \in DOMAIN t /\ t[i - 1] = s[i])
      /\ s[1] = Head(s) /\ 1 \in DOMAIN s
      /\ \A i \in DOMAIN t : i \in Nat \ {0} /\ i + 1 \in DOMAIN s /\ t[i] = s[i + 1]
  <2> HIDE DEF s, t
  <2> QED
      BY <1>1
<1> HIDE DEF s, t
<1>4. CASE k = l
  <2>1. \A i \in DOMAIN s : Snapshot(s[i], e) => \E j \in DOMAIN s : j < i /\ s[j] = a
      BY <1>4 DEF Preceded, s
  <2>2. ~ Snapshot(Head(s), e)
      BY <2>1, <1>3
  <2>3. ASSUME Head(s) # a, NEW i \in DOMAIN t, Snapshot(t[i], e)
        PROVE  \E j \in DOMAIN t : j < i /\ t[j] = a
    <3>1. i \in Nat /\ i + 1 \in DOMAIN s /\ Snapshot(s[i + 1], e)
        BY <2>3, <1>3
    <3>2. PICK j \in DOMAIN s : j < i + 1 /\ s[j] = a
        BY <3>1, <2>1
    <3>3. j \in Nat \ {0} /\ j # 1 /\ j - 1 \in DOMAIN t /\ t[j - 1] = a /\ j - 1 < i
        BY <3>1, <3>2, <2>3, <1>3
    <3> QED
        BY <3>3
  <2> QED
      BY <2>2, <2>3, <1>4 DEF Preceded, s, t
<1>5. CASE k # l
    BY <1>2, <1>5 DEF Preceded
<1> QED
    BY <1>4, <1>5

\* A message that is sent goes behind everything that is there.
LEMMA PushPreceded ==
    ASSUME NEW n \in Nets, NEW l \in Links, NEW m \in Messages, NEW k \in Links,
           NEW a, NEW e, Preceded(n, k, a, e),
           k # l \/ ~ Snapshot(m, e) \/ Queued(n, l, a)
    PROVE  Preceded(Push(n, l, m), k, a, e)
<1> DEFINE s == n[l]
           t == Push(n, l, m)[l]
<1>1. s \in Seq(Messages) /\ t = Append(s, m)
    BY DEF Nets, Push
<1>2. \A h \in Links \ {l} : Push(n, l, m)[h] = n[h]
    BY PushMessages
<1>3. /\ \A i \in DOMAIN s : i \in DOMAIN t /\ t[i] = s[i] /\ i < Len(s) + 1
      /\ \A i \in DOMAIN t : i \in DOMAIN s \/ (i = Len(s) + 1 /\ t[i] = m)
  <2> HIDE DEF s, t
  <2> QED
      BY <1>1
<1> HIDE DEF s, t
<1>4. CASE k = l
  <2>1. \A i \in DOMAIN s : Snapshot(s[i], e) => \E j \in DOMAIN s : j < i /\ s[j] = a
      BY <1>4 DEF Preceded, s
  <2>2. Snapshot(m, e) => \E j \in DOMAIN s : s[j] = a
      BY <1>4 DEF Queued, s
  <2>3. ASSUME NEW i \in DOMAIN t, Snapshot(t[i], e)
        PROVE  \E j \in DOMAIN t : j < i /\ t[j] = a
      BY <2>1, <2>2, <2>3, <1>3
  <2> QED
      BY <2>3, <1>4 DEF Preceded, t
<1>5. CASE k # l
    BY <1>2, <1>5 DEF Preceded
<1> QED
    BY <1>4, <1>5

\* What is queued after a message was handled or sent was queued before, or is
\* the message that was sent.
LEMMA QueuedBefore ==
    ASSUME NEW n \in Nets, NEW l \in Links, NEW k \in Links, NEW a
    PROVE  /\ n[l] # <<>> /\ Queued(Pop(n, l), k, a) => Queued(n, k, a)
           /\ \A m \in Messages :
                 Queued(Push(n, l, m), k, a) => Queued(n, k, a) \/ (k = l /\ a = m)
<1>1. n[l] # <<>> /\ Queued(Pop(n, l), k, a) => Queued(n, k, a)
    BY PopMessages DEF Queued
<1>2. ASSUME NEW m \in Messages, Queued(Push(n, l, m), k, a)
      PROVE  Queued(n, k, a) \/ (k = l /\ a = m)
    BY <1>2, PushMessages DEF Queued
<1> QED
    BY <1>1, <1>2

LEMMA PopAlike ==
    ASSUME NEW n \in Nets, NEW l \in Links, n[l] # <<>>, NEW e,
           ~ Weighty(Head(n[l]), e)
    PROVE  Alike(n, Pop(n, l), e)
<1>1. ASSUME NEW k \in Links, NEW m \in Messages, Weighty(m, e)
      PROVE  Queued(n, k, m) <=> Queued(Pop(n, l), k, m)
    BY <1>1, PopQueued, QueuedBefore
<1>2. ASSUME NEW k \in Links, NEW a, Weighty(a, e), Preceded(n, k, a, e)
      PROVE  Preceded(Pop(n, l), k, a, e)
    BY <1>2, PopPreceded
<1> QED
    BY <1>1, <1>2 DEF Alike

LEMMA SendAlike ==
    ASSUME NEW n \in Nets, NEW l \in Links, NEW m \in Messages, NEW r, NEW e,
           ~ Weighty(m, e)
    PROVE  Alike(n, Send(n, l, m, r), e)
<1>1. ASSUME NEW k \in Links, NEW a \in Messages, Weighty(a, e)
      PROVE  Queued(n, k, a) <=> Queued(Push(n, l, m), k, a)
  <2>1. a # m
      BY <1>1
  <2>2. Queued(n, k, a) => Queued(Push(n, l, m), k, a)
      BY PushQueued
  <2>3. Queued(Push(n, l, m), k, a) => Queued(n, k, a)
      BY <2>1, QueuedBefore
  <2> QED
      BY <2>2, <2>3
<1>2. ASSUME NEW k \in Links, NEW a, Preceded(n, k, a, e)
      PROVE  Preceded(Push(n, l, m), k, a, e)
  <2>1. ~ Snapshot(m, e)
      BY DEF Weighty, Snapshot
  <2> QED
      BY <2>1, <1>2, PushPreceded
<1>3. Alike(n, Push(n, l, m), e) /\ Alike(n, n, e)
    BY <1>1, <1>2 DEF Alike
<1> QED
    BY <1>3 DEF Send

LEMMA AlikeTransitive ==
    ASSUME NEW n1, NEW n2, NEW n3, NEW e, Alike(n1, n2, e), Alike(n2, n3, e)
    PROVE  Alike(n1, n3, e)
BY DEF Alike

LEMMA AlikeReflexive ==
    ASSUME NEW n, NEW e PROVE Alike(n, n, e)
BY DEF Alike

\* What the base and a cell body tell each other about it moves no cell part.
LEMMA SignalLight ==
    ASSUME NEW type, NEW e, NEW o,
           type \in {"destroyCell", "cellReady", "cellDestroyed", "spawnRequest", "call"}
               \/ o # e
    PROVE  ~ Weighty(Signal(type, e), o)
BY DEF Weighty, Signal


-----------------------------------------------------------------------------
(* Where an entity is *)

\* The CellApps that host an authoritative body, and the connections that
\* carry a claim to become one.
Hosting(b, e) == {c \in Cells : b[c][e] = "Active"}
Bearers(n, e) == {l \in Links : \E i \in DOMAIN n[l] : Claims(n[l][i], e)}

LEMMA AlikeBearers ==
    ASSUME NEW n \in Nets, NEW n2 \in Nets, NEW e, Alike(n, n2, e)
    PROVE  Bearers(n2, e) = Bearers(n, e)
<1>1. ASSUME NEW k \in Nets, NEW l \in Links
      PROVE  (\E i \in DOMAIN k[l] : Claims(k[l][i], e))
                <=> \E m \in Messages : Claims(m, e) /\ Queued(k, l, m)
  <2>1. \A i \in DOMAIN k[l] : k[l][i] \in Messages
    <3>1. k[l] \in Seq(Messages)
        BY DEF Nets
    <3> DEFINE s == k[l]
    <3> HIDE DEF s
    <3>2. s \in Seq(Messages) => \A i \in DOMAIN s : s[i] \in Messages
        OBVIOUS
    <3> QED
        BY <3>1, <3>2 DEF s
  <2> QED
      BY <2>1 DEF Queued
<1>2. \A m \in Messages : Claims(m, e) => Weighty(m, e)
    BY DEF Claims, Weighty
<1>3. ASSUME NEW l \in Links
      PROVE  (\E m \in Messages : Claims(m, e) /\ Queued(n, l, m))
                <=> \E m \in Messages : Claims(m, e) /\ Queued(n2, l, m)
    BY <1>2 DEF Alike
<1>4. \A l \in Links : l \in Bearers(n, e) <=> l \in Bearers(n2, e)
    BY <1>1, <1>3 DEF Bearers
<1> QED
    BY <1>4 DEF Bearers

\* Where there is no claim there is no bearer, and a claim that is sent there
\* has one.
LEMMA ClaimBearers ==
    ASSUME NEW n \in Nets, NEW e, NoClaim(n, e)
    PROVE  /\ Bearers(n, e) = {}
           /\ \A l \in Links, m \in Messages :
                 Claims(m, e) => Bearers(Push(n, l, m), e) = {l}
<1>1. Bearers(n, e) = {}
    BY DEF Bearers, NoClaim, Absent, Of, ClaimTypes, Claims
<1>2. ASSUME NEW l \in Links, NEW m \in Messages, Claims(m, e)
      PROVE  Bearers(Push(n, l, m), e) = {l}
  <2>1. Queued(Push(n, l, m), l, m)
      BY PushQueued
  <2>2. \A k \in Links : \A i \in DOMAIN Push(n, l, m)[k] :
           Claims(Push(n, l, m)[k][i], e) => k = l
      BY PushMessages DEF NoClaim, Absent, Of, ClaimTypes, Claims
  <2> QED
      BY <2>1, <2>2, <1>2 DEF Bearers, Queued
<1> QED
    BY <1>1, <1>2

\* The bearer of the claim that is about to be handled is the only one.
LEMMA HeadBearer ==
    ASSUME NEW n \in Nets, NEW l \in Links, n[l] # <<>>, NEW e \in Entities,
           OneClaim(n, e), Claims(Head(n[l]), e)
    PROVE  Bearers(n, e) = {l} /\ NoClaim(Pop(n, l), e)
<1>1. 1 \in DOMAIN n[l] /\ n[l][1] = Head(n[l])
    BY PopMessages
<1>2. l \in Bearers(n, e)
    BY <1>1 DEF Bearers
<1>3. \A k \in Links : \A i \in DOMAIN n[k] : Claims(n[k][i], e) => k = l
    BY <1>1 DEF OneClaim, AtMostOne, Of, ClaimTypes, Claims
<1>4. NoClaim(Pop(n, l), e)
    BY PopClaims
<1> QED
    BY <1>2, <1>3, <1>4 DEF Bearers

\* Entity e stays where it is: hosted, claimed or neither.
Stays(e) ==
    /\ Hosting(body', e) = Hosting(body, e)
    /\ Bearers(net', e) = Bearers(net, e)
    /\ baseState'[e] = "Unborn" <=> baseState[e] = "Unborn"

\* The base creates e and asks a CellApp for its cell part, or gives up.
Asked(e) ==
    /\ baseState[e] = "Unborn" /\ baseState'[e] # "Unborn"
    /\ Hosting(body, e) = {} /\ Hosting(body', e) = {}
    /\ Bearers(net, e) = {}
    /\ \/ Bearers(net', e) = {}
       \/ \E c \in Cells : Bearers(net', e) = {<<Base, c>>}

\* The claim that is on its way to a CellApp is handled and e is hosted there.
Arrives(e) ==
    \E l \in Links :
        /\ l[2] \in Cells
        /\ Hosting(body, e) = {} /\ Bearers(net, e) = {l}
        /\ Hosting(body', e) = {l[2]}

\* The CellApp that hosts e sends its snapshot to another one.
Departs(e) ==
    \E c, t \in Cells :
        /\ c # t
        /\ Hosting(body, e) = {c}
        /\ Hosting(body', e) = {} /\ Bearers(net', e) = {<<c, t>>}

\* The CellApp that hosts e handles the base's request to destroy it.
Removed(e) ==
    \E c \in Cells :
        /\ HandleDestroyCell(c)
        /\ Head(net[<<Base, c>>]) = Signal("destroyCell", e)
        /\ Hosting(body, e) = {c}
        /\ Hosting(body', e) = {} /\ Bearers(net', e) = {}
        /\ baseState'[e] # "Unborn"

\* A step moves at most one entity.
OneMoves ==
    \/ \A o \in Entities : Stays(o)
    \/ \E e \in Entities :
          /\ Asked(e) \/ Arrives(e) \/ Departs(e) \/ Removed(e)
          /\ \A o \in Entities \ {e} : Stays(o)

-----------------------------------------------------------------------------
(* A body that waits to be committed away *)

\* On connections n, the snapshot a Migrating body of e at c left with, or the
\* commit of its epoch, is on its way along route r; and no other snapshot
\* reaches c before that commit.
Waits(n, c, e, r) ==
    /\ r # NoRoute
    /\ \/ \E m \in Messages : /\ Snapshot(m, e) /\ m.epoch = r.epoch
                              /\ Queued(n, <<c, r.target>>, m)
       \/ Queued(n, <<r.target, c>>, Commit(e, r.epoch))
    /\ \A s \in Cells \ {c} : Preceded(n, <<s, c>>, Commit(e, r.epoch), e)

Unhosted(b, e) == \A c \in Cells : b[c][e] = "None"

\* The inductive invariant for one entity: nothing hosts it before its first
\* claim is handled, and every Migrating body of it waits for something.
Answered(e) ==
    /\ baseState[e] = "Unborn" => Unhosted(body, e)
    /\ \A c \in Cells :
          Queued(net, <<Base, c>>, Signal("createCell", e)) => Unhosted(body, e)
    /\ \A c \in Cells :
          body[c][e] = "Migrating" => Waits(net, c, e, migrationRoutes[c][e])

AnsweredInv == Unlapsed => \A e \in Entities : Answered(e)

\* A body of e goes on waiting when messages that do not move e are handled
\* and sent.
LEMMA WaitsOn ==
    ASSUME NEW n, NEW n2, NEW c \in Cells, NEW e \in Entities,
           NEW r \in Routes \cup {NoRoute}, r # NoRoute => r.target # c,
           Alike(n, n2, e), Waits(n, c, e, r)
    PROVE  Waits(n2, c, e, r)
<1>1. /\ r \in Routes /\ r.target \in Cells \ {c} /\ r.epoch \in 1 .. MaxMigrations
    BY DEF Waits, Routes
<1>2. <<c, r.target>> \in Links /\ <<r.target, c>> \in Links
      /\ \A s \in Cells \ {c} : <<s, c>> \in Links
    BY <1>1, LinkType DEF Processes
<1>3. Commit(e, r.epoch) \in Messages /\ Weighty(Commit(e, r.epoch), e)
    BY <1>1 DEF Commit, Messages, Weighty
<1>4. \A m : Snapshot(m, e) => Weighty(m, e)
    BY DEF Snapshot, Weighty
<1> QED
    BY <1>2, <1>3, <1>4 DEF Waits, Alike

\* A step that does not move e, and at most removes a body of it.
LEMMA AnsweredFrame ==
    ASSUME TypeInv, NEW e \in Entities, Answered(e), Alike(net, net', e),
           \A c \in Cells : /\ body'[c][e] = body[c][e] \/ body'[c][e] = "None"
                            /\ migrationRoutes'[c][e] = migrationRoutes[c][e],
           baseState'[e] = "Unborn" => baseState[e] = "Unborn"
    PROVE  Answered(e)'
<1>1. Unhosted(body, e) => Unhosted(body', e)
    BY DEF Unhosted
<1>2. ASSUME NEW c \in Cells
      PROVE  Queued(net', <<Base, c>>, Signal("createCell", e))
                => Queued(net, <<Base, c>>, Signal("createCell", e))
  <2>1. /\ Signal("createCell", e) \in Messages
        /\ Weighty(Signal("createCell", e), e)
        /\ <<Base, c>> \in Links
      BY SignalType, BaseLinks DEF Weighty, Signal
  <2> QED
      BY <2>1 DEF Alike
<1>3. ASSUME NEW c \in Cells, body'[c][e] = "Migrating"
      PROVE  Waits(net', c, e, migrationRoutes'[c][e])
  <2>1. /\ migrationRoutes'[c][e] = migrationRoutes[c][e]
        /\ Waits(net, c, e, migrationRoutes[c][e])
      BY <1>3 DEF Answered
  <2>2. /\ migrationRoutes[c][e] \in Routes \cup {NoRoute}
        /\ migrationRoutes[c][e] # NoRoute => migrationRoutes[c][e].target # c
      BY DEF TypeInv, TypeOK, RoutesLeadAway
  <2> QED
      BY <2>1, <2>2, WaitsOn
<1>4. baseState'[e] = "Unborn" => Unhosted(body', e)
    BY <1>1 DEF Answered
<1>5. \A c \in Cells :
         Queued(net', <<Base, c>>, Signal("createCell", e)) => Unhosted(body', e)
    BY <1>1, <1>2 DEF Answered
<1> QED
    BY <1>3, <1>4, <1>5 DEF Answered, Unhosted, Waits, Preceded, Queued

LEMMA StaysFrame ==
    ASSUME NEW e \in Entities, net \in Nets, net' \in Nets, Alike(net, net', e),
           \A c \in Cells : body'[c][e] = "Active" <=> body[c][e] = "Active",
           baseState'[e] = "Unborn" <=> baseState[e] = "Unborn"
    PROVE  Stays(e)
<1>1. Bearers(net', e) = Bearers(net, e)
  <2>1. ASSUME NEW n \in Nets, NEW n2 \in Nets, Alike(n, n2, e)
        PROVE  Bearers(n2, e) = Bearers(n, e)
      BY <2>1, AlikeBearers
  <2> QED
      BY <2>1
<1>2. Hosting(body', e) = Hosting(body, e)
    BY DEF Hosting
<1> QED
    BY <1>1, <1>2 DEF Stays

LEMMA AnsweredInit == Init => AnsweredInv
<1> SUFFICES ASSUME Init, NEW e \in Entities PROVE Answered(e)
    BY DEF AnsweredInv
<1>1. /\ \A l \in Links : net[l] = << >>
      /\ \A c \in Cells : body[c][e] = "None"
    BY DEF Init
<1>2. ASSUME NEW c \in Cells
      PROVE  ~ Queued(net, <<Base, c>>, Signal("createCell", e))
  <2>1. net[<<Base, c>>] = << >>
      BY <1>1, BaseLinks
  <2> QED
      BY <2>1 DEF Queued
<1> QED
    BY <1>1, <1>2 DEF Answered, Unhosted

-----------------------------------------------------------------------------
(* What the steps do while no route lapses and no send is refused *)

\* A send of such a step was accepted.
LEMMA Accepted ==
    ASSUME TypeInv, Unlapsed',
           NEW u \in [{"calls", "lapses", "refusals", "spawns"} -> Nat],
           u["refusals"] = used["refusals"], u["lapses"] = used["lapses"],
           NEW r \in SendResults, used' = Charge(u, r)
    PROVE  r = "Accepted" /\ Unlapsed
BY DEF TypeInv, TypeOK, Unlapsed, SendResults, Charge, Spend

\* The steps that move nothing: a body's state, a route, a claim or a commit.
LightSteps ==
    \/ \E e \in Entities : \/ DestroyEntity(e)
                           \/ LeaveWorld(e)
                           \/ ClientDisconnect(e)
                           \/ CallCell(e)
    \/ \E c \in Cells : \/ HandleCellReady(c)
                        \/ HandleCellDestroyed(c)
                        \/ \E e \in Entities : RequestSpawnEntity(c, e)
                        \/ \E s \in Processes \ {c} : DispatchCall(s, c)
    \/ UNCHANGED vars

LEMMA LightShape ==
    ASSUME TypeInv, RegistryInv, EffectsInv, LightSteps, Unlapsed'
    PROVE  /\ Unlapsed /\ body' = body /\ migrationRoutes' = migrationRoutes
           /\ \A o \in Entities : /\ Alike(net, net', o)
                                  /\ baseState'[o] = "Unborn" <=> baseState[o] = "Unborn"
<1> DEFINE Uses == [{"calls", "lapses", "refusals", "spawns"} -> Nat]
<1>1. /\ net \in Nets /\ used \in Uses
      /\ baseState \in [Entities -> {"Unborn", "Active", "Destroying", "Gone"}]
      /\ cellCall \in [Entities -> Cells \cup {NoCell}]
    BY DEF TypeInv, TypeOK, Nets
<1>2. used'["refusals"] = 0 /\ used'["lapses"] = 0
    BY DEF Unlapsed
<1>3. \A c \in Cells : /\ c \in Processes /\ Base \in Processes /\ c # Base
                       /\ <<Base, c>> \in Links /\ <<c, Base>> \in Links
    BY BaseLinks, ConstantsAssumption DEF Processes
<1>4. ASSUME NEW type \in {"destroyCell", "spawnRequest", "call"},
             NEW e \in Entities, NEW l \in Links, NEW n \in Nets, NEW r, NEW o
      PROVE  /\ Send(n, l, Signal(type, e), r) \in Nets
             /\ Alike(n, Send(n, l, Signal(type, e), r), o)
  <2>1. Signal(type, e) \in Messages /\ ~ Weighty(Signal(type, e), o)
      BY SignalType, SignalLight
  <2> QED
      BY <2>1, SendType, SendAlike
<1>5. ASSUME NEW e \in Entities, DestroyEntity(e)
      PROVE  /\ Unlapsed /\ body' = body /\ migrationRoutes' = migrationRoutes
             /\ \A o \in Entities : /\ Alike(net, net', o)
                                    /\ baseState'[o] = "Unborn" <=> baseState[o] = "Unborn"
  <2>1. /\ Unlapsed /\ UNCHANGED <<body, migrationRoutes>>
        /\ baseState[e] # "Unborn"
        /\ baseState' = [baseState EXCEPT ![e] = "Destroying"]
              \/ baseState' = [baseState EXCEPT ![e] = "Gone"]
        /\ \/ net' = net
           \/ /\ cellCall[e] \in Cells
              /\ \E r : net' = Send(net, <<Base, cellCall[e]>>, Signal("destroyCell", e), r)
    <3>1. UNCHANGED <<body, migrationRoutes>> /\ baseState[e] # "Unborn"
        BY <1>5 DEF DestroyEntity, Registered, cellVars
    <3>2. CASE cellCall[e] # NoCell
      <4>1. PICK r \in SendResults :
               /\ net' = Send(net, <<Base, cellCall[e]>>, Signal("destroyCell", e), r)
               /\ used' = Charge(used, r)
          BY <1>5, <3>2 DEF DestroyEntity
      <4> QED
          BY <4>1, <3>1, <3>2, <1>5, <1>1, Accepted DEF DestroyEntity
    <3>3. CASE cellCall[e] = NoCell
        BY <3>1, <3>3, <1>5, <1>2 DEF DestroyEntity, CompleteBaseDestruction, Unlapsed
    <3> QED
        BY <3>2, <3>3
  <2>2. ASSUME NEW o \in Entities
        PROVE  Alike(net, net', o)
    <3>1. CASE net' = net
        BY <3>1, AlikeReflexive
    <3>2. ASSUME cellCall[e] \in Cells, NEW r,
                 net' = Send(net, <<Base, cellCall[e]>>, Signal("destroyCell", e), r)
          PROVE  Alike(net, net', o)
        BY <3>2, <1>1, <1>3, <1>4
    <3> QED
        BY <2>1, <3>1, <3>2
  <2> QED
      BY <2>1, <2>2, <1>1
<1>6. ASSUME NEW e \in Entities, LeaveWorld(e) \/ CallCell(e)
      PROVE  /\ Unlapsed /\ body' = body /\ migrationRoutes' = migrationRoutes
             /\ \A o \in Entities : /\ Alike(net, net', o)
                                    /\ baseState'[o] = "Unborn" <=> baseState[o] = "Unborn"
  <2>1. cellCall[e] \in Cells /\ UNCHANGED <<body, migrationRoutes, baseState>>
      BY <1>6, <1>1 DEF LeaveWorld, CallCell, baseVars, cellVars
  <2>2. ASSUME NEW type \in {"destroyCell", "call"}, NEW r \in SendResults,
               NEW u \in Uses, u = used \/ u = Spend(used, "calls"),
               net' = Send(net, <<Base, cellCall[e]>>, Signal(type, e), r),
               used' = Charge(u, r)
        PROVE  Unlapsed /\ \A o \in Entities : Alike(net, net', o)
    <3>1. u["refusals"] = used["refusals"] /\ u["lapses"] = used["lapses"]
        BY <2>2, <1>1 DEF Spend
    <3>2. Unlapsed
        BY <3>1, <2>2, Accepted
    <3> QED
        BY <3>2, <2>1, <2>2, <1>1, <1>3, <1>4
  <2>3. CASE LeaveWorld(e)
      BY <2>1, <2>2, <2>3, <1>1 DEF LeaveWorld
  <2>4. CASE CallCell(e)
    <3>1. Spend(used, "calls") \in Uses
        BY <1>1, ChargeType
    <3> QED
        BY <2>1, <2>2, <2>4, <3>1 DEF CallCell
  <2> QED
      BY <1>6, <2>3, <2>4
<1>7. ASSUME NEW e \in Entities, ClientDisconnect(e)
      PROVE  /\ Unlapsed /\ body' = body /\ migrationRoutes' = migrationRoutes
             /\ \A o \in Entities : /\ Alike(net, net', o)
                                    /\ baseState'[o] = "Unborn" <=> baseState[o] = "Unborn"
  <2> DEFINE l == <<Base, cellCall[e]>>
             m == Signal("destroyCell", e)
  <2>1. PICK r1 \in SendResults, r2 \in SendResults :
           net' = Send(Send(net, l, m, r1), l, m, r2) /\ used' = Charge(Charge(used, r1), r2)
      BY <1>7 DEF ClientDisconnect
  <2>2. Unlapsed
      BY <2>1, <1>1, <1>2 DEF SendResults, Charge, Spend, Unlapsed
  <2>3. /\ l \in Links
        /\ baseState' = [baseState EXCEPT ![e] = "Destroying"]
        /\ baseState[e] = "Active"
        /\ UNCHANGED <<body, migrationRoutes>>
      BY <1>7, <1>3, <1>1 DEF ClientDisconnect, cellVars
  <2> DEFINE n == Send(net, l, m, r1)
  <2>4. n \in Nets /\ \A o \in Entities : Alike(net, n, o)
      BY <2>3, <1>4, <1>1
  <2>5. \A o \in Entities : Alike(n, net', o)
    <3>1. net' = Send(n, l, m, r2)
        BY <2>1
    <3> HIDE DEF n, l
    <3> QED
        BY <3>1, <2>3, <2>4, <1>4
  <2>6. \A o \in Entities : Alike(net, net', o)
    <3> HIDE DEF n
    <3> QED
        BY <2>4, <2>5, AlikeTransitive
  <2> QED
      BY <2>2, <2>3, <2>6, <1>1
<1>8. ASSUME NEW c \in Cells, HandleCellReady(c) \/ HandleCellDestroyed(c)
      PROVE  /\ Unlapsed /\ body' = body /\ migrationRoutes' = migrationRoutes
             /\ \A o \in Entities : /\ Alike(net, net', o)
                                    /\ baseState'[o] = "Unborn" <=> baseState[o] = "Unborn"
  <2> DEFINE l == <<c, Base>>
             e == Head(net[l]).e
  <2>1. /\ l \in Links /\ net[l] # <<>> /\ net' = Pop(net, l)
        /\ Head(net[l]).type \in {"cellReady", "cellDestroyed"}
        /\ Unlapsed
        /\ UNCHANGED <<body, migrationRoutes>>
        /\ \/ baseState' = baseState
           \/ /\ baseState' = [baseState EXCEPT ![e] = "Gone"]
              /\ e \in pendingDestructions
      BY <1>8, <1>3, <1>2
      DEF HandleCellReady, HandleCellDestroyed, CompleteBaseDestruction, Arrived,
          cellVars, Unlapsed
  <2>2. \A o \in Entities : Alike(net, net', o)
    <3>1. \A o \in Entities : ~ Weighty(Head(net[l]), o)
        BY <2>1 DEF Weighty
    <3> QED
        BY <3>1, <2>1, <1>1, PopAlike
  <2>3. e \in Entities /\ (e \in pendingDestructions => baseState[e] # "Unborn")
      BY <2>1, <1>1, PopType DEF Messages, RegistryInv, Registry
  <2> HIDE DEF e, l
  <2> QED
      BY <2>1, <2>2, <2>3, <1>1
<1>9. ASSUME NEW c \in Cells, NEW e \in Entities, RequestSpawnEntity(c, e)
      PROVE  /\ Unlapsed /\ body' = body /\ migrationRoutes' = migrationRoutes
             /\ \A o \in Entities : /\ Alike(net, net', o)
                                    /\ baseState'[o] = "Unborn" <=> baseState[o] = "Unborn"
  <2>1. PICK r \in SendResults :
           /\ net' = Send(net, <<c, Base>>, Signal("spawnRequest", e), r)
           /\ used' = Charge(Spend(used, "spawns"), r)
      BY <1>9 DEF RequestSpawnEntity
  <2>2. /\ Spend(used, "spawns") \in Uses
        /\ Spend(used, "spawns")["refusals"] = used["refusals"]
        /\ Spend(used, "spawns")["lapses"] = used["lapses"]
      BY <1>1 DEF Spend
  <2>3. Unlapsed
      BY <2>1, <2>2, Accepted
  <2>4. UNCHANGED <<body, migrationRoutes, baseState>>
      BY <1>9 DEF RequestSpawnEntity, baseVars, cellVars
  <2> QED
      BY <2>1, <2>3, <2>4, <1>1, <1>3, <1>4
<1>10. ASSUME NEW c \in Cells, NEW s \in Processes \ {c}, DispatchCall(s, c)
      PROVE  /\ Unlapsed /\ body' = body /\ migrationRoutes' = migrationRoutes
             /\ \A o \in Entities : /\ Alike(net, net', o)
                                    /\ baseState'[o] = "Unborn" <=> baseState[o] = "Unborn"
  <2> DEFINE l == <<s, c>>
             m == Head(net[l])
             n == Pop(net, l)
  <2>1. /\ l \in Links /\ net[l] # <<>> /\ m.type = "call"
        /\ UNCHANGED <<baseState, body>>
      BY <1>10, LinkType DEF DispatchCall, Arrived, Processes, baseVars
  <2>2. /\ n \in Nets /\ m \in Messages /\ m.e \in Entities /\ m = Signal("call", m.e)
      BY <2>1, <1>1, PopType, HeadSignal
  <2>3. \A o \in Entities : Alike(net, n, o)
    <3>1. \A o \in Entities : ~ Weighty(m, o)
        BY <2>1 DEF Weighty
    <3> QED
        BY <3>1, <2>1, <1>1, PopAlike
  <2>4. CASE /\ net' = n
             /\ migrationRoutes' = IF Lapsed(c, m.e)
                                   THEN [migrationRoutes EXCEPT ![c][m.e] = NoRoute]
                                   ELSE migrationRoutes
             /\ UNCHANGED used
    <3> HIDE DEF m, n
    <3>1. Unlapsed
        BY <2>4, <1>2 DEF Unlapsed
    <3>2. ~ Lapsed(c, m.e)
        BY <2>2, <3>1 DEF EffectsInv, Effects, Lapsed
    <3> QED
        BY <3>1, <3>2, <2>1, <2>3, <2>4
  <2>5. ASSUME InWindow(c, m.e), NEW r \in SendResults,
               net' = Send(n, <<c, migrationRoutes[c][m.e].target>>, m, r),
               used' = Charge(used, r), UNCHANGED migrationRoutes
        PROVE  Unlapsed /\ \A o \in Entities : Alike(net, net', o)
    <3>1. <<c, migrationRoutes[c][m.e].target>> \in Links
      <4>1. migrationRoutes[c][m.e].target \in Cells \ {c}
          BY <2>5, <2>2 DEF InWindow, RoutesLeadAway, Routes, TypeInv, TypeOK
      <4> QED
          BY <4>1, LinkType DEF Processes
    <3>2. Unlapsed
        BY <2>5, <1>1, Accepted
    <3> HIDE DEF m, n
    <3>3. \A o \in Entities : Alike(n, net', o)
        BY <2>2, <2>5, <3>1, <1>4
    <3> QED
        BY <3>2, <3>3, <2>3, AlikeTransitive
  <2> HIDE DEF m, n
  <2> QED
      BY <1>10, <2>1, <2>4, <2>5 DEF DispatchCall, m, n
<1>11. CASE UNCHANGED vars
  <2>1. Unlapsed /\ UNCHANGED <<body, migrationRoutes, baseState, net>>
      BY <1>11, <1>2 DEF vars, baseVars, cellVars, Unlapsed
  <2> QED
      BY <2>1, AlikeReflexive
<1> QED
    BY <1>5, <1>6, <1>7, <1>8, <1>9, <1>10, <1>11 DEF LightSteps

\* What is known of a state no route has lapsed in.
Sound == /\ TypeInv /\ AuthorityInv /\ RegistryInv /\ EffectsInv /\ AnsweredInv
         /\ TypeInv' /\ Unlapsed'

\* A step that does not concern o.
LEMMA OtherStep ==
    ASSUME TypeInv, TypeInv', NEW o \in Entities, Answered(o),
           Alike(net, net', o),
           \A c \in Cells : /\ body'[c][o] = body[c][o]
                            /\ migrationRoutes'[c][o] = migrationRoutes[c][o],
           baseState'[o] = "Unborn" <=> baseState[o] = "Unborn"
    PROVE  Stays(o) /\ Answered(o)'
<1>1. net \in Nets /\ net' \in Nets
    BY DEF TypeInv, TypeOK, Nets
<1>2. Stays(o)
    BY <1>1, StaysFrame
<1>3. Answered(o)'
    BY AnsweredFrame
<1> QED
    BY <1>2, <1>3

LEMMA LightAnswered ==
    ASSUME Sound, LightSteps
    PROVE  OneMoves /\ \A o \in Entities : Answered(o)'
<1>1. /\ Unlapsed /\ body' = body /\ migrationRoutes' = migrationRoutes
      /\ \A o \in Entities : /\ Alike(net, net', o)
                             /\ baseState'[o] = "Unborn" <=> baseState[o] = "Unborn"
    BY LightShape DEF Sound
<1>2. ASSUME NEW o \in Entities
      PROVE  Stays(o) /\ Answered(o)'
    BY <1>1, OtherStep DEF Sound, AnsweredInv
<1> QED
    BY <1>2 DEF OneMoves

\* The steps that create an entity: its cell part is asked for, or, for a
\* spawn nobody waits for any more, it is given up at once.
Born(e) ==
    /\ baseState[e] = "Unborn" /\ baseState'[e] # "Unborn"
    /\ \A o \in Entities \ {e} : Alike(net, net', o) /\ baseState'[o] = baseState[o]
    /\ \E n \in Nets :
          /\ NoClaim(net, e) => NoClaim(n, e)
          /\ \/ net' = n
             \/ \E c \in Cells : net' = Push(n, <<Base, c>>, Signal("createCell", e))

LEMMA BornShape ==
    ASSUME Sound,
           \/ \E e \in Entities, c \in Cells : EnterGame(e, c)
           \/ \E c \in Cells : HandleSpawnRequest(c)
    PROVE  /\ Unlapsed /\ body' = body /\ migrationRoutes' = migrationRoutes
           /\ \/ /\ baseState' = baseState
                 /\ \A o \in Entities : Alike(net, net', o)
              \/ \E e \in Entities : Born(e)
<1>1. /\ net \in Nets /\ used \in [{"calls", "lapses", "refusals", "spawns"} -> Nat]
      /\ baseState \in [Entities -> {"Unborn", "Active", "Destroying", "Gone"}]
      /\ cellCall \in [Entities -> Cells \cup {NoCell}]
      /\ TypeInv /\ Unlapsed'
    BY DEF Sound, TypeInv, TypeOK, Nets
<1>2. \A c \in Cells : <<Base, c>> \in Links /\ <<c, Base>> \in Links
    BY BaseLinks
<1>3. ASSUME NEW n \in Nets, NEW e \in Entities, NEW c \in Cells, NEW r \in SendResults,
             \A o \in Entities : Alike(net, n, o),
             NoClaim(net, e) => NoClaim(n, e),
             baseState[e] = "Unborn", baseState' = [baseState EXCEPT ![e] = "Active"],
             net' = Send(n, <<Base, c>>, Signal("createCell", e), r),
             used' = Charge(used, r)
      PROVE  Unlapsed /\ Born(e)
  <2>1. r = "Accepted" /\ Unlapsed
      BY <1>1, <1>3, Accepted
  <2>2. net' = Push(n, <<Base, c>>, Signal("createCell", e))
      BY <2>1, <1>3 DEF Send
  <2>3. ASSUME NEW o \in Entities \ {e}
        PROVE  Alike(net, net', o)
    <3>1. Signal("createCell", e) \in Messages /\ ~ Weighty(Signal("createCell", e), o)
        BY SignalType, SignalLight
    <3>2. Alike(n, net', o)
        BY <3>1, <1>2, <1>3, SendAlike
    <3> QED
        BY <3>2, <1>3, AlikeTransitive
  <2> QED
      BY <2>1, <2>2, <2>3, <1>1, <1>3 DEF Born
<1>4. ASSUME NEW e \in Entities, NEW c \in Cells, EnterGame(e, c)
      PROVE  Unlapsed /\ Born(e) /\ body' = body /\ migrationRoutes' = migrationRoutes
  <2>1. \A o \in Entities : Alike(net, net, o)
      BY AlikeReflexive
  <2>2. PICK r \in SendResults : /\ net' = Send(net, <<Base, c>>, Signal("createCell", e), r)
                                 /\ used' = Charge(used, r)
      BY <1>4 DEF EnterGame
  <2>3. /\ baseState[e] = "Unborn" /\ baseState' = [baseState EXCEPT ![e] = "Active"]
        /\ body' = body /\ migrationRoutes' = migrationRoutes
      BY <1>4 DEF EnterGame, cellVars
  <2> QED
      BY <2>1, <2>2, <2>3, <1>1, <1>3
<1>5. ASSUME NEW c \in Cells, HandleSpawnRequest(c)
      PROVE  /\ Unlapsed /\ body' = body /\ migrationRoutes' = migrationRoutes
             /\ \/ /\ baseState' = baseState
                   /\ \A o \in Entities : Alike(net, net', o)
                \/ \E e \in Entities : Born(e)
  <2> DEFINE l == <<c, Base>>
             requester == Head(net[l]).e
             n == Pop(net, l)
  <2>1. /\ l \in Links /\ net[l] # <<>> /\ Head(net[l]).type = "spawnRequest"
        /\ body' = body /\ migrationRoutes' = migrationRoutes
      BY <1>5, <1>2 DEF HandleSpawnRequest, Arrived, cellVars
  <2>2. /\ n \in Nets /\ requester \in Entities
        /\ cellCall[requester] # NoCell => cellCall[requester] \in Cells
      BY <2>1, <1>1, PopType DEF Messages
  <2>3. \A o \in Entities : Alike(net, n, o) /\ (NoClaim(net, o) => NoClaim(n, o))
    <3>1. \A o \in Entities : ~ Weighty(Head(net[l]), o)
        BY <2>1 DEF Weighty
    <3> QED
        BY <3>1, <2>1, <1>1, PopAlike, PopClaims
  <2>4. CASE net' = n /\ UNCHANGED <<baseState, used>>
      BY <2>1, <2>3, <2>4, <1>1 DEF Unlapsed
  <2>5. ASSUME NEW e \in Entities, baseState[e] = "Unborn",
               baseState' = [baseState EXCEPT ![e] = "Gone"], net' = n, UNCHANGED used
        PROVE  Unlapsed /\ Born(e)
    <3>1. Unlapsed
        BY <2>5, <1>1 DEF Unlapsed
    <3> HIDE DEF n
    <3> QED
        BY <3>1, <2>2, <2>3, <2>5, <1>1 DEF Born
  <2>6. ASSUME NEW e \in Entities, NEW d \in Cells, NEW r \in SendResults,
               baseState[e] = "Unborn", baseState' = [baseState EXCEPT ![e] = "Active"],
               net' = Send(n, <<Base, d>>, Signal("createCell", e), r),
               used' = Charge(used, r)
        PROVE  Unlapsed /\ Born(e)
    <3> HIDE DEF n
    <3> QED
        BY <2>2, <2>3, <2>6, <1>3
  <2> HIDE DEF n, requester
  <2> QED
      BY <1>5, <2>1, <2>2, <2>4, <2>5, <2>6 DEF HandleSpawnRequest, n, requester
<1> QED
    BY <1>4, <1>5

LEMMA BornAnswered ==
    ASSUME Sound,
           \/ \E e \in Entities, c \in Cells : EnterGame(e, c)
           \/ \E c \in Cells : HandleSpawnRequest(c)
    PROVE  OneMoves /\ \A o \in Entities : Answered(o)'
<1>1. /\ Unlapsed /\ body' = body /\ migrationRoutes' = migrationRoutes
      /\ \/ /\ baseState' = baseState
            /\ \A o \in Entities : Alike(net, net', o)
         \/ \E e \in Entities : Born(e)
    BY BornShape
<1>2. \A o \in Entities : Answered(o)
    BY <1>1 DEF Sound, AnsweredInv
<1>3. CASE baseState' = baseState /\ \A o \in Entities : Alike(net, net', o)
  <2>1. ASSUME NEW o \in Entities
        PROVE  Stays(o) /\ Answered(o)'
      BY <1>1, <1>2, <1>3, OtherStep DEF Sound
  <2> QED
      BY <2>1 DEF OneMoves
<1>4. ASSUME NEW e \in Entities, Born(e)
      PROVE  OneMoves /\ \A o \in Entities : Answered(o)'
  <2>1. ASSUME NEW o \in Entities \ {e}
        PROVE  Stays(o) /\ Answered(o)'
      BY <1>1, <1>2, <1>4, OtherStep DEF Sound, Born
  <2>2. Unhosted(body, e) /\ baseState[e] = "Unborn" /\ baseState'[e] # "Unborn"
      BY <1>2, <1>4 DEF Answered, Born
  <2>3. Answered(e)'
      BY <1>1, <2>2 DEF Answered, Unhosted
  <2>4. NoClaim(net, e)
      BY <2>2 DEF Sound, AuthorityInv, Authority
  <2>5. net \in Nets
      BY DEF Sound, TypeInv, TypeOK, Nets
  <2>6. PICK n \in Nets : /\ NoClaim(n, e)
                          /\ \/ net' = n
                             \/ \E c \in Cells :
                                   net' = Push(n, <<Base, c>>, Signal("createCell", e))
      BY <1>4, <2>4 DEF Born
  <2>7. ASSUME NEW c \in Cells
        PROVE  Bearers(Push(n, <<Base, c>>, Signal("createCell", e)), e) = {<<Base, c>>}
    <3>1. /\ Signal("createCell", e) \in Messages /\ <<Base, c>> \in Links
          /\ Claims(Signal("createCell", e), e)
        BY SignalType, BaseLinks DEF Claims, Signal
    <3> QED
        BY <3>1, <2>6, ClaimBearers
  <2>8. Bearers(net, e) = {} /\ Bearers(n, e) = {}
      BY <2>4, <2>5, <2>6, ClaimBearers
  <2>9. Hosting(body, e) = {} /\ Hosting(body', e) = {}
      BY <1>1, <2>2 DEF Hosting, Unhosted
  <2>10. Asked(e)
      BY <2>2, <2>6, <2>7, <2>8, <2>9 DEF Asked
  <2> QED
      BY <2>1, <2>3, <2>10 DEF OneMoves
<1> QED
    BY <1>1, <1>3, <1>4

LEMMA PopBearers ==
    ASSUME NEW n \in Nets, NEW l \in Links, n[l] # <<>>, NEW e, ~ Claims(Head(n[l]), e)
    PROVE  Bearers(Pop(n, l), e) = Bearers(n, e)
<1> DEFINE s == n[l]
           t == Pop(n, l)[l]
<1>1. s \in Seq(Messages) /\ s # <<>> /\ t = Tail(s)
    BY DEF Nets, Pop
<1>2. /\ \A i \in DOMAIN s : i # 1 => i - 1 \in DOMAIN t /\ t[i - 1] = s[i]
      /\ s[1] = Head(s)
      /\ \A i \in DOMAIN t : i + 1 \in DOMAIN s /\ t[i] = s[i + 1]
  <2> HIDE DEF s, t
  <2> QED
      BY <1>1
<1> HIDE DEF s, t
<1>3. (\E i \in DOMAIN t : Claims(t[i], e)) <=> (\E i \in DOMAIN s : Claims(s[i], e))
    BY <1>2 DEF s
<1>4. \A k \in Links \ {l} : Pop(n, l)[k] = n[k]
    BY PopMessages
<1>5. ASSUME NEW k \in Links
      PROVE  k \in Bearers(Pop(n, l), e) <=> k \in Bearers(n, e)
    BY <1>3, <1>4 DEF Bearers, s, t
<1> QED
    BY <1>5 DEF Bearers

\* Without a claim there is no request for a body and no snapshot.
LEMMA NoClaimQueued ==
    ASSUME NEW n \in Nets, NEW e \in Entities, NoClaim(n, e), NEW l \in Links
    PROVE  /\ ~ Queued(n, l, Signal("createCell", e))
           /\ \A m : Snapshot(m, e) => ~ Queued(n, l, m)
           /\ \A a : Preceded(n, l, a, e)
<1>1. \A i \in DOMAIN n[l] : ~ Claims(n[l][i], e)
    BY DEF NoClaim, Absent, Of, ClaimTypes, Claims
<1> QED
    BY <1>1 DEF Queued, Snapshot, Preceded, Claims, Signal

\* With a claim in flight nothing hosts the entity, and it was created.
LEMMA ClaimExcludes ==
    ASSUME Sound, NEW e \in Entities, NEW l \in Links, net[l] # <<>>,
           Claims(Head(net[l]), e)
    PROVE  /\ Bearers(net, e) = {l} /\ NoClaim(Pop(net, l), e)
           /\ Hosting(body, e) = {} /\ \A c \in Cells : body[c][e] # "Active"
           /\ baseState[e] # "Unborn"
<1>1. net \in Nets /\ Authority(e)
    BY DEF Sound, TypeInv, TypeOK, Nets, AuthorityInv
<1>2. Bearers(net, e) = {l} /\ NoClaim(Pop(net, l), e)
  <2>1. ASSUME NEW n \in Nets, n[l] # <<>>, OneClaim(n, e), Claims(Head(n[l]), e)
        PROVE  Bearers(n, e) = {l} /\ NoClaim(Pop(n, l), e)
      BY <2>1, HeadBearer
  <2> QED
      BY <2>1, <1>1 DEF Authority
<1>3. ~ NoClaim(net, e)
  <2>1. 1 \in DOMAIN net[l] /\ net[l][1] = Head(net[l])
      BY <1>1, PopMessages
  <2> QED
      BY <2>1 DEF NoClaim, Absent, Of, ClaimTypes, Claims
<1>4. \A c \in Cells : body[c][e] # "Active"
    BY <1>1, <1>3 DEF Authority
<1> QED
    BY <1>1, <1>2, <1>3, <1>4 DEF Authority, Hosting

LEMMA CreateAnswered ==
    ASSUME Sound, NEW c \in Cells, HandleCreateCell(c)
    PROVE  OneMoves /\ \A o \in Entities : Answered(o)'
<1> DEFINE l == <<Base, c>>
           e == Head(net[l]).e
           n == Pop(net, l)
<1>1. /\ net \in Nets /\ used \in [{"calls", "lapses", "refusals", "spawns"} -> Nat]
      /\ body \in [Cells -> [Entities -> {"None", "Active", "Migrating"}]]
      /\ TypeInv /\ TypeInv' /\ Unlapsed'
    BY DEF Sound, TypeInv, TypeOK, Nets
<1>2. /\ l \in Links /\ <<c, Base>> \in Links
      /\ net[l] # <<>> /\ Head(net[l]).type = "createCell"
      /\ baseState' = baseState /\ migrationRoutes' = migrationRoutes
    BY BaseLinks DEF HandleCreateCell, Arrived, baseVars
<1>3. /\ n \in Nets /\ e \in Entities /\ Head(net[l]) = Signal("createCell", e)
      /\ Claims(Head(net[l]), e)
  <2>1. n \in Nets /\ Head(net[l]) \in Messages
      BY <1>1, <1>2, PopType
  <2> QED
      BY <2>1, <1>2, HeadSignal DEF Claims
<1>4. /\ Bearers(net, e) = {l} /\ NoClaim(n, e)
      /\ Hosting(body, e) = {} /\ baseState[e] # "Unborn"
  <2> HIDE DEF l, e
  <2> QED
      BY <1>2, <1>3, ClaimExcludes
<1>5. ~ Hosts(c, e) /\ Unlapsed
  <2>1. Unlapsed
    <3>1. CASE UNCHANGED used
        BY <3>1, <1>1 DEF Unlapsed
    <3>2. ASSUME NEW r \in SendResults, used' = Charge(used, r)
          PROVE  Unlapsed
        BY <3>2, <1>1, Accepted
    <3> QED
        BY <3>1, <3>2 DEF HandleCreateCell
  <2>2. Queued(net, l, Signal("createCell", e))
    <3>1. 1 \in DOMAIN net[l] /\ net[l][1] = Head(net[l])
        BY <1>1, <1>2, PopMessages
    <3> QED
        BY <3>1, <1>3 DEF Queued
  <2>3. Unhosted(body, e)
      BY <2>1, <2>2, <1>3 DEF Sound, AnsweredInv, Answered
  <2> QED
      BY <2>1, <2>3 DEF Unhosted, Hosts
<1>6. Unhosted(body, e)
  <2>1. Queued(net, l, Signal("createCell", e))
    <3>1. 1 \in DOMAIN net[l] /\ net[l][1] = Head(net[l])
        BY <1>1, <1>2, PopMessages
    <3> QED
        BY <3>1, <1>3 DEF Queued
  <2> QED
      BY <2>1, <1>3, <1>5 DEF Sound, AnsweredInv, Answered
<1>7. PICK r \in SendResults : net' = Send(n, <<c, Base>>, Signal("cellReady", e), r)
    BY <1>5 DEF HandleCreateCell
<1>8. body' = [body EXCEPT ![c][e] = "Active"]
    BY <1>5 DEF HandleCreateCell
<1> HIDE DEF l, e, n
<1>9. \A d \in Cells, x \in Entities :
         body'[d][x] = IF d = c /\ x = e THEN "Active" ELSE body[d][x]
    BY <1>1, <1>3, <1>8, TableUpdate
<1>10. Signal("cellReady", e) \in Messages
       /\ \A o \in Entities : ~ Weighty(Signal("cellReady", e), o)
    BY <1>3, SignalType, SignalLight
<1>11. ASSUME NEW o \in Entities \ {e}
       PROVE  Stays(o) /\ Answered(o)'
  <2>1. Alike(net, n, o)
    <3>1. ~ Weighty(Head(net[l]), o)
        BY <1>3 DEF Weighty, Claims
    <3> QED
        BY <3>1, <1>1, <1>2, PopAlike DEF n
  <2>2. Alike(n, net', o)
      BY <1>2, <1>3, <1>7, <1>10, SendAlike
  <2>3. Alike(net, net', o)
      BY <2>1, <2>2, AlikeTransitive
  <2>4. Answered(o)
      BY <1>5 DEF Sound, AnsweredInv
  <2>5. \A d \in Cells : body'[d][o] = body[d][o]
      BY <1>9
  <2> QED
      BY <2>3, <2>4, <2>5, <1>1, <1>2, OtherStep
<1>12. NoClaim(net', e)
  <2>1. ~ Claims(Signal("cellReady", e), e)
      BY DEF Claims, Signal
  <2> QED
      BY <2>1, <1>2, <1>3, <1>4, <1>7, <1>10, SendClaims
<1>13. net' \in Nets
    BY <1>1 DEF TypeInv, TypeOK, Nets
<1>14. \A d \in Cells : body'[d][e] = IF d = c THEN "Active" ELSE "None"
    BY <1>3, <1>6, <1>9 DEF Unhosted
<1>15. ASSUME NEW o \in Entities, o = e
       PROVE  Answered(o)'
  <2>1. ASSUME NEW k \in Nets, NoClaim(k, e), NEW d \in Cells
        PROVE  ~ Queued(k, <<Base, d>>, Signal("createCell", e))
      BY <2>1, <1>3, BaseLinks, NoClaimQueued
  <2>2. \A d \in Cells : ~ Queued(net', <<Base, d>>, Signal("createCell", o))
      BY <2>1, <1>12, <1>13, <1>15
  <2>3. baseState'[o] # "Unborn" /\ \A d \in Cells : body'[d][o] # "Migrating"
      BY <1>2, <1>4, <1>14, <1>15
  <2> QED
      BY <2>2, <2>3 DEF Answered, Queued
<1>16. Arrives(e)
  <2>1. Hosting(body', e) = {c}
      BY <1>14 DEF Hosting
  <2>2. l[2] = c
      BY DEF l
  <2> QED
      BY <2>1, <2>2, <1>2, <1>4 DEF Arrives
<1> QED
    BY <1>3, <1>11, <1>15, <1>16 DEF OneMoves

LEMMA DestroyAnswered ==
    ASSUME Sound, NEW c \in Cells, HandleDestroyCell(c)
    PROVE  OneMoves /\ \A o \in Entities : Answered(o)'
<1> DEFINE l == <<Base, c>>
           e == Head(net[l]).e
           n == Pop(net, l)
<1>1. /\ net \in Nets /\ net' \in Nets
      /\ used \in [{"calls", "lapses", "refusals", "spawns"} -> Nat]
      /\ body \in [Cells -> [Entities -> {"None", "Active", "Migrating"}]]
      /\ TypeInv /\ TypeInv' /\ Unlapsed'
    BY DEF Sound, TypeInv, TypeOK, Nets
<1>2. /\ l \in Links /\ <<c, Base>> \in Links
      /\ net[l] # <<>> /\ Head(net[l]).type = "destroyCell"
      /\ baseState' = baseState /\ migrationRoutes' = migrationRoutes
    BY BaseLinks DEF HandleDestroyCell, Arrived, baseVars
<1>3. n \in Nets /\ e \in Entities /\ Head(net[l]) = Signal("destroyCell", e)
  <2>1. n \in Nets /\ Head(net[l]) \in Messages
      BY <1>1, <1>2, PopType
  <2> QED
      BY <2>1, <1>2, HeadSignal
<1>4. ASSUME NEW o \in Entities
      PROVE  Alike(net, n, o)
  <2>1. ~ Weighty(Head(net[l]), o)
      BY <1>2 DEF Weighty
  <2> QED
      BY <2>1, <1>1, <1>2, PopAlike
<1>5. CASE net' = n /\ UNCHANGED <<body, used>>
  <2>1. Unlapsed
      BY <1>1, <1>5 DEF Unlapsed
  <2>2. ASSUME NEW o \in Entities
        PROVE  Stays(o) /\ Answered(o)'
    <3>1. Answered(o)
        BY <2>1 DEF Sound, AnsweredInv
    <3> QED
        BY <3>1, <1>1, <1>2, <1>4, <1>5, OtherStep
  <2> QED
      BY <2>2 DEF OneMoves
<1>6. ASSUME NEW r \in SendResults, used' = Charge(used, r),
             body' = [body EXCEPT ![c][e] = "None"],
             net' = Send(n, <<c, Base>>, Signal("cellDestroyed", e), r)
      PROVE  OneMoves /\ \A o \in Entities : Answered(o)'
  <2>1. Unlapsed
      BY <1>1, <1>6, Accepted
  <2> HIDE DEF e, n
  <2>2. \A d \in Cells, x \in Entities :
           body'[d][x] = IF d = c /\ x = e THEN "None" ELSE body[d][x]
      BY <1>1, <1>3, <1>6, TableUpdate
  <2>3. ASSUME NEW o \in Entities
        PROVE  Alike(net, net', o)
    <3>1. Signal("cellDestroyed", e) \in Messages /\ ~ Weighty(Signal("cellDestroyed", e), o)
        BY <1>3, SignalType, SignalLight
    <3>2. Alike(n, net', o)
        BY <3>1, <1>2, <1>3, <1>6, SendAlike
    <3> QED
        BY <3>2, <1>4, AlikeTransitive
  <2>4. ASSUME NEW o \in Entities
        PROVE  Answered(o)'
    <3>1. Answered(o)
        BY <2>1 DEF Sound, AnsweredInv
    <3>2. \A d \in Cells : body'[d][o] = body[d][o] \/ body'[d][o] = "None"
        BY <2>2
    <3> QED
        BY <3>1, <3>2, <2>3, <1>1, <1>2, AnsweredFrame
  <2>5. ASSUME NEW o \in Entities, o # e \/ body[c][e] # "Active"
        PROVE  Stays(o)
    <3>1. \A d \in Cells : body'[d][o] = "Active" <=> body[d][o] = "Active"
        BY <2>2, <2>5
    <3> QED
        BY <3>1, <2>3, <1>1, <1>2, StaysFrame
  <2>6. CASE body[c][e] # "Active"
      BY <2>4, <2>5, <2>6 DEF OneMoves
  <2>7. CASE body[c][e] = "Active"
    <3>1. /\ NoClaim(net, e) /\ baseState[e] # "Unborn"
          /\ \A d \in Cells : body[d][e] = "Active" => d = c
        BY <2>7, <1>3 DEF Sound, AuthorityInv, Authority
    <3>2. Hosting(body, e) = {c} /\ Hosting(body', e) = {}
        BY <3>1, <2>2, <2>7, <1>3 DEF Hosting
    <3>3. Bearers(net', e) = {}
      <4>1. Bearers(net, e) = {}
          BY <3>1, <1>1, ClaimBearers
      <4>2. ASSUME NEW k \in Nets, Alike(net, k, e)
            PROVE  Bearers(k, e) = Bearers(net, e)
          BY <4>2, <1>1, AlikeBearers
      <4> QED
          BY <4>1, <4>2, <2>3, <1>1, <1>3
    <3>4. Removed(e)
        BY <3>1, <3>2, <3>3, <1>2, <1>3 DEF Removed
    <3> QED
        BY <3>4, <2>4, <2>5, <1>3 DEF OneMoves
  <2> QED
      BY <2>6, <2>7
<1> QED
    BY <1>5, <1>6 DEF HandleDestroyCell, TellDestroyed

\* The game layer hands an entity to a CellApp that still has a body of it only
\* back to where it came from: the commit of the first migration is then on the
\* connection in front of the snapshot of the second.
Direct ==
    \A c, t \in Cells, e \in Entities :
        BeginMigration(c, t, e) /\ Hosts(t, e) => migrationRoutes[t][e].target = c

LEMMA BeginAnswered ==
    ASSUME Sound, Direct, NEW c \in Cells, NEW t \in Cells, NEW e \in Entities,
           BeginMigration(c, t, e)
    PROVE  OneMoves /\ \A o \in Entities : Answered(o)'
<1>1. /\ net \in Nets /\ net' \in Nets
      /\ used \in [{"calls", "lapses", "refusals", "spawns"} -> Nat]
      /\ body \in [Cells -> [Entities -> {"None", "Active", "Migrating"}]]
      /\ work \in [Cells -> [Entities -> Nat]]
      /\ migrationRoutes \in [Cells -> [Entities -> Routes \cup {NoRoute}]]
      /\ epochs \in 0 .. MaxMigrations
      /\ TypeInv /\ TypeInv' /\ Unlapsed'
    BY DEF Sound, TypeInv, TypeOK, Nets
<1>2. PICK m : m = [type |-> "transfer", e |-> e, epoch |-> epochs + 1, work |-> work[c][e]]
    OBVIOUS
<1>3. PICK route : route = [target |-> t, epoch |-> epochs + 1, expired |-> FALSE]
    OBVIOUS
<1>4. /\ Unlapsed /\ net' = Push(net, <<c, t>>, m)
      /\ body' = [body EXCEPT ![c][e] = "Migrating"]
      /\ migrationRoutes' = [migrationRoutes EXCEPT ![c][e] = route]
  <2>1. PICK r \in SendResults :
           /\ used' = Charge(used, r)
           /\ \/ /\ r = "Accepted"
                 /\ net' = Push(net, <<c, t>>, m)
                 /\ Leaving(c, e)
                 /\ OpenRoute(c, e, t, epochs + 1)
              \/ r = "Refused"
      BY <1>2 DEF BeginMigration
  <2>2. r = "Accepted" /\ Unlapsed
      BY <2>1, <1>1, Accepted
  <2> QED
      BY <2>1, <2>2, <1>3 DEF Leaving, OpenRoute
<1>5. /\ baseState' = baseState /\ t # c /\ body[c][e] = "Active"
      /\ epochs + 1 \in 1 .. MaxMigrations
    BY <1>1, ConstantsAssumption DEF BeginMigration, baseVars
<1>6. /\ m \in Messages /\ Claims(m, e) /\ Snapshot(m, e) /\ m.epoch = epochs + 1
      /\ \A o \in Entities \ {e} : ~ Weighty(m, o)
    BY <1>1, <1>2, <1>5 DEF Messages, Claims, Snapshot, Weighty
<1>7. /\ route \in Routes /\ route # NoRoute
      /\ route.target = t /\ route.epoch = epochs + 1
  <2>1. route.target = t /\ route.epoch = epochs + 1 /\ route \in Routes
      BY <1>3, <1>5 DEF Routes
  <2> QED
      BY <2>1, NoRouteAssumption
<1>8. <<c, t>> \in Links /\ \A d, s \in Cells : d # s => <<d, s>> \in Links
    BY <1>5, LinkType DEF Processes
<1>9. \A d \in Cells, x \in Entities :
         /\ body'[d][x] = IF d = c /\ x = e THEN "Migrating" ELSE body[d][x]
         /\ migrationRoutes'[d][x] = IF d = c /\ x = e THEN route ELSE migrationRoutes[d][x]
    BY <1>1, <1>4, <1>7, TableUpdate
<1>10. ASSUME NEW o \in Entities \ {e}
       PROVE  Stays(o) /\ Answered(o)'
  <2>1. Alike(net, net', o)
    <3>1. net' = Send(net, <<c, t>>, m, "Accepted")
        BY <1>4 DEF Send
    <3> QED
        BY <3>1, <1>1, <1>6, <1>8, SendAlike
  <2>2. Answered(o)
      BY <1>4 DEF Sound, AnsweredInv
  <2>3. \A d \in Cells : /\ body'[d][o] = body[d][o]
                         /\ migrationRoutes'[d][o] = migrationRoutes[d][o]
      BY <1>9
  <2> QED
      BY <2>1, <2>2, <2>3, <1>1, <1>5, OtherStep
<1>11. /\ NoClaim(net, e) /\ baseState[e] # "Unborn"
       /\ \A d \in Cells : body[d][e] = "Active" => d = c
    BY <1>5 DEF Sound, AuthorityInv, Authority
<1>12. /\ \A d \in Cells : ~ Queued(net, <<Base, d>>, Signal("createCell", e))
       /\ \A l \in Links : /\ \A m2 : Snapshot(m2, e) => ~ Queued(net, l, m2)
                           /\ \A a : Preceded(net, l, a, e)
    BY <1>1, <1>11, BaseLinks, NoClaimQueued
<1>13. ASSUME NEW d \in Cells
       PROVE  ~ Queued(net', <<Base, d>>, Signal("createCell", e))
  <2>1. m # Signal("createCell", e)
      BY <1>2 DEF Signal
  <2> QED
      BY <2>1, <1>1, <1>4, <1>6, <1>8, <1>12, BaseLinks, QueuedBefore
<1>14. Waits(net', c, e, route)
  <2>1. Queued(net', <<c, t>>, m)
      BY <1>1, <1>4, <1>6, <1>8, PushQueued
  <2>2. ASSUME NEW s \in Cells \ {c}
        PROVE  Preceded(net', <<s, c>>, Commit(e, route.epoch), e)
    <3>1. <<s, c>> # <<c, t>> /\ <<s, c>> \in Links
        BY <1>8
    <3>2. Preceded(net, <<s, c>>, Commit(e, route.epoch), e)
        BY <3>1, <1>12
    <3> QED
        BY <3>1, <3>2, <1>1, <1>4, <1>6, <1>8, PushPreceded
  <2> QED
      BY <2>1, <2>2, <1>6, <1>7 DEF Waits
<1>15. ASSUME NEW d \in Cells, d # c, body[d][e] = "Migrating"
       PROVE  Waits(net', d, e, migrationRoutes[d][e])
  <2>1. PICK r : r = migrationRoutes[d][e]
      OBVIOUS
  <2>2. Waits(net, d, e, r)
      BY <2>1, <1>4, <1>15 DEF Sound, AnsweredInv, Answered
  <2>3. r \in Routes /\ r.target \in Cells /\ r.target # d
      BY <2>1, <2>2, <1>1 DEF Waits, TypeInv, RoutesLeadAway, Routes
  <2>4. <<d, r.target>> \in Links /\ <<r.target, d>> \in Links
      BY <2>3, <1>8
  <2>5. Queued(net, <<r.target, d>>, Commit(e, r.epoch))
      BY <2>2, <2>4, <1>12 DEF Waits
  <2>6. Queued(net', <<r.target, d>>, Commit(e, r.epoch))
      BY <2>4, <2>5, <1>1, <1>4, <1>6, <1>8, PushQueued
  <2>7. ASSUME NEW s \in Cells \ {d}
        PROVE  Preceded(net', <<s, d>>, Commit(e, r.epoch), e)
    <3>1. <<s, d>> \in Links
        BY <1>8
    <3>2. Preceded(net, <<s, d>>, Commit(e, r.epoch), e)
        BY <3>1, <1>12
    <3>3. <<s, d>> = <<c, t>> => Queued(net, <<c, t>>, Commit(e, r.epoch))
      <4>1. d = t => r.target = c
          BY <1>15, <2>1 DEF Direct, Hosts
      <4> QED
          BY <4>1, <2>5
    <3> QED
        BY <3>1, <3>2, <3>3, <1>1, <1>4, <1>6, <1>8, PushPreceded
  <2> QED
      BY <2>1, <2>2, <2>6, <2>7 DEF Waits
<1>16. ASSUME NEW d \in Cells, body'[d][e] = "Migrating"
       PROVE  Waits(net', d, e, migrationRoutes'[d][e])
  <2>1. CASE d = c
      BY <2>1, <1>9, <1>14
  <2>2. CASE d # c
    <3>1. body[d][e] = "Migrating" /\ migrationRoutes'[d][e] = migrationRoutes[d][e]
        BY <2>2, <1>9, <1>16
    <3> QED
        BY <3>1, <2>2, <1>15
  <2> QED
      BY <2>1, <2>2
<1>17. Answered(e)'
    BY <1>5, <1>11, <1>13, <1>16 DEF Answered, Waits, Preceded, Queued
<1>18. Departs(e)
  <2>1. Hosting(body, e) = {c} /\ Hosting(body', e) = {}
      BY <1>5, <1>9, <1>11 DEF Hosting
  <2>2. Bearers(net', e) = {<<c, t>>}
      BY <1>1, <1>4, <1>6, <1>8, <1>11, ClaimBearers
  <2> QED
      BY <2>1, <2>2, <1>5 DEF Departs
<1> QED
    BY <1>10, <1>17, <1>18 DEF OneMoves

LEMMA TransferAnswered ==
    ASSUME Sound, NEW c \in Cells, NEW s \in Cells \ {c}, ApplyMigrationTransfer(s, c)
    PROVE  OneMoves /\ \A o \in Entities : Answered(o)'
<1>1. /\ net \in Nets /\ net' \in Nets
      /\ used \in [{"calls", "lapses", "refusals", "spawns"} -> Nat]
      /\ body \in [Cells -> [Entities -> {"None", "Active", "Migrating"}]]
      /\ migrationRoutes \in [Cells -> [Entities -> Routes \cup {NoRoute}]]
      /\ TypeInv /\ TypeInv' /\ Unlapsed'
    BY DEF Sound, TypeInv, TypeOK, Nets
<1>2. PICK l : l = <<s, c>>
    OBVIOUS
<1>3. PICK m : m = Head(net[l])
    OBVIOUS
<1>4. PICK e : e = m.e
    OBVIOUS
<1>5. PICK n : n = Pop(net, l)
    OBVIOUS
<1>6. PICK ready : ready = Signal("cellReady", e)
    OBVIOUS
<1>7. PICK reply : reply = Commit(e, m.epoch)
    OBVIOUS
<1>8. /\ l \in Links /\ <<c, s>> \in Links /\ <<c, Base>> \in Links
      /\ \A d, x \in Cells : d # x => <<d, x>> \in Links
      /\ net[l] # <<>> /\ m.type = "transfer"
      /\ baseState' = baseState /\ migrationRoutes' = migrationRoutes
    BY <1>2, <1>3, LinkType, BaseLinks
    DEF ApplyMigrationTransfer, Arrived, Processes, baseVars
<1>9. n \in Nets /\ m \in Messages
    BY <1>1, <1>3, <1>5, <1>8, PopType
<1>10. /\ e \in Entities /\ m.epoch \in 1 .. MaxMigrations
       /\ Claims(m, e) /\ Snapshot(m, e)
    BY <1>4, <1>8, <1>9 DEF Messages, Claims, Snapshot
<1>11. /\ ready \in Messages /\ reply \in Messages
       /\ \A o \in Entities : ~ Weighty(ready, o) /\ ~ Claims(ready, o) /\ ~ Claims(reply, o)
       /\ \A o \in Entities \ {e} : ~ Weighty(reply, o) /\ ~ Weighty(m, o)
    BY <1>4, <1>6, <1>7, <1>10, SignalType, SignalLight
    DEF Commit, Messages, Weighty, Claims, Signal
<1>12. /\ Bearers(net, e) = {l} /\ NoClaim(n, e)
       /\ Hosting(body, e) = {} /\ baseState[e] # "Unborn"
       /\ \A d \in Cells : body[d][e] # "Active"
    BY <1>3, <1>5, <1>8, <1>10, ClaimExcludes
<1>13. Unlapsed
  <2>1. CASE UNCHANGED used
      BY <2>1, <1>1 DEF Unlapsed
  <2>2. ASSUME NEW r1 \in SendResults, NEW r2 \in SendResults,
               used' = Charge(Charge(used, r1), r2)
        PROVE  Unlapsed
      BY <2>2, <1>1 DEF SendResults, Charge, Spend, Unlapsed
  <2> QED
      BY <2>1, <2>2 DEF ApplyMigrationTransfer
<1>14. \A d \in Cells : body[d][e] = "Migrating" => Waits(net, d, e, migrationRoutes[d][e])
    BY <1>10, <1>13 DEF Sound, AnsweredInv, Answered
<1>15. TakesIn(c, e)
  <2>1. SUFFICES ASSUME body[c][e] = "Migrating" PROVE FALSE
      BY <1>1, <1>10, <1>12 DEF TakesIn, Hosts
  <2>2. Preceded(net, l, Commit(e, migrationRoutes[c][e].epoch), e)
      BY <2>1, <1>2, <1>14 DEF Waits
  <2>3. ~ Snapshot(Head(net[l]), e)
      BY <2>2, <1>1, <1>8, PopPreceded
  <2> QED
      BY <2>3, <1>3, <1>10
<1>16. /\ body' = [body EXCEPT ![c][e] = "Active"]
       /\ net' = Push(Push(n, <<c, Base>>, ready), <<c, s>>, reply)
  <2>1. PICK r1 \in SendResults, r2 \in SendResults :
           /\ body' = [body EXCEPT ![c][e] = "Active"]
           /\ net' = Send(Send(n, <<c, Base>>, ready, r1), <<c, s>>, reply, r2)
           /\ used' = Charge(Charge(used, r1), r2)
      BY <1>2, <1>3, <1>4, <1>5, <1>6, <1>7, <1>15 DEF ApplyMigrationTransfer, Commit
  <2>2. r1 = "Accepted" /\ r2 = "Accepted"
      BY <2>1, <1>1 DEF SendResults, Charge, Spend, Unlapsed
  <2> QED
      BY <2>1, <2>2 DEF Send
<1>17. PICK n1 : n1 = Push(n, <<c, Base>>, ready)
    OBVIOUS
<1>18. n1 \in Nets /\ net' = Push(n1, <<c, s>>, reply)
    BY <1>8, <1>9, <1>11, <1>16, <1>17, SendType
<1>19. \A d \in Cells, x \in Entities :
          body'[d][x] = IF d = c /\ x = e THEN "Active" ELSE body[d][x]
    BY <1>1, <1>10, <1>16, TableUpdate
<1>20. ASSUME NEW o \in Entities \ {e}
       PROVE  Stays(o) /\ Answered(o)'
  <2>1. Alike(net, n, o)
      BY <1>1, <1>3, <1>5, <1>8, <1>11, PopAlike
  <2>2. Alike(n, n1, o)
    <3>1. n1 = Send(n, <<c, Base>>, ready, "Accepted")
        BY <1>17 DEF Send
    <3> QED
        BY <3>1, <1>8, <1>9, <1>11, SendAlike
  <2>3. Alike(n1, net', o)
    <3>1. net' = Send(n1, <<c, s>>, reply, "Accepted")
        BY <1>18 DEF Send
    <3> QED
        BY <3>1, <1>8, <1>11, <1>18, SendAlike
  <2>4. Alike(net, net', o)
      BY <2>1, <2>2, <2>3, AlikeTransitive
  <2>5. Answered(o)
      BY <1>13 DEF Sound, AnsweredInv
  <2>6. \A d \in Cells : body'[d][o] = body[d][o]
      BY <1>19
  <2> QED
      BY <2>4, <2>5, <2>6, <1>1, <1>8, OtherStep
<1>21. NoClaim(net', e)
  <2>1. n1 = Send(n, <<c, Base>>, ready, "Accepted")
        /\ net' = Send(n1, <<c, s>>, reply, "Accepted")
      BY <1>17, <1>18 DEF Send
  <2>2. NoClaim(n1, e)
      BY <2>1, <1>8, <1>9, <1>10, <1>11, <1>12, SendClaims
  <2> QED
      BY <2>1, <2>2, <1>8, <1>10, <1>11, <1>18, SendClaims
<1>22. /\ \A d \in Cells : ~ Queued(net', <<Base, d>>, Signal("createCell", e))
       /\ \A k \in Links : \A a : Preceded(net', k, a, e)
  <2>1. ASSUME NEW k \in Nets, NoClaim(k, e)
        PROVE  /\ \A d \in Cells : ~ Queued(k, <<Base, d>>, Signal("createCell", e))
               /\ \A x \in Links : \A a : Preceded(k, x, a, e)
      BY <2>1, <1>10, BaseLinks, NoClaimQueued
  <2> QED
      BY <2>1, <1>1, <1>21
\* What was queued is queued still, but for the snapshot that was handled; and
\* the commit is queued.
<1>23. ASSUME NEW k \in Links, NEW a, Queued(net, k, a), k # l \/ a # m
       PROVE  Queued(net', k, a)
  <2>1. Queued(n, k, a)
      BY <1>1, <1>3, <1>5, <1>8, <1>23, PopQueued
  <2>2. Queued(n1, k, a)
      BY <2>1, <1>8, <1>9, <1>11, <1>17, PushQueued
  <2> QED
      BY <2>2, <1>8, <1>11, <1>18, PushQueued
<1>24. Queued(net', <<c, s>>, reply)
    BY <1>8, <1>11, <1>18, PushQueued
<1>25. ASSUME NEW d \in Cells, body'[d][e] = "Migrating"
       PROVE  Waits(net', d, e, migrationRoutes[d][e])
  <2>1. body[d][e] = "Migrating"
      BY <1>10, <1>19, <1>25
  <2>2. PICK r : r = migrationRoutes[d][e]
      OBVIOUS
  <2>3. Waits(net, d, e, r)
      BY <2>1, <2>2, <1>14
  <2>4. r \in Routes /\ r.target \in Cells /\ r.target # d
      BY <2>2, <2>3, <1>1, <1>10 DEF Waits, TypeInv, RoutesLeadAway, Routes
  <2>5. <<d, r.target>> \in Links /\ <<r.target, d>> \in Links
      BY <2>4, <1>8
  <2>6. CASE Queued(net, <<r.target, d>>, Commit(e, r.epoch))
    <3>1. Commit(e, r.epoch) # m
        BY <1>8 DEF Commit
    <3>2. Queued(net', <<r.target, d>>, Commit(e, r.epoch))
        BY <3>1, <2>5, <2>6, <1>23
    <3>3. Waits(net', d, e, r)
        BY <3>2, <2>3, <1>8, <1>22 DEF Waits
    <3> QED
        BY <3>3, <2>2
  <2>7. ASSUME NEW m2 \in Messages, Snapshot(m2, e), m2.epoch = r.epoch,
               Queued(net, <<d, r.target>>, m2)
        PROVE  Waits(net', d, e, r)
    <3>1. <<d, r.target>> = l /\ m2 = m
      <4>1. PICK i \in DOMAIN net[<<d, r.target>>] : net[<<d, r.target>>][i] = m2
          BY <2>7 DEF Queued
      <4>2. 1 \in DOMAIN net[l] /\ net[l][1] = m
          BY <1>1, <1>3, <1>8, PopMessages
      <4>3. OneClaim(net, e)
          BY <1>10 DEF Sound, AuthorityInv, Authority
      <4>4. Of(ClaimTypes, m2, e) /\ Of(ClaimTypes, m, e)
          BY <2>7, <1>10 DEF Of, ClaimTypes, Snapshot
      <4>5. <<d, r.target>> = l /\ i = 1
          BY <4>1, <4>2, <4>3, <4>4, <2>5, <1>8 DEF OneClaim, AtMostOne
      <4> QED
          BY <4>1, <4>2, <4>5
    <3>2. d = s /\ r.target = c /\ r.epoch = m.epoch
        BY <3>1, <2>7, <1>2
    <3>3. Queued(net', <<r.target, d>>, Commit(e, r.epoch))
        BY <3>2, <1>7, <1>24
    <3> QED
        BY <3>3, <2>3, <1>8, <1>22 DEF Waits
  <2> QED
      BY <2>2, <2>3, <2>6, <2>7 DEF Waits
<1>26. Answered(e)'
    BY <1>8, <1>12, <1>22, <1>25 DEF Answered, Waits, Preceded, Queued
<1>27. Arrives(e)
  <2>1. Hosting(body', e) = {c}
      BY <1>10, <1>12, <1>19 DEF Hosting
  <2> QED
      BY <2>1, <1>2, <1>8, <1>12 DEF Arrives
<1> QED
    BY <1>10, <1>20, <1>26, <1>27 DEF OneMoves

LEMMA CommitAnswered ==
    ASSUME Sound, NEW c \in Cells, NEW s \in Cells \ {c}, ApplyMigrationCommit(s, c)
    PROVE  OneMoves /\ \A o \in Entities : Answered(o)'
<1>1. /\ net \in Nets /\ net' \in Nets
      /\ body \in [Cells -> [Entities -> {"None", "Active", "Migrating"}]]
      /\ migrationRoutes \in [Cells -> [Entities -> Routes \cup {NoRoute}]]
      /\ TypeInv /\ TypeInv' /\ Unlapsed'
    BY DEF Sound, TypeInv, TypeOK, Nets
<1>2. PICK l : l = <<s, c>>
    OBVIOUS
<1>3. PICK m : m = Head(net[l])
    OBVIOUS
<1>4. PICK e : e = m.e
    OBVIOUS
<1>5. /\ l \in Links /\ net[l] # <<>> /\ m.type = "commit"
      /\ \A d, x \in Cells : d # x => <<d, x>> \in Links
      /\ net' = Pop(net, l) /\ Unlapsed
      /\ baseState' = baseState /\ migrationRoutes' = migrationRoutes
      /\ body' = IF /\ migrationRoutes[c][e] # NoRoute
                    /\ migrationRoutes[c][e].epoch = m.epoch
                    /\ body[c][e] = "Migrating"
                 THEN [body EXCEPT ![c][e] = "None"] ELSE body
    BY <1>1, <1>2, <1>3, <1>4, LinkType
    DEF ApplyMigrationCommit, Arrived, Processes, baseVars, Unlapsed
<1>6. m \in Messages
    BY <1>1, <1>3, <1>5, PopType
<1>7. e \in Entities /\ m = Commit(e, m.epoch)
  <2>1. m \in [type : {"commit"}, e : Entities, epoch : 1 .. MaxMigrations]
      BY <1>5, <1>6 DEF Messages
  <2> QED
      BY <2>1, <1>4 DEF Commit
<1>8. \A d \in Cells, x \in Entities :
         /\ body'[d][x] # body[d][x] => d = c /\ x = e /\ body[c][e] = "Migrating"
         /\ body'[d][x] = body[d][x] \/ body'[d][x] = "None"
  <2>1. \A d \in Cells, x \in Entities :
           [body EXCEPT ![c][e] = "None"][d][x] = IF d = c /\ x = e THEN "None" ELSE body[d][x]
      BY <1>1, <1>7, TableUpdate
  <2> QED
      BY <2>1, <1>5
<1>9. ASSUME NEW o \in Entities
      PROVE  Answered(o)
    BY <1>5 DEF Sound, AnsweredInv
<1>10. ASSUME NEW o \in Entities \ {e}
       PROVE  Stays(o) /\ Answered(o)'
  <2>1. Alike(net, net', o)
    <3>1. ~ Weighty(Head(net[l]), o)
        BY <1>3, <1>4 DEF Weighty
    <3> QED
        BY <3>1, <1>1, <1>5, PopAlike
  <2>2. \A d \in Cells : body'[d][o] = body[d][o]
      BY <1>8
  <2> QED
      BY <2>1, <2>2, <1>1, <1>5, <1>9, OtherStep
<1>11. Stays(e)
  <2>1. Bearers(net', e) = Bearers(net, e)
    <3>1. ~ Claims(Head(net[l]), e)
        BY <1>3, <1>5 DEF Claims
    <3> QED
        BY <3>1, <1>1, <1>5, PopBearers
  <2>2. \A d \in Cells : body'[d][e] = "Active" <=> body[d][e] = "Active"
      BY <1>7, <1>8
  <2> QED
      BY <2>1, <2>2, <1>5 DEF Stays, Hosting
<1>12. Unhosted(body, e) => Unhosted(body', e)
    BY <1>7, <1>8 DEF Unhosted
<1>13. ASSUME NEW d \in Cells, Queued(net', <<Base, d>>, Signal("createCell", e))
       PROVE  Unhosted(body', e)
  <2>1. Queued(net, <<Base, d>>, Signal("createCell", e))
      BY <1>1, <1>5, <1>13, BaseLinks, QueuedBefore
  <2> QED
      BY <2>1, <1>7, <1>9, <1>12 DEF Answered
<1>14. ASSUME NEW d \in Cells, body'[d][e] = "Migrating"
       PROVE  Waits(net', d, e, migrationRoutes[d][e])
  <2>1. body[d][e] = "Migrating"
      BY <1>7, <1>8, <1>14
  <2>2. PICK r : r = migrationRoutes[d][e]
      OBVIOUS
  <2>3. Waits(net, d, e, r)
      BY <2>1, <2>2, <1>7, <1>9 DEF Answered
  <2>4. r \in Routes /\ r.target \in Cells /\ r.target # d
      BY <2>2, <2>3, <1>1, <1>7 DEF Waits, TypeInv, RoutesLeadAway, Routes
  <2>5. <<d, r.target>> \in Links /\ <<r.target, d>> \in Links
      BY <2>4, <1>5
  <2>6. d = c => Commit(e, r.epoch) # m
    <3>1. SUFFICES ASSUME d = c, Commit(e, r.epoch) = m PROVE FALSE
        OBVIOUS
    <3>2. m.epoch = r.epoch /\ r = migrationRoutes[c][e] /\ r # NoRoute
        BY <3>1, <2>2, <2>3 DEF Commit, Waits
    <3>3. body' = [body EXCEPT ![c][e] = "None"]
        BY <3>1, <3>2, <2>1, <1>5
    <3>4. body'[c][e] = "None"
        BY <3>3, <1>1, <1>7, TableUpdate
    <3> QED
        BY <3>1, <3>4, <1>14
  <2>7. ASSUME NEW m2 \in Messages, Snapshot(m2, e), Queued(net, <<d, r.target>>, m2)
        PROVE  Queued(net', <<d, r.target>>, m2)
    <3>1. m2 # m
        BY <2>7, <1>5 DEF Snapshot
    <3> QED
        BY <3>1, <2>5, <2>7, <1>1, <1>3, <1>5, PopQueued
  <2>8. ASSUME Queued(net, <<r.target, d>>, Commit(e, r.epoch))
        PROVE  Queued(net', <<r.target, d>>, Commit(e, r.epoch))
    <3>1. <<r.target, d>> # l \/ Commit(e, r.epoch) # m
        BY <2>6, <1>2
    <3> QED
        BY <3>1, <2>5, <2>8, <1>1, <1>3, <1>5, PopQueued
  <2>9. ASSUME NEW x \in Cells \ {d}
        PROVE  Preceded(net', <<x, d>>, Commit(e, r.epoch), e)
    <3>1. <<x, d>> # l \/ Commit(e, r.epoch) # m
        BY <2>6, <1>2
    <3>2. Preceded(net, <<x, d>>, Commit(e, r.epoch), e) /\ <<x, d>> \in Links
        BY <2>3, <1>5 DEF Waits
    <3> QED
        BY <3>1, <3>2, <1>1, <1>3, <1>5, PopPreceded
  <2> QED
      BY <2>2, <2>3, <2>7, <2>8, <2>9 DEF Waits
<1>15. baseState'[e] = "Unborn" => Unhosted(body', e)
    BY <1>5, <1>7, <1>9, <1>12 DEF Answered
<1>16. Answered(e)'
    BY <1>5, <1>13, <1>14, <1>15 DEF Answered, Waits, Preceded, Queued, Unhosted
<1> QED
    BY <1>7, <1>10, <1>11, <1>16 DEF OneMoves

\* Every step of a run whose migrations are direct.
LEMMA AnsweredMove ==
    ASSUME Sound, Direct, [Next]_vars
    PROVE  OneMoves /\ \A o \in Entities : Answered(o)'
<1>1. CASE LightSteps
    BY <1>1, LightAnswered
<1>2. CASE \/ \E e \in Entities, c \in Cells : EnterGame(e, c)
           \/ \E c \in Cells : HandleSpawnRequest(c)
    BY <1>2, BornAnswered
<1>3. CASE \E c \in Cells : HandleCreateCell(c)
    BY <1>3, CreateAnswered
<1>4. CASE \E c \in Cells : HandleDestroyCell(c)
    BY <1>4, DestroyAnswered
<1>5. CASE \E c, t \in Cells, e \in Entities : BeginMigration(c, t, e)
    BY <1>5, BeginAnswered
<1>6. CASE \E c \in Cells : \E s \in Cells \ {c} : ApplyMigrationTransfer(s, c)
    BY <1>6, TransferAnswered
<1>7. CASE \E c \in Cells : \E s \in Cells \ {c} : ApplyMigrationCommit(s, c)
    BY <1>7, CommitAnswered
<1>8. ASSUME NEW c \in Cells, NEW e \in Entities,
             ExpireRoute(c, e) \/ ClearMigrationRoute(c, e)
      PROVE  FALSE
  <2>1. used' = Spend(used, "lapses") /\ used["lapses"] \in Nat
        /\ used \in [{"calls", "lapses", "refusals", "spawns"} -> Nat]
      BY <1>8 DEF ExpireRoute, ClearMigrationRoute, Sound, TypeInv, TypeOK
  <2> QED
      BY <2>1 DEF Sound, Unlapsed, Spend
<1> QED
    BY <1>1, <1>2, <1>3, <1>4, <1>5, <1>6, <1>7, <1>8
    DEF Next, Environment, Deliver, LightSteps

Steady == TypeInv /\ AuthorityInv /\ RegistryInv /\ EffectsInv /\ AnsweredInv

LEMMA SteadyInit == Init => Steady
BY TypeInit, AuthorityInit, RegistryInit, EffectsInit, AnsweredInit DEF Steady

\* Until a route lapses or a send is refused, migrations are direct.
Orderly == [][Unlapsed' => Direct]_vars

LEMMA SteadyStep == Steady /\ [Unlapsed' => Direct]_vars /\ [Next]_vars => Steady'
<1> SUFFICES ASSUME Steady, [Unlapsed' => Direct]_vars, [Next]_vars PROVE Steady'
    OBVIOUS
<1>1. TypeInv' /\ AuthorityInv' /\ RegistryInv' /\ EffectsInv'
    BY TypeStep, AuthorityStep, RegistryStep, EffectsStep DEF Steady
<1>2. CASE UNCHANGED vars
    BY <1>1, <1>2 DEF Steady, AnsweredInv, Answered, Unlapsed, vars, baseVars, cellVars,
                      Unhosted, Waits, Queued, Preceded
<1>3. CASE Unlapsed' => Direct
  <2>1. AnsweredInv'
      BY <1>1, <1>3, AnsweredMove DEF AnsweredInv, Sound, Steady
  <2> QED
      BY <1>1, <2>1 DEF Steady
<1> QED
    BY <1>2, <1>3

LEMMA SteadyAlways == Spec /\ Orderly => []Steady
BY SteadyInit, SteadyStep, PTL DEF Spec, Orderly

\* What moves in a step of an orderly run.
LEMMA SteadyMoves ==
    ASSUME Steady, Unlapsed', [Unlapsed' => Direct]_vars, [Next]_vars
    PROVE  UNCHANGED vars \/ OneMoves
<1>1. TypeInv'
    BY TypeStep DEF Steady
<1> QED
    BY <1>1, AnsweredMove DEF Sound, Steady

\* Between two CellApps every run is orderly: a body that waits there came from
\* the only other one.
TwoCells == \A a, b, c \in Cells : a = b \/ b = c \/ a = c

LEMMA TwoCellsAreDirect ==
    TwoCells /\ Steady /\ Unlapsed => Direct
<1> SUFFICES ASSUME TwoCells, Steady, Unlapsed,
                    NEW c \in Cells, NEW t \in Cells, NEW e \in Entities,
                    BeginMigration(c, t, e), Hosts(t, e)
             PROVE  migrationRoutes[t][e].target = c
    BY DEF Direct
<1>1. c # t /\ body[t][e] = "Migrating"
  <2>1. c # t /\ body[c][e] = "Active"
      BY DEF BeginMigration
  <2>2. body[t][e] # "Active"
      BY <2>1 DEF Steady, AuthorityInv, Authority
  <2> QED
      BY <2>1, <2>2 DEF Steady, TypeInv, TypeOK, Hosts
<1>2. migrationRoutes[t][e] # NoRoute
    BY <1>1 DEF Steady, EffectsInv, Effects
<1>3. migrationRoutes[t][e].target \in Cells \ {t}
    BY <1>2 DEF Steady, TypeInv, TypeOK, RoutesLeadAway, Routes
<1> QED
    BY <1>1, <1>3 DEF TwoCells

\* The counters of lapses and refusals never go down.
LEMMA UnlapsedBefore ==
    ASSUME TypeInv, [Next]_vars, Unlapsed'
    PROVE  Unlapsed
<1> DEFINE Uses == [{"calls", "lapses", "refusals", "spawns"} -> Nat]
           Above(u, v) == u["refusals"] <= v["refusals"] /\ u["lapses"] <= v["lapses"]
<1>1. used \in Uses
    BY DEF TypeInv, TypeOK
<1>2. ASSUME NEW u \in Uses, Above(used, u)
      PROVE  /\ \A r : Charge(u, r) \in Uses /\ Above(used, Charge(u, r))
             /\ \A what \in {"calls", "lapses", "spawns"} :
                   Spend(u, what) \in Uses /\ Above(used, Spend(u, what))
    BY <1>1, <1>2 DEF Charge, Spend
<1>3. Above(used, used)
    BY <1>1
<1>4. Above(used, used') => Unlapsed
    BY <1>1 DEF Unlapsed
<1> HIDE DEF Uses, Above
<1>5. \A r1, r2 : Above(used, Charge(Charge(used, r1), r2))
    BY <1>1, <1>2, <1>3
<1>6. \A r : /\ Above(used, Charge(used, r))
             /\ \A what \in {"calls", "lapses", "spawns"} :
                   /\ Above(used, Spend(used, what))
                   /\ Above(used, Charge(Spend(used, what), r))
    BY <1>1, <1>2, <1>3
<1>7. ASSUME NEW e \in Entities,
             \/ \E c \in Cells : EnterGame(e, c)
             \/ DestroyEntity(e)
             \/ LeaveWorld(e)
             \/ ClientDisconnect(e)
             \/ CallCell(e)
      PROVE  Above(used, used')
    BY <1>3, <1>5, <1>6, <1>7
    DEF EnterGame, DestroyEntity, LeaveWorld, ClientDisconnect, CallCell
<1>8. ASSUME NEW c \in Cells, NEW e \in Entities,
             \/ \E t \in Cells : BeginMigration(c, t, e)
             \/ ExpireRoute(c, e)
             \/ ClearMigrationRoute(c, e)
             \/ RequestSpawnEntity(c, e)
      PROVE  Above(used, used')
    BY <1>6, <1>8 DEF BeginMigration, ExpireRoute, ClearMigrationRoute, RequestSpawnEntity
<1>9. ASSUME NEW c \in Cells,
             \/ HandleCellReady(c)
             \/ HandleCellDestroyed(c)
             \/ HandleSpawnRequest(c)
             \/ HandleCreateCell(c)
             \/ HandleDestroyCell(c)
      PROVE  Above(used, used')
    BY <1>3, <1>6, <1>9
    DEF HandleCellReady, HandleCellDestroyed, HandleSpawnRequest, HandleCreateCell,
        HandleDestroyCell
<1>10. ASSUME NEW c \in Cells, NEW s \in Processes,
              \/ ApplyMigrationTransfer(s, c)
              \/ ApplyMigrationCommit(s, c)
              \/ DispatchCall(s, c)
      PROVE  Above(used, used')
    BY <1>3, <1>5, <1>6, <1>10
    DEF ApplyMigrationTransfer, ApplyMigrationCommit, DispatchCall
<1>11. CASE UNCHANGED vars
    BY <1>11 DEF vars, Unlapsed
<1>12. ASSUME Environment PROVE Above(used, used')
    BY <1>7, <1>8, <1>12 DEF Environment
<1>13. ASSUME NEW s \in Processes, NEW c \in Processes, Deliver(s, c)
       PROVE  Above(used, used')
  <2>1. CASE c = Base /\ s \in Cells
      BY <2>1, <1>9, <1>13, ConstantsAssumption DEF Deliver
  <2>2. CASE c \in Cells
      BY <2>2, <1>9, <1>10, <1>13, ConstantsAssumption DEF Deliver
  <2> QED
      BY <2>1, <2>2, <1>13 DEF Deliver
<1> QED
    BY <1>4, <1>11, <1>12, <1>13 DEF Next, Links

\* With at most two CellApps every run is orderly, so what is proved of orderly
\* runs holds there whatever the game layer asks for.
THEOREM TwoCellsAreOrderly ==
    ASSUME TwoCells
    PROVE  Spec => Orderly
<1>1. Steady /\ [Next]_vars => [Unlapsed' => Direct]_vars
    BY UnlapsedBefore, TwoCellsAreDirect DEF Steady
<1> QED
    BY <1>1, SteadyInit, SteadyStep, PTL DEF Spec, Orderly

\* While no route lapses and no send is refused, and as long as an entity goes
\* to a CellApp that still has a body of it only from where that body was sent,
\* every body that waits to be committed away can be: its snapshot or the
\* commit of its epoch is on the way.
THEOREM MigratingStaysAnswered ==
    Spec /\ Orderly => [](Unlapsed => MigratingIsAnswered)
<1>1. Steady /\ Unlapsed => MigratingIsAnswered
  <2> SUFFICES ASSUME Steady, Unlapsed, NEW c \in Cells, NEW e \in Entities,
                      body[c][e] = "Migrating"
               PROVE  LET r == migrationRoutes[c][e]
                      IN  /\ r # NoRoute
                          /\ \/ \E i \in DOMAIN net[<<c, r.target>>] :
                                   LET m == net[<<c, r.target>>][i]
                                   IN  m.type = "transfer" /\ m.e = e /\ m.epoch = r.epoch
                             \/ InFlight([type |-> "commit", e |-> e, epoch |-> r.epoch],
                                         <<r.target, c>>)
      BY DEF MigratingIsAnswered
  <2>1. Waits(net, c, e, migrationRoutes[c][e])
      BY DEF Steady, AnsweredInv, Answered
  <2> QED
      BY <2>1 DEF Waits, Queued, Snapshot, Commit, InFlight
<1> QED
    BY <1>1, SteadyAlways, PTL

\* HasAuthority in terms of where the entity is.
LEMMA AuthorityIsPlaced ==
    ASSUME NEW e \in Entities
    PROVE  /\ HasAuthority(e) <=> Hosting(body, e) # {} \/ Bearers(net, e) # {}
           /\ HasAuthority(e)' <=> Hosting(body', e) # {} \/ Bearers(net', e) # {}
<1>1. HasAuthority(e) <=> Hosting(body, e) # {} \/ Bearers(net, e) # {}
    BY DEF HasAuthority, ClaimInFlight, Hosting, Bearers
<1>2. HasAuthority(e)' <=> Hosting(body', e) # {} \/ Bearers(net', e) # {}
    BY DEF HasAuthority, ClaimInFlight, Hosting, Bearers, Claims
<1> QED
    BY <1>1, <1>2

\* As long as no route lapses and no send is refused, in an orderly run, an
\* entity loses its cell part only when the CellApp that hosts the authoritative
\* body handles a destroyCell for it: no order of createCells, snapshots and
\* commits loses one.
THEOREM AuthorityEndsOnlyByDestroy ==
    Spec /\ Orderly /\ []Unlapsed => AuthorityEndsByDestroy
<1> DEFINE Ends ==
        \A e \in Entities :
            HasAuthority(e) /\ ~ HasAuthority(e)' =>
                \E c \in Cells : /\ HandleDestroyCell(c)
                                 /\ Head(net[<<Base, c>>]) = Signal("destroyCell", e)
                                 /\ body[c][e] = "Active"
<1>1. Steady /\ Unlapsed' /\ [Unlapsed' => Direct]_vars /\ [Next]_vars => [Ends]_vars
  <2> SUFFICES ASSUME Steady, Unlapsed', [Unlapsed' => Direct]_vars, [Next]_vars,
                      ~ UNCHANGED vars,
                      NEW e \in Entities, HasAuthority(e), ~ HasAuthority(e)'
               PROVE  \E c \in Cells : /\ HandleDestroyCell(c)
                                       /\ Head(net[<<Base, c>>]) = Signal("destroyCell", e)
                                       /\ body[c][e] = "Active"
      OBVIOUS
  <2>1. OneMoves
      BY SteadyMoves
  <2>2. /\ Hosting(body, e) # {} \/ Bearers(net, e) # {}
        /\ Hosting(body', e) = {} /\ Bearers(net', e) = {}
      BY AuthorityIsPlaced
  <2>3. ~ Stays(e) /\ ~ Asked(e) /\ ~ Arrives(e) /\ ~ Departs(e)
      BY <2>2 DEF Stays, Asked, Arrives, Departs
  <2>4. Removed(e)
      BY <2>1, <2>3 DEF OneMoves
  <2> QED
      BY <2>4 DEF Removed, Hosting
<1>2. [][Ends]_vars => AuthorityEndsByDestroy
    BY PTL DEF AuthorityEndsByDestroy
<1> HIDE DEF Ends
<1> QED
    BY <1>1, <1>2, SteadyAlways, PTL DEF Spec, Orderly

-----------------------------------------------------------------------------
(* The runtime implements CellPlacement, fairness aside *)

\* The place of an entity by what hosts it, who bears a claim to it and whether
\* it was created.
Placed(hosts, bearers, unborn) ==
    IF hosts # {}
    THEN [stage |-> "hosted", cell |-> CHOOSE c \in hosts : TRUE]
    ELSE IF bearers # {}
    THEN LET l == CHOOSE l \in bearers : TRUE
         IN  [stage |-> IF l[1] = Base THEN "requested" ELSE "travelling",
              cell  |-> l[2]]
    ELSE [stage |-> IF unborn THEN "unplaced" ELSE "removed", cell |-> NoCell]

LEMMA PlaceIsPlaced ==
    ASSUME NEW e \in Entities
    PROVE  /\ PlaceOf(e) = Placed(Hosting(body, e), Bearers(net, e), baseState[e] = "Unborn")
           /\ PlaceOf(e)' = Placed(Hosting(body', e), Bearers(net', e), baseState'[e] = "Unborn")
<1>1. PlaceOf(e) = Placed(Hosting(body, e), Bearers(net, e), baseState[e] = "Unborn")
    BY DEF PlaceOf, Placed, Hosting, Bearers
<1>2. PlaceOf(e)' = Placed(Hosting(body', e), Bearers(net', e), baseState'[e] = "Unborn")
    BY DEF PlaceOf, Placed, Hosting, Bearers, Claims
<1> QED
    BY <1>1, <1>2

LEMMA PlacedOne ==
    ASSUME NEW B, NEW u
    PROVE  /\ \A c : Placed({c}, B, u) = [stage |-> "hosted", cell |-> c]
           /\ \A l : Placed({}, {l}, u)
                        = [stage |-> IF l[1] = Base THEN "requested" ELSE "travelling",
                           cell |-> l[2]]
           /\ Placed({}, {}, u) = [stage |-> IF u THEN "unplaced" ELSE "removed",
                                   cell |-> NoCell]
<1>1. \A x : (CHOOSE y \in {x} : TRUE) = x
    OBVIOUS
<1> QED
    BY <1>1 DEF Placed

\* The state of CellPlacement a state of the runtime stands for.
Where == [e \in Entities |-> PlaceOf(e)]

LEMMA PlacementInit == Init => Placement!Init
<1> SUFFICES ASSUME Init, NEW e \in Entities
             PROVE  PlaceOf(e) = [stage |-> "unplaced", cell |-> NoCell]
    BY DEF Placement!Init, Placement!At
<1>1. /\ \A l \in Links : net[l] = << >>
      /\ \A c \in Cells : body[c][e] = "None"
      /\ baseState[e] = "Unborn"
    BY DEF Init
<1>2. Hosting(body, e) = {} /\ Bearers(net, e) = {}
    BY <1>1 DEF Hosting, Bearers
<1> QED
    BY <1>1, <1>2, PlaceIsPlaced, PlacedOne

\* One entity moves and the others stay.
LEMMA PlacementMove ==
    ASSUME NEW e \in Entities, \A o \in Entities \ {e} : Stays(o)
    PROVE  Where' = [Where EXCEPT ![e] = PlaceOf(e)'] /\ Where[e] = PlaceOf(e)
<1>1. ASSUME NEW o \in Entities \ {e}
      PROVE  PlaceOf(o)' = PlaceOf(o)
  <2>1. /\ Hosting(body', o) = Hosting(body, o) /\ Bearers(net', o) = Bearers(net, o)
        /\ baseState'[o] = "Unborn" <=> baseState[o] = "Unborn"
      BY DEF Stays
  <2>2. PlaceOf(o) = Placed(Hosting(body, o), Bearers(net, o), baseState[o] = "Unborn")
      BY PlaceIsPlaced
  <2>3. PlaceOf(o)' = Placed(Hosting(body', o), Bearers(net', o), baseState'[o] = "Unborn")
      BY PlaceIsPlaced
  <2> QED
      BY <2>1, <2>2, <2>3 DEF Placed
<1>2. Where' = [o \in Entities |-> PlaceOf(o)']
    BY DEF Where
<1> QED
    BY <1>1, <1>2 DEF Where

LEMMA PlacementStep ==
    ASSUME OneMoves
    PROVE  Placement!Next \/ UNCHANGED Where
<1>1. CASE \A o \in Entities : Stays(o)
  <2>1. ASSUME NEW o \in Entities
        PROVE  PlaceOf(o)' = PlaceOf(o)
    <3>1. Where' = [Where EXCEPT ![o] = PlaceOf(o)'] /\ Where[o] = PlaceOf(o)
        BY <1>1, PlacementMove
    <3>2. /\ Hosting(body', o) = Hosting(body, o) /\ Bearers(net', o) = Bearers(net, o)
          /\ baseState'[o] = "Unborn" <=> baseState[o] = "Unborn"
        BY <1>1 DEF Stays
    <3>3. PlaceOf(o) = Placed(Hosting(body, o), Bearers(net, o), baseState[o] = "Unborn")
        BY PlaceIsPlaced
    <3>4. PlaceOf(o)' = Placed(Hosting(body', o), Bearers(net', o), baseState'[o] = "Unborn")
        BY PlaceIsPlaced
    <3> QED
        BY <3>2, <3>3, <3>4 DEF Placed
  <2> QED
      BY <2>1 DEF Where
<1>2. ASSUME NEW e \in Entities, Asked(e) \/ Arrives(e) \/ Departs(e) \/ Removed(e),
             \A o \in Entities \ {e} : Stays(o)
      PROVE  Placement!Next
  <2>1. Where' = [Where EXCEPT ![e] = PlaceOf(e)'] /\ Where[e] = PlaceOf(e)
      BY <1>2, PlacementMove
  <2>2. /\ PlaceOf(e) = Placed(Hosting(body, e), Bearers(net, e), baseState[e] = "Unborn")
        /\ PlaceOf(e)' = Placed(Hosting(body', e), Bearers(net', e), baseState'[e] = "Unborn")
      BY PlaceIsPlaced
  <2>3. ASSUME NEW from, NEW to, PlaceOf(e) = from, PlaceOf(e)' = to
        PROVE  Placement!Moves(e, from, to)
      BY <2>1, <2>3 DEF Placement!Moves, Where
  <2>4. CASE Asked(e)
    <3>1. PlaceOf(e) = [stage |-> "unplaced", cell |-> NoCell]
        BY <2>2, <2>4, PlacedOne DEF Asked
    <3>2. CASE Bearers(net', e) = {}
      <4>1. PlaceOf(e)' = [stage |-> "removed", cell |-> NoCell]
          BY <2>2, <2>4, <3>2, PlacedOne DEF Asked
      <4>2. Placement!Abandon(e)
          BY <2>3, <3>1, <4>1 DEF Placement!Abandon, Placement!At
      <4> QED
          BY <4>2 DEF Placement!Next
    <3>3. ASSUME NEW c \in Cells, Bearers(net', e) = {<<Base, c>>}
          PROVE  Placement!Next
      <4>1. PlaceOf(e)' = [stage |-> "requested", cell |-> c]
        <5>1. PICK l : l = <<Base, c>>
            OBVIOUS
        <5>2. Hosting(body', e) = {} /\ Bearers(net', e) = {l}
            BY <5>1, <2>4, <3>3 DEF Asked
        <5>3. l[1] = Base /\ l[2] = c
            BY <5>1
        <5> QED
            BY <5>2, <5>3, <2>2, PlacedOne
      <4>2. Placement!Request(e, c)
          BY <2>3, <3>1, <4>1 DEF Placement!Request, Placement!At
      <4> QED
          BY <4>2 DEF Placement!Next
    <3> QED
        BY <2>4, <3>2, <3>3 DEF Asked
  <2>5. CASE Arrives(e)
    <3>1. PICK l \in Links : /\ l[2] \in Cells
                             /\ Hosting(body, e) = {} /\ Bearers(net, e) = {l}
                             /\ Hosting(body', e) = {l[2]}
        BY <2>5 DEF Arrives
    <3>2. PlaceOf(e)' = [stage |-> "hosted", cell |-> l[2]]
        BY <2>2, <3>1, PlacedOne
    <3>3. PlaceOf(e) = [stage |-> IF l[1] = Base THEN "requested" ELSE "travelling",
                        cell |-> l[2]]
        BY <2>2, <3>1, PlacedOne
    <3>4. CASE l[1] = Base
      <4>1. Placement!Arrive(e, l[2])
          BY <2>3, <3>2, <3>3, <3>4 DEF Placement!Arrive, Placement!At
      <4> QED
          BY <3>1, <4>1 DEF Placement!Next
    <3>5. CASE l[1] # Base
      <4>1. Placement!Land(e, l[2])
          BY <2>3, <3>2, <3>3, <3>5 DEF Placement!Land, Placement!At
      <4> QED
          BY <3>1, <4>1 DEF Placement!Next
    <3> QED
        BY <3>4, <3>5
  <2>6. CASE Departs(e)
    <3>1. PICK c \in Cells, t \in Cells :
             /\ c # t /\ Hosting(body, e) = {c}
             /\ Hosting(body', e) = {} /\ Bearers(net', e) = {<<c, t>>}
        BY <2>6 DEF Departs
    <3>2. PlaceOf(e) = [stage |-> "hosted", cell |-> c]
        BY <2>2, <3>1, PlacedOne
    <3>3. PlaceOf(e)' = [stage |-> "travelling", cell |-> t]
      <4>1. PICK l : l = <<c, t>>
          OBVIOUS
      <4>2. l[1] # Base /\ l[2] = t /\ Bearers(net', e) = {l}
          BY <4>1, <3>1, ConstantsAssumption
      <4> QED
          BY <4>2, <2>2, <3>1, PlacedOne
    <3>4. Placement!Depart(e, c, t)
        BY <2>3, <3>1, <3>2, <3>3 DEF Placement!Depart, Placement!At
    <3> QED
        BY <3>4 DEF Placement!Next
  <2>7. CASE Removed(e)
    <3>1. PICK c \in Cells : /\ Hosting(body, e) = {c}
                             /\ Hosting(body', e) = {} /\ Bearers(net', e) = {}
                             /\ baseState'[e] # "Unborn"
        BY <2>7 DEF Removed
    <3>2. PlaceOf(e) = [stage |-> "hosted", cell |-> c]
        BY <2>2, <3>1, PlacedOne
    <3>3. PlaceOf(e)' = [stage |-> "removed", cell |-> NoCell]
        BY <2>2, <3>1, PlacedOne
    <3>4. Placement!Remove(e, c)
        BY <2>3, <3>2, <3>3 DEF Placement!Remove, Placement!At
    <3> QED
        BY <3>4 DEF Placement!Next
  <2> QED
      BY <1>2, <2>4, <2>5, <2>6, <2>7
<1> QED
    BY <1>1, <1>2 DEF OneMoves

\* As long as no route lapses and no send is refused, an orderly run of the
\* base and its CellApps, seen through the place of every entity, is a run of
\* CellPlacement: the cell part of an entity is requested, arrives, travels and
\* lands, and is removed, one entity at a time and in no other order.
THEOREM PlacementIsImplemented ==
    Spec /\ Orderly /\ []Unlapsed => Placement!Safety
<1>1. Steady /\ Unlapsed' /\ [Unlapsed' => Direct]_vars /\ [Next]_vars
         => [Placement!Next]_Where
  <2> SUFFICES ASSUME Steady, Unlapsed', [Unlapsed' => Direct]_vars, [Next]_vars
               PROVE  Placement!Next \/ UNCHANGED Where
      OBVIOUS
  <2>1. CASE OneMoves
      BY <2>1, PlacementStep
  <2>2. CASE UNCHANGED vars
      BY <2>2 DEF Where, PlaceOf, Claims, vars, baseVars, cellVars
  <2> QED
      BY <2>1, <2>2, SteadyMoves
<1>2. Spec /\ Orderly /\ []Unlapsed => [][Placement!Next]_Where
    BY <1>1, SteadyAlways, PTL DEF Spec, Orderly
<1> QED
    BY <1>2, PlacementInit, PTL DEF Spec, Placement!Safety, Where
=============================================================================
