------------------------------- MODULE Services -------------------------------
(***************************************************************************)
(* The facilities that a process of the server is built from.  They share  *)
(* no state, so a behaviour follows one of them, named by focus, and the   *)
(* others are absent: every behaviour of every facility is there, their    *)
(* interleavings, which nothing could tell apart, are not.                 *)
(***************************************************************************)
EXTENDS TimerWheel, TickLoop, Movement, SpanExport, RateLimit, BackupTopology,
        HotUpdate, Bots, BehaviorTree, StateMachine, PlayerActions, Groups, Metrics

CONSTANT Absent

VARIABLE focus

servicesVars == <<focus, wheelVars, loopVars, moveVars, spanVars, rateVars, topologyVars,
                  versionVars, botVars, treeVars, machineVars, actionVars, groupVars, metricVars>>

WheelAbsent ==
    /\ currentTick = Absent /\ entries = Absent /\ freeList = Absent /\ wheels = Absent
    /\ nextTimerId = Absent /\ pass = Absent /\ firing = Absent /\ entityTimers = Absent
    /\ body = Absent /\ setBy = Absent /\ leftBehind = Absent /\ callbackLost = Absent
LoopAbsent ==
    /\ tickables = Absent /\ pendingTasks = Absent /\ running = Absent
    /\ stopRequested = Absent /\ started = Absent /\ stage = Absent /\ spaces = Absent
    /\ tickIndex = Absent /\ posts = Absent /\ spaceOps = Absent /\ owed = Absent
    /\ asked = Absent
MoveAbsent ==
    /\ position = Absent /\ velocity = Absent /\ order = Absent /\ goals = Absent
    /\ inactive = Absent /\ nextId = Absent /\ left = Absent /\ moving = Absent
    /\ current = Absent /\ target = Absent /\ outside = Absent /\ ended = Absent
SpanAbsent ==
    /\ emitter = Absent /\ previous = Absent /\ install = Absent /\ installs = Absent
    /\ stopping = Absent /\ worker = Absent /\ queue = Absent /\ batch = Absent
    /\ attempt = Absent /\ draining = Absent /\ exportedOk = Absent
    /\ exportFailed = Absent /\ scope = Absent /\ spanCount = Absent /\ heard = Absent
    /\ missed = Absent /\ residual = Absent /\ chainLost = Absent
RateAbsent ==
    /\ bucket = Absent /\ lock = Absent /\ lockTokenSeq = Absent /\ redisNow = Absent
    /\ clock = Absent /\ call = Absent /\ calls = Absent /\ granted = Absent
    /\ gained = Absent
TopologyAbsent ==
    /\ processes = Absent /\ activeVersion = Absent /\ stagingVersion = Absent
    /\ rebuilding = Absent /\ acks = Absent /\ staged = Absent /\ joined = Absent
    /\ primed = Absent /\ believed = Absent
VersionAbsent ==
    /\ configStore = Absent /\ scriptStore = Absent /\ history = Absent
    /\ currentVersion = Absent /\ written = Absent
BotAbsent ==
    /\ state = Absent /\ retryScheduled = Absent /\ leg = Absent /\ attemptDue = Absent
    /\ overdue = Absent /\ rest = Absent /\ attempts = Absent /\ frames = Absent
    /\ reconnects = Absent
TreeAbsent ==
    /\ tree = Absent /\ memory = Absent /\ walk = Absent /\ isRunning = Absent
    /\ treeTicks = Absent /\ outcome = Absent /\ disturbed = Absent
MachineAbsent ==
    /\ currentState = Absent /\ setCalls = Absent /\ sets = Absent /\ entered = Absent
    /\ path = Absent
ActionsAbsent ==
    /\ life = Absent /\ bodyNumber = Absent /\ inputQueue = Absent /\ working = Absent
    /\ acting = Absent /\ pendingClientEvents = Absent /\ line = Absent
    /\ playerHere = Absent /\ sent = Absent /\ emitted = Absent /\ handled = Absent
    /\ endedWhileActing = Absent /\ shown = Absent /\ vain = Absent
GroupAbsent ==
    /\ lives = Absent /\ alive = Absent /\ kept = Absent /\ roster = Absent
    /\ toVisit = Absent /\ here = Absent /\ inCast = Absent /\ casts = Absent
    /\ changes = Absent /\ hearers = Absent /\ throughout = Absent /\ enrolled = Absent
    /\ lost = Absent
MetricsAbsent ==
    /\ entryOf = Absent /\ kindOf = Absent /\ amount = Absent /\ low = Absent
    /\ top = Absent /\ reference = Absent /\ observing = Absent /\ toRead = Absent
    /\ sample = Absent /\ exportState = Absent /\ exports = Absent /\ backend = Absent
    /\ counted = Absent /\ countedBefore = Absent

Init ==
    /\ focus \in {"wheel", "loop", "movement", "spans", "rate", "topology",
                  "versions", "bots", "tree", "states", "actions", "groups", "metrics"}
    /\ IF focus = "wheel" THEN WheelInit ELSE WheelAbsent
    /\ IF focus = "loop" THEN LoopInit ELSE LoopAbsent
    /\ IF focus = "movement" THEN MoveInit ELSE MoveAbsent
    /\ IF focus = "spans" THEN SpanInit ELSE SpanAbsent
    /\ IF focus = "rate" THEN RateInit ELSE RateAbsent
    /\ IF focus = "topology" THEN TopologyInit ELSE TopologyAbsent
    /\ IF focus = "versions" THEN VersionInit ELSE VersionAbsent
    /\ IF focus = "bots" THEN BotInit ELSE BotAbsent
    /\ IF focus = "tree" THEN TreeInit ELSE TreeAbsent
    /\ IF focus = "states" THEN MachineInit ELSE MachineAbsent
    /\ IF focus = "actions" THEN ActionsInit ELSE ActionsAbsent
    /\ IF focus = "groups" THEN GroupInit ELSE GroupAbsent
    /\ IF focus = "metrics" THEN MetricsInit ELSE MetricsAbsent

Next ==
    \/ /\ focus = "wheel" /\ WheelNext
       /\ UNCHANGED <<focus, loopVars, moveVars, spanVars, rateVars, topologyVars,
                      versionVars, botVars, treeVars, machineVars, actionVars,
                      groupVars, metricVars>>
    \/ /\ focus = "loop" /\ LoopNext
       /\ UNCHANGED <<focus, wheelVars, moveVars, spanVars, rateVars, topologyVars,
                      versionVars, botVars, treeVars, machineVars, actionVars,
                      groupVars, metricVars>>
    \/ /\ focus = "movement" /\ MoveNext
       /\ UNCHANGED <<focus, wheelVars, loopVars, spanVars, rateVars, topologyVars,
                      versionVars, botVars, treeVars, machineVars, actionVars,
                      groupVars, metricVars>>
    \/ /\ focus = "spans" /\ SpanNext
       /\ UNCHANGED <<focus, wheelVars, loopVars, moveVars, rateVars, topologyVars,
                      versionVars, botVars, treeVars, machineVars, actionVars,
                      groupVars, metricVars>>
    \/ /\ focus = "rate" /\ RateNext
       /\ UNCHANGED <<focus, wheelVars, loopVars, moveVars, spanVars, topologyVars,
                      versionVars, botVars, treeVars, machineVars, actionVars,
                      groupVars, metricVars>>
    \/ /\ focus = "topology" /\ TopologyNext
       /\ UNCHANGED <<focus, wheelVars, loopVars, moveVars, spanVars, rateVars,
                      versionVars, botVars, treeVars, machineVars, actionVars,
                      groupVars, metricVars>>
    \/ /\ focus = "versions" /\ VersionNext
       /\ UNCHANGED <<focus, wheelVars, loopVars, moveVars, spanVars, rateVars,
                      topologyVars, botVars, treeVars, machineVars, actionVars,
                      groupVars, metricVars>>
    \/ /\ focus = "bots" /\ BotNext
       /\ UNCHANGED <<focus, wheelVars, loopVars, moveVars, spanVars, rateVars,
                      topologyVars, versionVars, treeVars, machineVars, actionVars,
                      groupVars, metricVars>>
    \/ /\ focus = "tree" /\ TreeNext
       /\ UNCHANGED <<focus, wheelVars, loopVars, moveVars, spanVars, rateVars,
                      topologyVars, versionVars, botVars, machineVars, actionVars,
                      groupVars, metricVars>>
    \/ /\ focus = "states" /\ MachineNext
       /\ UNCHANGED <<focus, wheelVars, loopVars, moveVars, spanVars, rateVars,
                      topologyVars, versionVars, botVars, treeVars, actionVars,
                      groupVars, metricVars>>
    \/ /\ focus = "actions" /\ ActionsNext
       /\ UNCHANGED <<focus, wheelVars, loopVars, moveVars, spanVars, rateVars,
                      topologyVars, versionVars, botVars, treeVars, machineVars,
                      groupVars, metricVars>>
    \/ /\ focus = "groups" /\ GroupNext
       /\ UNCHANGED <<focus, wheelVars, loopVars, moveVars, spanVars, rateVars,
                      topologyVars, versionVars, botVars, treeVars, machineVars,
                      actionVars, metricVars>>
    \/ /\ focus = "metrics" /\ MetricsNext
       /\ UNCHANGED <<focus, wheelVars, loopVars, moveVars, spanVars, rateVars,
                      topologyVars, versionVars, botVars, treeVars, machineVars, actionVars,
                      groupVars>>

\* The loop's thread, the space's ticks, the exporter's worker, the bot's tick and
\* the clock go on; nobody has to post, finish a span, install or answer.
Fairness ==
    /\ WF_loopVars(focus = "loop" /\ LoopStep)
    /\ WF_moveVars(focus = "movement" /\ MoveTick)
    /\ WF_spanVars(focus = "spans" /\ ~chainLost /\ WorkerStep /\ UNCHANGED chainLost)
    /\ WF_botVars(focus = "bots" /\ TickStep)
    /\ WF_botVars(focus = "bots" /\ ClockStep)

Spec == Init /\ [][Next]_servicesVars /\ Fairness

-----------------------------------------------------------------------------
(* Properties *)

\* The tick of a service: its timers are where they belong and reach the body that
\* set them, the cell builds its messages when all spaces have synced, an entity
\* moves only under a controller, and its tree begins every run afresh.
TickIsSound ==
    CASE focus = "wheel" -> SlotsAreSound /\ OldTimersAreSilent
      [] focus = "loop" -> BuildComesLast
      [] focus = "movement" -> MovesUnderControl
      [] focus = "tree" -> RunsStartFresh
      [] OTHER -> TRUE

\* What a service keeps for others: spans, the backup order, versions of
\* configuration and scripts, retries, metrics; and what the hooks and handlers of an entity
\* hear: its state, its player's actions, its groups.
BooksAreKept ==
    CASE focus = "spans" -> HostHearsEverySpan
      [] focus = "topology" -> PrimedBeforePromoted
      [] focus = "versions" -> StoresMatchHistory
      [] focus = "bots" -> RetriesAreCounted
      [] focus = "states" -> HooksKnowTheState
      [] focus = "actions" -> PlayersAreServed
      [] focus = "metrics" -> SamplesAreSound
      [] focus = "groups" -> GroupsHearTheirOwn
      [] OTHER -> TRUE

\* However many callers share a key, and wherever the lock of a key lapses while one
\* of them is inside a call, they get no more than the rate allows and rounding adds.
RatesAreKept == focus = "rate" => RateIsKept

\* The wheel, with its rings, cascades and reused indices, is a timer service:
\* no timer fires early, late, twice or after its cancellation.
Clockwork == INSTANCE TimerService WITH
    time <- IF focus = "wheel" THEN currentTick ELSE 0,
    alarms <- IF focus = "wheel" THEN Alarms ELSE << >>,
    ringing <- IF focus = "wheel" THEN firing ELSE 0
FiresWhenDue == Clockwork!ServiceSpec

\* What was begun ends: a loop told to stop (TickScheduler.cpp:175-179 must not
\* swallow it), the movements of an entity, an uninstall, which waits for its
\* worker, and a bot's request, also to a half-open server.
WhatBeganEnds ==
    /\ focus = "loop" /\ asked ~> focus = "loop" /\ LoopEnded
    /\ <>[](focus = "movement" => MovesEnded)
    /\ focus = "spans" /\ install = "joining" ~> focus = "spans" /\ worker = "none"
    /\ focus = "bots" /\ OnItsWay ~> focus = "bots" /\ Settled
=============================================================================
