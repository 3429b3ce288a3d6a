SPECIFICATION Spec
CONSTANTS
    Absent = Absent
    SlotsPerLevel = 2
    Levels = 2
    SlotSpan <- MCSlotSpan
    Asks <- MCAsks
    avatar = avatar
    Owners = {avatar}
    NoOwner = NoOwner
    MaxTimers = 3
    MaxTicks = 3
    MaxBodies = 2
    s1 = s1
    s2 = s2
    Spaces = {s1, s2}
    MaxLoopTicks = 2
    MaxPosts = 1
    MaxSpaceOps = 3
    Positions <- MCPositions
    Targets <- MCTargets
    Speed = 2
    Arrival = 1
    MaxControllers = 3
    MaxOutside = 1
    t1 = t1
    t2 = t2
    Threads = {t1, t2}
    MaxSpans = 2
    MaxQueue = 1
    BatchSize = 1
    MaxAttempts = 2
    MaxInstalls = 2
    c1 = c1
    c2 = c2
    Callers = {c1, c2}
    Costs = {1, 2}
    Capacity = 2
    LockTtl = 1
    Token = 10
    Millisecond = 5
    Precision = 10
    Places = {1, 10}
    MaxClock = 11
    MaxRedis = 1
    MaxCalls = 3
    p1 = p1
    p2 = p2
    Processes = {p1, p2}
    Epochs = {1, 2}
    Hashes <- MCHashes
    MaxRounds = 2
    MaxJoins = 3
    MaxPrimes = 2
    ChangeTypes = {"ConfigValueChange", "ModifyTimerLogic", "ChangePropertyType"}
    Keys = {1}
    Values = {1, 2}
    Unset = 0
    MaxDiff = 2
    MaxVersions = 2
    MaxLogins = 2
    MaxFrames = 4
    Trees <- MCTrees
    MaxTreeTicks = 4
    States = {1, 2, 3, 4}
    Transitions <- MCTransitions
    WildcardTargets = {4}
    NoState = 0
    MaxSets = 4
    MaxDepth = 3
    MaxActions = 2
    MaxEvents = 2
    MaxMoves = 1
    MemberIds = {1, 2}
    MaxLives = 2
    MaxCasts = 2
    MaxChanges = 6
    MetricNames = {1, 2}
    Writers = {1, 2}
    MaxEntries = 2
    MaxCounts = 1
    MaxExports = 2
INVARIANTS TickIsSound BooksAreKept RatesAreKept
PROPERTIES FiresWhenDue WhatBeganEnds
CHECK_DEADLOCK FALSE
