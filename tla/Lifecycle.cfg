CONSTANTS
    Entities = {e1, e2}
    Cells = {c1, c2}
    Base = base
    NoCell = NoCell
    NoRoute = NoRoute
    MaxMigrations = 0
    MaxCalls = 1
    MaxLapses = 0
    MaxRefusals = 0
    MaxSpawns = 1
    MaxBacklog = 2
SPECIFICATION FairSpec
CHECK_DEADLOCK FALSE
INVARIANTS
    BindingIsTruthful
    PendingIsAnswered
PROPERTIES
    DestroyCompletes
