CONSTANTS
    Entities = {e1}
    Cells = {c1, c2}
    Base = base
    NoCell = NoCell
    NoRoute = NoRoute
    MaxMigrations = 3
    MaxCalls = 1
    MaxLapses = 0
    MaxRefusals = 0
    MaxSpawns = 0
    MaxBacklog = 1
SPECIFICATION FairSpec
CHECK_DEADLOCK FALSE
INVARIANTS
    NoEffectIsLost
    MigratingIsAnswered
PROPERTIES
    AuthorityEndsByDestroy
    MigrationCompletes
    PlacementSpec
