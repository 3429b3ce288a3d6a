CONSTANTS
    Entities = {e1}
    Cells = {c1, c2}
    Base = base
    NoCell = NoCell
    NoRoute = NoRoute
    MaxMigrations = 3
    MaxCalls = 1
    MaxLapses = 1
    MaxRefusals = 1
    MaxSpawns = 0
    MaxBacklog = 1
SPECIFICATION Spec
CHECK_DEADLOCK FALSE
SYMMETRY CellSymmetry
INVARIANTS
    TypeOK
    SingleAuthority
    PendingIsRegistered
