CONSTANTS
    BaseProps = {b, u}
    CellProps = {k, t}
    Strings = {t, u}
    Cells = {c1, c2}
    Base = Base
    Ghost = Ghost
    Nowhere = Nowhere
    MaxWrites = 2
    MaxMigrations = 2
    MaxRefusals = 1
    MaxBacklog = 2
SPECIFICATION Spec
SYMMETRY CellSymmetry
CHECK_DEADLOCK FALSE
INVARIANTS
    OwnersAreCurrent
    ClientIsCurrent
    GhostIsCurrent
