CONSTANTS
    Avatars = {a}
    Npcs = {n, m}
    Spaces = {s1, s2}
    Default = s1
    Points <- ThreePoints
    Ranges = {1}
    Nowhere = Nowhere
    MaxOps = 1
    MaxMovers = 1
    MaxBacklog = 0
    MaxLosses = 1
SPECIFICATION Spec
CHECK_DEADLOCK FALSE
INVARIANTS
    ViewIsInRange
    ClientSeesTheView
