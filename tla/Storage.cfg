CONSTANTS
    MaxId = 2
    MaxVersion = 2
    Users = {"u"}
    MaxTroubles = 1
SPECIFICATION Spec
INVARIANTS
    AckedIsStored
    AccountsAreWhole
    IdIsGivenOnce
PROPERTY ChangeIsStored
CHECK_DEADLOCK FALSE
