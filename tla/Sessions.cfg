CONSTANTS
    r = r
    Clients = {1, 2}
    Accounts = {a}
    Realms = {r}
    Tokens = {1, 2}
    NoRealm = NoRealm
    NoAccount = NoAccount
    None = None
    Links = {1, 2}
    Scopes <- AllOrRealm
    MaxLeaves = 1
    MaxSelects = 1
    MaxCommands = 1
    MaxExpiries = 1
    MaxCuts = 1
    MaxCrashes = 1
    MaxTroubles = 1
SPECIFICATION Spec
CHECK_DEADLOCK FALSE
INVARIANTS
    RowsAreSound
    RevokedIsGone
PROPERTIES
    ClosedWasKicked
    KickedLoginEnds
    NoticeLinkRecovers
