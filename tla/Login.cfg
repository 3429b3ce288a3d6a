CONSTANTS
    Accounts = {a}
    Passwords = {p, q}
    Connections = {k1, k2, k3}
    NoConnection = NoConnection
    NoLogin = NoLogin
    MaxLogins = 3
    MaxTimeouts = 2
    MaxCuts = 1
    MaxCrashes = 1
    MaxRelaunches = 1
SPECIFICATION FairSpec
CHECK_DEADLOCK FALSE
INVARIANTS
    TypeOK
    AccountIsUnique
    UpIsReachable
PROPERTIES
    LoginEnds
    LinkRecovers
