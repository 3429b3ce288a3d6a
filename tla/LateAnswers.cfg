CONSTANTS
    Accounts = {a, b}
    Passwords = {p}
    Connections = {k1, k2}
    NoConnection = NoConnection
    NoLogin = NoLogin
    MaxLogins = 3
    MaxTimeouts = 1
    MaxCuts = 0
    MaxCrashes = 0
    MaxRelaunches = 0
SPECIFICATION Spec
CHECK_DEADLOCK FALSE
INVARIANTS
    SessionRowIsTruthful
