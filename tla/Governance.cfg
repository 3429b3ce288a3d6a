SPECIFICATION Spec
CONSTANTS
    Nodes = {m1, m2}
    Self = m1
    m1 = m1
    m2 = m2
    admin = admin
    guest = guest
    Sources = {admin, guest}
    RoleOf <- MCRoleOf
    Trusted <- MCTrusted
    Pids = {p1, p2}
    NoProcess = NoProcess
    NoTermination = NoTermination
    MaxNodes = 1
    MaxCopies = 2
    MaxTrail = 1
    AuditCapacity = 1
    WindowTicks = 1
    MaxArtifacts = 1
    MaxRequests = 3
    MaxStarts = 2
    MaxPrunes = 1
    MaxHostEvents = 1
INVARIANTS SupervisionIsSound RosterIsOrdered
PROPERTY ShutdownHappens
CHECK_DEADLOCK FALSE
