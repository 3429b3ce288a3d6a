SPECIFICATION Spec
CONSTANTS
    High = 2
    MaxSendBuffer = 4
    SendMax = 2
    RecvMax = 1
    WireCapacity = 3
    Weights = {1, 2}
    MaxSends = 3
    MaxHeartbeats = 1
PROPERTIES KeepsOrder AcceptedArrives
CHECK_DEADLOCK FALSE
