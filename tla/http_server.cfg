SPECIFICATION Spec
CONSTANTS
    Peers = {1, 2, 3}
    kMaxClients = 2
    kMaxRequest = 2
    RecvMax = 2
    IdleTicks = 1
    MaxSent = 3
INVARIANT TypeOK
PROPERTIES HealthyIsKept AcceptedIsAnswered
CHECK_DEADLOCK FALSE
