CONSTANTS
    Users = {u1, u2}
    Topics = {t1, t2}
    NoTopic = NoTopic
    Kinds <- SubscribeCalls
    CleanSession = TRUE
    kMaxTxQueue = 2
    MaxPacketId = 9
    MaxCalls = 2
    MaxStarts = 1
    MaxFaults = 2
    MaxPushes = 0
SPECIFICATION Spec
CHECK_DEADLOCK FALSE
SYMMETRY Symmetry
INVARIANT SubscriptionsHeld
