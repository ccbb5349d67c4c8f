CONSTANTS
    Users = {u1}
    Topics = {t1}
    NoTopic = NoTopic
    Kinds <- MixedCalls
    CleanSession = FALSE
    kMaxTxQueue = 1
    MaxPacketId = 2
    MaxCalls = 1
    MaxStarts = 2
    MaxFaults = 2
    MaxPushes = 1
SPECIFICATION FairSpec
CHECK_DEADLOCK FALSE
PROPERTIES
    QueuedIsSent
    StopCompletes
