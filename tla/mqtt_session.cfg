\* Users that share the client; the bounds for one user alone are in the module.
SPECIFICATION SharedSpec
CONSTANTS
    u1 = u1
    u2 = u2
    t1 = t1
    Users = {u1, u2}
    Topics = {t1}
    NoTopic = NoTopic
    Kinds <- PublishCalls
    CleanSession = FALSE
    kMaxTxQueue = 1
    MaxPacketId = 3
    MaxCalls = 2
    MaxStarts = 2
    MaxFaults = 2
    MaxPushes = 0
SYMMETRY Symmetry
INVARIANTS WaitsAreWoken DeliveryOrder HonestReports
PROPERTY OutboxSpec
CHECK_DEADLOCK FALSE
