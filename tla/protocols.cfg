\* ModbusLink, and MqttKeepalive in ticks of 100 ms with keepaliveSec = 2 (PINGREQ
\* after 1.4 s, watchdog after 3 s, poll() capped at 1 s, back-off from 0.3 s to
\* 1.2 s); two threads at the event bus, each with one publish inside another at
\* most.  The other instances are in the module.
SPECIFICATION PartSpec
CONSTANTS
    t1 = t1
    t2 = t2
    a1 = a1
    a2 = a2
    v0 = v0
    v1 = v1
    Readers = {t1}
    Writers = {t1, t2}
    Addrs = {a1, a2}
    Writable = {a1}
    Values = {v0, v1}
    InitialValue = v0
    MaxCalls = 3
    MaxFaults = 1
    MaxLate = 1
    Readings <- SomeReadings
    Windows = {0, 2}
    Limits <- SomeLimits
    Hystereses <- SomeBands
    MaxReadings = 4
    Threshold = 14
    Keepalive = 20
    Watchdog = 30
    PollCap = 10
    MaxRtt = 5
    ReconnectBase = 3
    ReconnectMax = 12
    Jitters = {0, 30}
    Publishers = {main, acq}
    Topics <- SomeTopics
    Patterns <- SomePatterns
    MaxIds = 2
    MaxDepth = 2
    Samples <- SomePackets
    Foreign <- Tampered
    kRxBufMax = 169
    RecvMax = 40
    MaxPackets = 2
INVARIANTS
    LinkSafe WireFaithful PointFollowsHistory TimersKept DeliveredOnce
    StreamDecoded DecoderSound AcceptsTheGrammar RoundTrip
PROPERTIES ServiceSpec NoFalseAlarm
CHECK_DEADLOCK FALSE
