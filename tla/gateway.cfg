SPECIFICATION Spec
CONSTANTS
    ReadPoints = {r1}
    WritePoints = {w1}
    Channels <- BothChannels
    Commands <- EveryCommand
    Values = {v0}
    InitialValue = v0
    kSerialFailRounds = 2
    MaxStarts = 2
    MaxCommands = 2
    MaxOutages = 1
INVARIANT LifecycleSafe
PROPERTIES FaultIsEarned
CHECK_DEADLOCK FALSE
