SPECIFICATION FairSpec
CONSTANTS
    ReadPoints = {r1}
    WritePoints = {w1}
    Channels <- OneChannel
    Commands <- FaultCommands
    Values = {v0}
    InitialValue = v0
    kSerialFailRounds = 3
    MaxStarts = 2
    MaxCommands = 2
    MaxOutages = 1
PROPERTIES SuccessLeavesFault FaultDetected FaultCleared TelemetryContinues StopReturns
CHECK_DEADLOCK FALSE
