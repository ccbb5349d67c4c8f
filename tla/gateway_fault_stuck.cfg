SPECIFICATION Spec
CONSTANTS
    ReadPoints = {r1}
    WritePoints <- NoWritePoints
    Channels <- OneChannel
    Commands <- LinkCommands
    Values = {v0}
    InitialValue = v0
    kSerialFailRounds = 3
    MaxStarts = 1
    MaxCommands = 2
    MaxOutages = 1
PROPERTIES SuccessLeavesFault
CHECK_DEADLOCK FALSE
