SPECIFICATION ProgramSpec
CONSTANTS
    Modes = {"cli"}
    Symbols = {"quit", "watch", "nl"}
    MaxTyped = 3
PROPERTY CtrlCEnds
CHECK_DEADLOCK FALSE
