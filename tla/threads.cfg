\* Three threads at a ring buffer of two slots; every front end of the program, with
\* input in pieces: quit, watch, and lines that are neither.
SPECIFICATION PartSpec
CONSTANTS
    Threads = {a, b, c}
    Values = {v, w}
    Capacity = 2
    Modes = {"cli", "daemon", "wait", "qt", "qtDaemon"}
    Symbols = {"quit", "watch", "nl"}
    MaxTyped = 3
INVARIANTS NoLostWakeup LastRunOnly ThreadsEndFirst
PROPERTIES FifoSpec CallsReturn EndsWhenTold
CHECK_DEADLOCK FALSE
