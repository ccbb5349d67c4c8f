SPECIFICATION Spec
CONSTANTS
    Peers = {p1, p2, p3}
    Active = {p1}
    kMaxClients = 2
    kMaxCmd = 2
    kMaxOut = 2
    RecvMax = 2
    Window = 1
    ReplySizes = {2, 3}
    IdleTicks = 1
    MaxSent = 3
INVARIANTS SlotsAligned CommandsFramed RepliesConserved
PROPERTIES StopReturns SilentIsDropped AnswersAreSent
CHECK_DEADLOCK FALSE
