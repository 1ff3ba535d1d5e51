SPECIFICATION Spec
CONSTANTS
    Idle = Idle
    InitP = InitP
    Users <- MCUsers
    Sems <- MCSems
    NoSem = NoSem
    MaxSlice = 1
    Mutex = Mutex
    N = 3
    TIMES = 2
INVARIANTS
    SeatsSound
PROPERTIES
    AllQuit
