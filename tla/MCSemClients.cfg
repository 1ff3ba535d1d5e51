SPECIFICATION ClientSpec
CONSTANTS
    Idle = Idle
    InitP = InitP
    Users = {u1, u2}
    MaxSlice = 1
    NoSem = NoSem
    mutex = mutex
    other = other
    Sems <- MCSems
    InitValue <- MCInitValue
    MaxValue = 2
SYMMETRY UserSymmetry
INVARIANTS
    WaitqSound
    DownAssert
PROPERTIES
    RefinesSem
    Fifo
