SPECIFICATION IntqSpec
CONSTANTS
    Getters = {g1, g2, g3}
    Putters = {p1, p2}
    Threads <- MCThreads
    Locks = {Lock}
    Lock = Lock
    None = None
    Bytes = {a, b}
    BUFSIZE = 3
SYMMETRY MCSymmetry
INVARIANTS
    BlockedExact
    NoMissedWakeup
PROPERTIES
    RefinesQueue
CHECK_DEADLOCK FALSE
