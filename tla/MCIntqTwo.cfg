SPECIFICATION IntqSpec
CONSTANTS
    Getters = {g1, g2}
    Putters = {}
    Threads <- MCThreads
    Locks = {Lock}
    Lock = Lock
    None = None
    Bytes = {a, b}
    BUFSIZE = 4
INVARIANT WaitAsserts
CHECK_DEADLOCK FALSE
