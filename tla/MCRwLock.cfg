SPECIFICATION Spec
CONSTANTS
    Threads = {t1, t2, t3, t4}
    Guard = Guard
    Locks <- MCLocks
    None = None
INVARIANTS
    LockSound
PROPERTIES
    RefinesRw
    WritersNext
    CallsReturn
