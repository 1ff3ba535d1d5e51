SPECIFICATION TreeSpec
CONSTANTS
    MAX_PROCESS = 6
    MAX_PID = 8
INVARIANTS
    PidSound
    LinksAgree
    ChildrenReached
PROPERTIES
    ScanTerminates
    RefinesPidAlloc
