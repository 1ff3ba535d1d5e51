SPECIFICATION Spec
CONSTANTS
    NPAGES = 11
    CHECK_PAGES = 3
    VPages = {1, 2, 3, 4}
    Values = {0, 1}
    Procs = {p1, p2}
    KSTACKPAGE = 2
    MaxPages = 2
SYMMETRY Symmetric
INVARIANTS
    FitExact
    PagesAccounted
    QueueExact
PROPERTIES
    RefinesMemory
CHECK_DEADLOCK FALSE
