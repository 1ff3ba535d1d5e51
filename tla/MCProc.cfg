SPECIFICATION Spec
CONSTANTS
    Idle = Idle
    InitP = InitP
    Users = {u1, u2, u3}
    KillTargets = {u1, u2, u3, InitP}
    MaxSlice = 1
    MAX_PROCESS = 5
    TICK_MOD = 1
    SleepTimes = {1, 2}
SYMMETRY UserSymmetry
INVARIANTS
    SchedExact
    FamilySound
    TimerOwned
PROPERTIES
    FreedWhenDead
    UsesTimers
CHECK_DEADLOCK FALSE
