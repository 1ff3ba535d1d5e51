SPECIFICATION Spec
CONSTANTS
    Idle = Idle
    InitP = InitP
    Users = {u1, u2}
    KillTargets = {u1, InitP}
    MaxSlice = 2
    MAX_PROCESS = 4
    TICK_MOD = 2
    SleepTimes = {1, 2}
PROPERTIES
    RunnableRuns
    SleeperWakes
    KilledStops
CHECK_DEADLOCK FALSE
