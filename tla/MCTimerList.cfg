SPECIFICATION TimerSpec
CONSTANTS
    Timers = {t1, t2, t3}
    Times = {1, 2, 4}
PROPERTIES
    RefinesTimers
    TimerFires
