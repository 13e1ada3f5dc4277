\* Sleeps longer than the timer cap, so no Panic is reachable.
CONSTANTS
    Cores = {c1}
    InitTasks = 2
    MaxPid = 2
    TimerCap = 2
    SleepTimes = {3}
    LapicReadCeil = FALSE
    CrossCoreWake = FALSE
SPECIFICATION Spec
INVARIANT SleepNotEarly
