\* Three boot tasks in the queue of one core.
CONSTANTS
    Cores = {c1}
    InitTasks = 3
    MaxPid = 3
    TimerCap = 2
    SleepTimes = {3}
    LapicReadCeil = FALSE
    CrossCoreWake = FALSE
SPECIFICATION Spec
INVARIANT NoTaskLost
