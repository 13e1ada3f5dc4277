\* Sleeps no longer than the timer cap.
CONSTANTS
    Cores = {c1}
    InitTasks = 2
    MaxPid = 2
    TimerCap = 2
    SleepTimes = {1, 2}
    LapicReadCeil = FALSE
    CrossCoreWake = FALSE
SPECIFICATION Spec
INVARIANT NoPanic
