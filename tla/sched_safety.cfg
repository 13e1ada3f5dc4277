\* Two cores, two boot tasks and one fork, sleeps longer than the timer cap.
CONSTANTS
    Cores = {c1, c2}
    InitTasks = 2
    MaxPid = 3
    TimerCap = 2
    SleepTimes = {3}
    LapicReadCeil = FALSE
    CrossCoreWake = FALSE
SYMMETRY CoreSymmetry
SPECIFICATION Spec
INVARIANT TypeOK
INVARIANT TaskAtMostOnce
INVARIANT TimerEntriesTargetSleepers
