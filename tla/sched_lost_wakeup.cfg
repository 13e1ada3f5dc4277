\* Two cores; the event that ends a wait may be handled on the other core.
CONSTANTS
    Cores = {c1, c2}
    InitTasks = 2
    MaxPid = 2
    TimerCap = 2
    SleepTimes = {3}
    LapicReadCeil = FALSE
    CrossCoreWake = TRUE
SYMMETRY CoreSymmetry
SPECIFICATION Spec
INVARIANT NoPanic
