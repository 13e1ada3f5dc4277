\* Two cores and two tasks without fork (at most two queue entries), fair timers.
CONSTANTS
    Cores = {c1, c2}
    InitTasks = 2
    MaxPid = 2
    TimerCap = 2
    SleepTimes = {3}
    LapicReadCeil = FALSE
    CrossCoreWake = FALSE
SPECIFICATION FairSpec
PROPERTY SleeperWakes
