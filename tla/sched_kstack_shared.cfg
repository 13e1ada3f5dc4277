\* One task that may fork once; both may then block in system calls.
CONSTANTS
    Cores = {c1}
    InitTasks = 1
    MaxPid = 2
    TimerCap = 2
    SleepTimes = {3}
    LapicReadCeil = FALSE
    CrossCoreWake = FALSE
SPECIFICATION Spec
INVARIANT KernelStackExclusive
