\* A task opens /dev, the DeviceFS root, and reads it: the Read goes
\* through a vnode context that was never set.
CONSTANTS
    Tasks = {t1, t2}
    Opens <- MCOpensDirRead
    InitDirents <- MCDirents
    InitTypes <- MCTypes
    FreeInos = {13}
    MaxFds = 4
SYMMETRY MCSymmetry
SPECIFICATION Spec
INVARIANT NoPanic
CHECK_DEADLOCK FALSE
