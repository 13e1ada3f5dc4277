\* An Open whose path continues past /dev/tty reaches DeviceFS::FindInDirectory with the tty vnode.
CONSTANTS
    Tasks = {t1, t2}
    Opens <- MCOpensPanic
    InitDirents <- MCDirents
    InitTypes <- MCTypes
    FreeInos = {13}
    MaxFds = 4
SYMMETRY MCSymmetry
SPECIFICATION Spec
CHECK_DEADLOCK FALSE
INVARIANT NoPanic
