\* Open with Create of a missing file under /dev reaches DeviceFS::Create.
CONSTANTS
    Tasks = {t1, t2}
    Opens <- MCOpensCreateDev
    InitDirents <- MCDirents
    InitTypes <- MCTypes
    FreeInos = {13}
    MaxFds = 4
SYMMETRY MCSymmetry
SPECIFICATION Spec
CHECK_DEADLOCK FALSE
INVARIANT NoPanic
