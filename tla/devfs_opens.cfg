\* DeviceFS under the spec's VFS: two tasks created by CreateTaskFromELF,
\* then opens and closes over the Ext2 volume and the /dev mount.
CONSTANTS
    Tasks = {t1, t2}
    Opens <- MCOpens
    InitDirents <- MCDirents
    InitTypes <- MCTypes
    FreeInos = {13}
    MaxFds = 4
SYMMETRY MCSymmetry
SPECIFICATION Spec
INVARIANT TypeOK
INVARIANT VnodeIdentity
INVARIANT OpensResolve
