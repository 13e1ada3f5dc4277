\* Paths include one through the regular file /a/b.
CONSTANTS
    Inodes <- MCInodes
    RootIno = 2
    InitEntries <- MCEntries
    InitDirs = {2, 3}
    InitSizes <- MCSizes
    Paths <- MCPathsThroughFile
    MaxFds = 2
    MaxSize = 2
    Counts = {1}
    Offsets = {1}
SPECIFICATION Spec
INVARIANT EntriesOnlyInDirectories
