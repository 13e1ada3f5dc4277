\* The GDT of InitializeGDT in use: gate selector 0x28 names its entry 5, which is zero.
CONSTANTS
    GdtFromKernel = TRUE
    BootGDT <- MCBootGDT
    OffW <- MCOffW
    Wrapper <- MCWrapper
    Events <- MCEvents
    AppendLen = 2
    MockLen = 3
    BufLen = 4
    Inodes <- MCInodes
    RootIno = 2
    InitEntries <- MCEntries
    InitDirs = {2, 3}
    InitSizes <- MCSizes
    MaxFds = 2
    MaxSize = 8
SPECIFICATION Spec
CHECK_DEADLOCK FALSE
INVARIANT GatesDeliver
