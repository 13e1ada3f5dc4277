\* The boot loader's GDT; interrupts before and inside the scripted system
\* calls.  The core stops for good on a hang or on the Panic after step 4.
CONSTANTS
    GdtFromKernel = FALSE
    BootGDT <- MCBootGDT
    OffW <- MCOffW
    Wrapper <- MCWrapper
    Events <- MCEvents
    AppendLen = 2
    MockLen = 3
    BufLen = 4
    Inodes <- MCInodes
    RootIno = 2
    InitEntries <- MCEntries
    InitDirs = {2, 3}
    InitSizes <- MCSizes
    MaxFds = 2
    MaxSize = 8
SPECIFICATION Spec
CHECK_DEADLOCK FALSE
INVARIANT TypeOK
INVARIANT GatesDeliver
INVARIANT ScriptReadsBack
