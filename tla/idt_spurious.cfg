\* As idt_script, and the LAPIC may deliver its spurious-interrupt vector 0xff.
CONSTANTS
    GdtFromKernel = FALSE
    BootGDT <- MCBootGDT
    OffW <- MCOffW
    Wrapper <- MCWrapper
    Events <- MCEventsSpurious
    AppendLen = 2
    MockLen = 3
    BufLen = 4
    Inodes <- MCInodes
    RootIno = 2
    InitEntries <- MCEntries
    InitDirs = {2, 3}
    InitSizes <- MCSizes
    MaxFds = 2
    MaxSize = 8
SPECIFICATION Spec
CHECK_DEADLOCK FALSE
INVARIANT OnlyFaultsHang
