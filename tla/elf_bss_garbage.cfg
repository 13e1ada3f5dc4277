CONSTANTS
    PageSize = 4
    RtdlAddr = 16
    UserStackBase = 4096
    Root = "init"
    Images <- MCImagesBss
    VPages = {0, 1, 2, 3, 4, 5, 6, 7}
    MaxFrames = 12
SPECIFICATION Spec
CHECK_DEADLOCK FALSE
INVARIANT SegmentsLoaded
