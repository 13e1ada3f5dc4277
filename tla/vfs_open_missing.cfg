\* Open without Create of a path whose last token is missing.
CONSTANTS
    Inodes <- MCInodes
    RootIno = 2
    InitEntries <- MCEntries
    InitDirs = {2, 3}
    InitSizes <- MCSizes
    Paths <- MCPaths
    MaxFds = 2
    MaxSize = 2
    Counts = {1}
    Offsets = {1}
SPECIFICATION Spec
INVARIANT OpenNamesExistingFile
