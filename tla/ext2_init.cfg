CONSTANTS
    Volumes <- MCVolumes
    Width = 8
SPECIFICATION Spec
INVARIANTS TypeOK ListingMatches InodeInTable
PROPERTY ListingTerminates
CHECK_DEADLOCK FALSE
