CONSTANTS
    Volumes <- MCVolumesZeroEntry
    Width = 8
SPECIFICATION Spec
PROPERTY ListingTerminates
CHECK_DEADLOCK FALSE
