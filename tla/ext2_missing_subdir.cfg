CONSTANTS
    Volumes <- MCVolumesNoSub
    Width = 8
SPECIFICATION Spec
INVARIANTS InodeInTable
CHECK_DEADLOCK FALSE
