SPECIFICATION Spec
CONSTANTS
    MaxExt = 1
    MaxCands = 2
    MaxCrashes = 0
INVARIANT
    AdvancedPrimaryIsAdoptable
CHECK_DEADLOCK FALSE
