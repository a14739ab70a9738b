SPECIFICATION FairSpec
CONSTANTS
    MaxExt = 2
    MaxCands = 2
    MaxCrashes = 1
INVARIANTS
    PublicHistory
    AcknowledgedIsRetired
    CandidateOwnsLocal
PROPERTY
    PendingSettles
CHECK_DEADLOCK FALSE
