SPECIFICATION FairSpec
CONSTANTS
    Schedule <- MCSchedule
    Deadline = 36
    MaxProbes = 4
    MaxLateness = 1
    RunTimes = {0, 2, 40}
INVARIANTS
    RecoveryInv
    RetryStartsInTime
    GivesUpAfterAllProbes
    OneStopPerRecovery
    GateLeavesAStop
    AtMostOneLateStart
PROPERTIES
    RecoveryEnds
CHECK_DEADLOCK FALSE
