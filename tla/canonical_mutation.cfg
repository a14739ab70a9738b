SPECIFICATION Spec
CONSTANTS
    Snaps = {s0, s1, s2}
    Base = s0
    MaxIds = 4
    MaxFaults = 2
INVARIANTS
    CallKeepsItsLease
    PendingIsRecoverable
PROPERTIES
    PreservedFixIsSettled
    MovesAreAttributed
CHECK_DEADLOCK FALSE
