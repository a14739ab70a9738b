SPECIFICATION FairSpec
CONSTANTS
    N = 2
    Versions = {v1, v2}
    Edited = Edited
    None = None
    MaxFaults = 3
INVARIANTS
    InterruptedIsRecoverable
PROPERTIES
    JournalGoesWhenSettled
    EditedIsKept
    InstallIsAtomic
    RecoveryFinishes
