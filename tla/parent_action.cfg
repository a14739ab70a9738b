SPECIFICATION FairSpec
CONSTANTS
    Packets = {p1, p2}
    NoPacket = NoPacket
    MaxFailures = 4
INVARIANTS
    WaitIsIntact
    InterruptedActionIsRecoverable
PROPERTY RecoveryCompletes
