SPECIFICATION FairSpec
CONSTANTS
  Owners = {o1, o2}
  Waiters = {w1, w2}
  MaxEpochs = 3
  MaxFaults = 2
INVARIANTS
  ReportIsOfTheLease
  LockInv
PROPERTY
  WaitersAreAnswered
