SPECIFICATION FairSpec
CONSTANTS
  i1 = i1
  i2 = i2
  f = f
  none = none
  Instances = {i1, i2}
  Names = {f}
  NoInstance = none
  MaxStall = 2
  InDoubtCommit = FALSE
  MaxFaults = 2
  MaxArrivals = 2
INVARIANTS TypeOK AtMostOneDone OneVerdictPerClaim TokensDistinct DoneHasOutput
  MarkerImpliesDone NoFaultNoOrphan
PROPERTIES DisposedOnlySettled ImplementsLedger EventuallySettled EventuallyDisposed
CHECK_DEADLOCK FALSE
