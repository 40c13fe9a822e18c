SPECIFICATION Spec
CONSTANTS
  i1 = i1
  i2 = i2
  f = f
  none = none
  Instances = {i1, i2}
  Names = {f}
  NoInstance = none
  MaxStall = 2
  InDoubtCommit = TRUE
  MaxFaults = 1
  MaxArrivals = 1
INVARIANT DoneHasOutput
CHECK_DEADLOCK FALSE
