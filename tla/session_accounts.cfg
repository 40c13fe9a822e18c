\* What the code says of the counts of a recorded file; see Session.tla.
SPECIFICATION Spec
CONSTANTS
  d1 = d1 d2 = d2
  Dest = {d1, d2}
  Members = 2
  MaxRecords = 2
  MaxAttempts = 1
  MaxFaults = 0
SYMMETRY DestSymmetry
INVARIANT InOutSuspended
CHECK_DEADLOCK FALSE
