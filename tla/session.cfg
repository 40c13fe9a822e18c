SPECIFICATION Spec
CONSTANTS
  d1 = d1 d2 = d2
  Dest = {d1, d2}
  Members = 2
  MaxRecords = 2
  MaxAttempts = 3
  MaxFaults = 2
SYMMETRY DestSymmetry
INVARIANTS TypeOK WholeObjects FilesReconciled LineageLocates CountsAddUp StopsWhenAllDown
PROPERTY HealthyDelivered
CHECK_DEADLOCK FALSE
