SPECIFICATION Spec
CONSTANTS
  p1 = p1
  p2 = p2
  u1 = u1
  u2 = u2
  f1 = f1
  Pipelines = {p1, p2}
  PlNames <- TwoNames
  DestNames <- TwoDests
  Default <- Dft
  Output <- Out
  Fields = {f1}
  Reads <- AllReads
  Legacy = {p1}
  LegacyName <- Old
  Requests = {u1, u2}
  MaxRows = 3
  MaxWrites = 3
  MaxBatches = 2
  MaxFaults = 1
INVARIANTS TypeOK NoDanglingColumns DeliveriesHaveRows RowsNotShared SequenceContinues GapsOnlyFromAbandoned
CHECK_DEADLOCK FALSE

CONSTRAINT TwoOverlap
SYMMETRY SameRequests
