SPECIFICATION FairSpec
CONSTANTS
  p1 = p1
  u1 = u1
  f1 = f1
  Pipelines = {p1}
  PlNames <- TwoNames
  DestNames <- TwoDests
  Default <- Dft
  Output <- Out
  Fields = {f1}
  Reads <- AllReads
  Legacy = {p1}
  LegacyName <- Old
  Requests = {u1}
  MaxRows = 3
  MaxWrites = 2
  MaxBatches = 1
  MaxFaults = 1
PROPERTY DisabledDrains
CHECK_DEADLOCK FALSE
