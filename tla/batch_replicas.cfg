SPECIFICATION Spec
CONSTANTS
  i1 = i1
  i2 = i2
  d1 = d1
  d2 = d2
  Instances = {i1, i2}
  Names = {1, 2, 3}
  BadNames = {}
  Dests = {d1, d2}
  MaxWorkers = 1
  LeaveMarked = {FALSE}
  Ages = {TRUE}
  MaxFiles = 2
  MaxAttempts = 1
  MaxBatches = 3
  MaxArrivals = 1
  MaxFaults = 1
INVARIANTS DoneIsEverywhere OneOpenBatch
PROPERTIES DeliveredForGood
CONSTRAINT OneBatchOrFormation
SYMMETRY BatchSymmetry
