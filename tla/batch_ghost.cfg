SPECIFICATION Spec
CONSTANTS
  i1 = i1
  i2 = i2
  d1 = d1
  d2 = d2
  Instances = {i1, i2}
  Names = {1, 2}
  BadNames = {2}
  Dests = {d1}
  MaxWorkers = 1
  LeaveMarked = {TRUE}
  Ages = {TRUE}
  MaxFiles = 2
  MaxAttempts = 1
  MaxBatches = 1
  MaxArrivals = 1
  MaxFaults = 1
INVARIANTS DoneOnlyDelivered
SYMMETRY BatchSymmetry
CONSTRAINT MalformedCompany
