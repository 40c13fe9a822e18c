SPECIFICATION Spec
CONSTANTS
  i1 = i1
  i2 = i2
  d1 = d1
  d2 = d2
  Instances = {i1, i2}
  Names = {1}
  BadNames = {}
  Dests = {d1}
  MaxWorkers = 1
  LeaveMarked = {TRUE, FALSE}
  Ages = {TRUE}
  MaxFiles = 1
  MaxAttempts = 2
  MaxBatches = 2
  MaxArrivals = 1
  MaxFaults = 0
INVARIANTS NoDoubleDelivery
SYMMETRY BatchSymmetry
