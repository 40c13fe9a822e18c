SPECIFICATION FairSpec
CONSTANTS
  i1 = i1
  i2 = i2
  d1 = d1
  d2 = d2
  Instances = {i1}
  Names = {1}
  BadNames = {1}
  Dests = {d1}
  MaxWorkers = 1
  LeaveMarked = {TRUE, FALSE}
  Ages = {TRUE}
  MaxFiles = 2
  MaxAttempts = 2
  MaxBatches = 2
  MaxArrivals = 1
  MaxFaults = 1
PROPERTIES BadFilesQuarantined
