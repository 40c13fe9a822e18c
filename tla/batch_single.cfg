SPECIFICATION FairSpec
CONSTANTS
  i1 = i1
  i2 = i2
  d1 = d1
  d2 = d2
  Instances = {i1}
  Names = {1, 2}
  BadNames = {2}
  Dests = {d1}
  MaxWorkers = 1
  LeaveMarked = {TRUE, FALSE}
  Ages = {TRUE, FALSE}
  MaxFiles = 2
  MaxAttempts = 2
  MaxBatches = 4
  MaxArrivals = 1
  MaxFaults = 1
INVARIANTS TypeOK NoPartialObject DeliveredHasCounts SequenceExplained KeptBatchesDisjoint
PROPERTIES GoodFilesDelivered
