SPECIFICATION FairSpec
CONSTANTS
  i1 = i1
  i2 = i2
  n1 = n1
  none = none
  Instances = {i1, i2}
  Names = {n1}
  BadNames = {}
  Nobody = none
  PostFetch = "leave"
  SameSecond = FALSE
  MaxUid = 2
  MaxTime = 1
  MaxUploads = 1
  MaxStarts = 2
  MaxFaults = 2
CONSTRAINT UploadOrFault
INVARIANTS TypeOK OriginalsKept RowsHaveOriginals ProcessedOnce
PROPERTIES UidsNotReissued EventuallyExits LockComesBack
CHECK_DEADLOCK FALSE
