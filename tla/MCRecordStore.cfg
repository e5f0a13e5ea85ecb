SPECIFICATION MCSpec
CONSTANTS
  Disk = {"text"}
  Memory = {"name"}
  PrimaryField = "name"
  Nullable = {"text"}
  Codebook = {"text"}
  Keys <- MCKeys
  GixKeys = {1}
  Value = {v1, v2, v3}
  Null = Null
  Bad = Bad
  None = None
  Json <- MCJson
  Settable = {"name", "text"}
  MayTake = FALSE
  AnyBatch = FALSE
  WindowSize = 1
  MaxRecs = 3
  Blank = Blank
  Empty = Empty
  BlockSize = 2
  BlockMem = 1
  MxMemUsed = 5
  PurgeMem = 2
  CacheResetThreshold = 4
  StoredVals = 5
  LoadedVals = 4
SYMMETRY MCSymmetry
INVARIANTS PartsAligned IndexExact MetaExact CleanOnDisk BlocksSound
PROPERTIES KeepsRecords KeepsItsPromise
CHECK_DEADLOCK FALSE
