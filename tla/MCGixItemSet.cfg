SPECIFICATION MCSpec
VIEW View
CONSTANTS
  Id = {1, 2, 3, 4}
  Fq = {1}
  SumId = {1, 2, 3}
  Summing = FALSE
  SplitLen = 2
  SplitLenMin = 2
  SplitLenMax = 3
  FirstChildBeUnfilled = TRUE
  MaxFq = 1
  MaxDel = 1
  NoVec = NoVec
  NoHeader = NoHeader
INVARIANTS ReadsAreExact ChildrenAreSound StorageIsSound
PROPERTY ImplementsAPostingList
