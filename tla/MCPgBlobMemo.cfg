SPECIFICATION MCSpec
CONSTANTS
  oneA = oneA
  oneB = oneB
  two = two
  Data = {oneA, oneB, two}
  Size <- MCSize
  NoData = NoData
  Free = Free
  PageSize = 4
  Scanned = 1
  MxLoadedPages = 2
  MaxPages = 3
  RecPtr = {p1, p2, p3}
  NoRecPtr = NoRecPtr
  Name = {n1, n2}
  Val = {v1}
  MayMove = TRUE
  MaxRecs = 3
INVARIANT MemoFresh
