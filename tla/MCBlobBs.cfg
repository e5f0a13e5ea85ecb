SPECIFICATION Spec
CONSTANTS
  small = small
  large = large
  Data = {small, large}
  NoData = NoData
  NClass = 2
  BlockLenV <- MCBlockLenV
  DataLen <- MCDataLen
  Overhead = 2
  HeadLen = 1
  HdrLen = 1
  MxSegLen = 4
  AddrMx = 7
  MaxSegs = 2
INVARIANTS IInv FreeListExact CleanOpenSeesAll
PROPERTY ImplementsBlobStore
CHECK_DEADLOCK FALSE
