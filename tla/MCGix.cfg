SPECIFICATION GixSpec
CONSTANTS
  Key = {k1, k2}
  ItemVal = {1}
  BlobPt = {p1, p2, p3}
  NoPtr = NoPtr
  NoSet = NoSet
SYMMETRY Symmetry
INVARIANTS OneBlobPerKey CacheSound
PROPERTIES ImplementsPostingIndex
