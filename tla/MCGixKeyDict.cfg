SPECIFICATION DictSpec
CONSTANTS
  p1 = p1
  p2 = p2
  NoKey = NoKey
  NoDictPt = NoDictPt
  DictKey <- MCKey
  DictPt <- MCPtr
VIEW View
INVARIANTS EntriesSound LookUpsExact
PROPERTIES ScanStable ImplementsKeyMap
