SPECIFICATION MCJoinsSpec
CONSTANTS
  All = All
  Form <- IndexField
  HasFq <- WithFq
  Fqs = {1, 2}
  DelFqs = {All}
  Again = FALSE
  Unjoined = FALSE
  MaxRecs = 3
  MaxJoinFq = 2
INVARIANT SidesAreOne
PROPERTIES AreLinks CutsOnePair
CHECK_DEADLOCK FALSE
