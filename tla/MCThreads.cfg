SPECIFICATION MCSpec
CONSTANTS
  r1 = r1
  r2 = r2
  r3 = r3
  None = None
  PoolSize = 3
  Runnable <- MCRunnable
  Outcomes <- MCOutcomes
  Effects <- MCEffects
  ThreadNo = 2
  MaxLoops = 2
CHECK_DEADLOCK FALSE
INVARIANTS NothingLost NoSleeperIsNeeded
PROPERTIES ItemsAreDone WorkGoesOn
