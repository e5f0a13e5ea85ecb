\* Two requests and three tasks, on a pool of two threads, with a handle of either kind.
SPECIFICATION AsyncFairSpec
CONSTANTS
  Nil = Nil
  Request = {q1, q2}
  Task = {t1, t2, t3}
  Shared = FALSE
  SemFails = FALSE
  PoolThreads = 2
CHECK_DEADLOCK FALSE
INVARIANTS TasksAreSound
PROPERTIES BlockingIsSafe EveryTaskIsServed
