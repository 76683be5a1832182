\* Three connections share two workers (or n = 0); the server may be destroyed at any time.
SPECIFICATION FairSpec
CONSTANTS
  Conns = {c1, c2, c3}
  Workers = {w1, w2}
  NoTask = NoTask
INVARIANTS
  TypeOK
  ExclusiveRun
  NoLostWakeup
  QueuesHoldLiveTasks
  NoTaskLost
PROPERTIES
  ImplementsExecutor
  EveryTaskJoined
  DestructorReturns
\* Once destroyed the scheduler does nothing more.
CHECK_DEADLOCK FALSE
