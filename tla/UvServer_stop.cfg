\* The server is stopped while a response is being written.
SPECIFICATION ServerSpec
CONSTANTS
  Conns = {c1}
  Workers = {w1}
  NoTask = NoTask
  MaxReads = 1
  MayStop = TRUE
INVARIANT ClosesOnce
CHECK_DEADLOCK FALSE
