\* Two connections, a server with two workers or none that may be stopped at any time: safety
\* and, under fairness, liveness.
SPECIFICATION ServerFairSpec
CONSTANTS
  Conns = {c1, c2}
  Workers = {w1, w2}
  NoTask = NoTask
  MaxReads = 2
  MayStop = TRUE
INVARIANTS
  ServerTypeOK
  OneOwner
  ParsedInOrder
  OutputConserved
PROPERTIES
  WriteBufferStable
  TaskPhaseEnds
  ConnReleased
  ShutdownEnds
\* A closed or aborted loop does nothing more.
CHECK_DEADLOCK FALSE
