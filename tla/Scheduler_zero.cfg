\* A server built with n = 0 workers is destroyed.
SPECIFICATION Spec
CONSTANTS
  Conns = {c1, c2}
  Workers = {}
  NoTask = NoTask
INVARIANT ClosesInitialisedHandle
CHECK_DEADLOCK FALSE
