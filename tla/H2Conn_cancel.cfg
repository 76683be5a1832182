\* A client, all of whose frames are well-formed, cancels a call that it has
\* finished sending.
SPECIFICATION H2Spec
CONSTANTS
  MaxStreams = 1
  MaxConcurrent = 1
  MaxFrames = 1
  Window = 1
  MaxWindow = 1
  MaxBody = 1
  MayMisbehave = FALSE
INVARIANT WriteSucceeds
\* A terminated process, or a connection that has ended, does nothing more.
CHECK_DEADLOCK FALSE
