\* Three streams, two at a time; responses larger than a window.
SPECIFICATION H2Spec
CONSTANTS
  MaxStreams = 3
  MaxConcurrent = 2
  MaxFrames = 3
  Window = 1
  MaxWindow = 1
  MaxBody = 2
  MayMisbehave = TRUE
INVARIANTS
  H2TypeOK
  RequestExact
  EndedAnswered
  ResponseOwn
  SentWhatFits
  HeadersSerialised
  StreamsTracked
  StreamsBounded
PROPERTY ImplementsCalls
\* A terminated process, or a connection that has ended, does nothing more.
CHECK_DEADLOCK FALSE
