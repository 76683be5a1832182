\* The prefix of a well-formed message is cut in two.
SPECIFICATION MessageSpec
CONSTANTS
  Base = 4
  Lengths <- MCLengths
  MaxExtra = 2
  Alloc = 64
  NoLength = NoLength
INVARIANT DeliveredCut
\* The request has been processed.
CHECK_DEADLOCK FALSE
