\* A well-formed message whose length has the top bit of a byte set.
SPECIFICATION MessageSpec
CONSTANTS
  Base = 4
  Lengths <- MCLengths
  MaxExtra = 2
  Alloc = 64
  NoLength = NoLength
INVARIANT DeliveredSigned
\* The request has been processed.
CHECK_DEADLOCK FALSE
