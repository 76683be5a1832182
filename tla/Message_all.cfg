\* Every cut of short messages, with signed and with unsigned char.
SPECIFICATION MessageSpec
CONSTANTS
  Base = 4
  Lengths <- MCLengths
  MaxExtra = 2
  Alloc = 64
  NoLength = NoLength
INVARIANTS
  MessageTypeOK
  NoCorruption
  DeliveredPlain
\* The request has been processed.
CHECK_DEADLOCK FALSE
