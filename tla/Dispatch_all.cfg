\* Every order of a few header fields, good and bad paths, cut and wrong messages.
SPECIFICATION DispatchSpec
CONSTANTS
  Base = 2
  Lengths = {2}
  MaxExtra = 1
  Alloc = 8
  NoLength = NoLength
  Tokens = {"/", "x", "S", "T", "M", "N"}
  Paths <- MCPaths
  Services <- MCServices
  Keys = {"k"}
  Values = {"u", "v"}
  MaxHeaders = 4
  NoValue = NoValue
INVARIANTS
  DispatchTypeOK
  RoutedAsSent
  MetadataFirst
  SurplusRefused
  ReachesHandler
  StatusTells
\* The call has been answered.
CHECK_DEADLOCK FALSE
