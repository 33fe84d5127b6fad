SPECIFICATION Spec
CONSTANTS
  PaddingNames <- MCPadding
  SizeMod = 1024
  Sizes = {0, 13, 14, 15, 16, 17, 18, 33, 34, 37, 38, 40}
  Requests <- MCRequests
INVARIANTS ReportsWhatWasSent ThrowsIfShort
PROPERTIES ParserEnds
CHECK_DEADLOCK FALSE
