SPECIFICATION Spec
CONSTANTS
  PaddingNames <- MCPadding
  Order = "LittleEndian"
  BufSize = 10
  SizeMod = 256
  Memories <- MCLongMemories
  Widths = {13, 64, 65}
  Formats <- MCLongFormats
  OutWidths = {64}
  Tables = {}
INVARIANTS LoopFollowsLayout LoopStopsAtBadField SpanAgreesWithReadField AlignedAgreesWithBits
