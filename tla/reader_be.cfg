SPECIFICATION Spec
CONSTANTS
  PaddingNames <- MCPadding
  Order = "BigEndian"
  BufSize = 2
  SizeMod = 128
  Memories <- MCMemories
  Widths = {0, 3, 9, 65, 123}
  Formats <- MCFormats
  OutWidths = {8, 64}
  Tables <- MCTables
INVARIANTS TypeOK InBounds LoopFollowsLayout LoopStopsAtBadField FailureIsAtomic
  ReadFieldAgreesWithDeserialize SpanAgreesWithReadField AlignedAgreesWithBits VerifySound
PROPERTIES CallsReturn
