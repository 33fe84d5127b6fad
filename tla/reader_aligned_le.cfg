SPECIFICATION Spec
CONSTANTS
  PaddingNames <- MCPadding
  Order = "LittleEndian"
  BufSize = 10
  SizeMod = 256
  Memories <- MCLongMemories
  Widths = {}
  Formats <- MCLongFormats
  OutWidths = {64}
  Tables = {}
INVARIANTS AlignedReadsInteger
