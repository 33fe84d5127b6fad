SPECIFICATION Spec
CONSTANTS
  PaddingNames <- MCPadding
  Order = "BigEndian"
  BufSize = 2
  SizeMod = 256
  Memories <- MCMemories
  Widths = {}
  Formats <- MCFormats
  OutWidths = {8}
  Tables = {}
INVARIANTS ReadFieldSeeks
