SPECIFICATION Spec
CONSTANTS
  PaddingNames <- MCPadding
  Order = "BigEndian"
  BufSize = 2
  SizeMod = 256
  Widths = {}
  Values <- MCValues
  Formats <- MCFormats
  Fills = {}
PROPERTIES PaddingSkipped
