SPECIFICATION Spec
CONSTANTS
  PaddingNames <- MCPadding
  Order = "LittleEndian"
  BufSize = 2
  SizeMod = 256
  Widths = {0, 5, 11}
  Values <- MCValues
  Formats <- MCFormats
  Fills <- MCFills
  OutWidths = {8, 64}
  Tables = {}
PROPERTIES ReadsAsWritten
VIEW MCView
