SPECIFICATION TwinSpec
CONSTANTS
  PaddingNames <- MCPadding
  Order = "BigEndian"
  BufSize = 2
  SizeMod = 128
  Widths = {0, 7, 115}
  Values <- MCValues
  Formats <- MCFormats
  Fills = {}
  OutWidths = {64}
  Tables = {}
INVARIANTS WritersAgree CursorsInBounds
PROPERTIES ReadersAgree CompileTimeRoundTrip
VIEW MCView
CONSTRAINT MCReadable
