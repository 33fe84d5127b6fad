SPECIFICATION Spec
CONSTANTS
  PaddingNames <- MCPadding
  Order = "BigEndian"
  BufSize = 2
  SizeMod = 128
  Widths = {0, 6, 65, 122}
  Values <- MCValues
  Formats <- MCFormats
  Fills <- MCFills
INVARIANTS TypeOK InBounds TailClear FieldsPersist SerializeFollowsLayout BytesWrittenCovers
PROPERTIES PrefixStable SerializeNeverOverruns ImplementsTape
