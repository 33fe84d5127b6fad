SPECIFICATION Spec
CONSTANTS
  PaddingNames <- MCPadding
  SizeMod = 1024
  Sizes = {34}
  Requests <- MCExample
INVARIANTS ExampleCompletes
CHECK_DEADLOCK FALSE
