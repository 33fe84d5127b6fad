SPECIFICATION Spec
CONSTANTS
  kLineSize = 2
  kNumLines = 2
  NumTags = 2
  Values <- MCValues
  Used <- MCUsed
  CounterMod = 2
INVARIANTS TypeOK StatsCountAccesses LinesAreBacked CleanLinesMatch
PROPERTIES FlushWritesBack ImplementsFlatMemory
