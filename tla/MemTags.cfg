SPECIFICATION TagsSpec
CONSTANTS
  Blocks <- MCBlocks
  Graphs <- MCGraphs
INVARIANTS
  DomSolved
  DomCorrect
  IdomOrdersDom
  PdomCorrect
  SameTagSameMemory
  CommonTagAtDominator
PROPERTIES
  SweepShrinks
  TagsTerminate
