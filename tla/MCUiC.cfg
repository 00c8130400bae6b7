SPECIFICATION PartsSpec
CONSTANTS
  Word = 2
  Page = 4
  Capacity = 7
  Sizes = {0, 1, 3}
  MaxScratch = 2
  MaxBlocks = 3
  Boxes = {b1, b2, b3, b4}
  NoBox = NoBox
INVARIANTS
  TypeOK
  NoOverlap
  ScratchKeeps
  FailsWithCause
  CallsInOrder
PROPERTIES
  InsertionsSplice
  EscapeEnds
CHECK_DEADLOCK FALSE
