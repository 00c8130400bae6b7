SPECIFICATION Spec
CONSTANTS
  NDEBUG = FALSE
  Base <- MCBase
  Text <- MCText
  Insns <- MCInsns
  InsnLen <- MCInsnLen
  Succ <- MCSucc
  Exits <- MCExits
  Entry <- MCEntry
  Lines <- MCLines
  LineAddr <- MCLineAddr
  l1 = l1
  l2 = l2
  l3 = l3
  l4 = l4
INVARIANTS
  RemovedMeansAbsent
CHECK_DEADLOCK FALSE
