SPECIFICATION FairSpec
CONSTANTS
  NDEBUG = TRUE
  Base <- MCBase
  Text <- SmallText
  Insns <- SmallInsns
  InsnLen <- SmallInsnLen
  Succ <- SmallSucc
  Exits <- SmallExits
  Entry <- MCEntry
  Lines <- SmallLines
  LineAddr <- SmallLineAddr
  l1 = l1
  l2 = l2
  l3 = l3
  l4 = l4
PROPERTIES
  KeepsResponding
CHECK_DEADLOCK FALSE
