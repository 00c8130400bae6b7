SPECIFICATION SessionSpec
CONSTANTS
  Lines = {l1, l2}
  Rows = 3
  MaxInputs = 2
INVARIANTS
  SessionTypeOK
  StartsAtEntry
  OneImage
  NoStray
  OneMoment
PROPERTIES
  LaunchEnds
  ActedOn
CHECK_DEADLOCK FALSE
