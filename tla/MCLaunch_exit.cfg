SPECIFICATION Spec
INVARIANTS
  ExitIsReported
CHECK_DEADLOCK FALSE
