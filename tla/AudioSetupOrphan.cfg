SPECIFICATION SetupSpec
CHECK_DEADLOCK FALSE
INVARIANT
  EverythingReleased
