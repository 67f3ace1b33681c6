\* Indivisible updates, no errors: the protocol as its comments describe it.
SPECIFICATION FairSpec
CONSTANTS
  VDEC_BUF_COUNT = 4
  HwDepth = 4
  Atomic = TRUE
  Errors = FALSE
INVARIANTS BufferOwnership PendingIsExact
