\* Split updates and VDEC errors; VDEC holds one unit more than there are buffers.
SPECIFICATION FairSpec
CONSTANTS
  VDEC_BUF_COUNT = 4
  HwDepth = 5
  Atomic = FALSE
  Errors = TRUE
INVARIANTS ConsumedInOrder FullIsBusy
PROPERTIES SaturationRecovers
