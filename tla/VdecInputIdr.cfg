SPECIFICATION Spec
CONSTANTS
  VDEC_BUF_COUNT = 4
  HwDepth = 4
  Atomic = FALSE
  Errors = FALSE
PROPERTIES UnprocessedUnitRequestsIdr
