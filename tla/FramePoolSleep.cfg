SPECIFICATION Spec
CONSTANTS
  VDEC_FRAME_COUNT = 6
  MaxPicture = 3
  SleepTicks = 3
  DrawTicks = 3
INVARIANT NoDrawAfterRelease
