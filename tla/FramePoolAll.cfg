\* The buffer count of the code; enough pictures to fill the ring twice; a tick
\* is a third of the sleep, and the longest draw takes two of the three.
SPECIFICATION FairSpec
CONSTANTS
  VDEC_FRAME_COUNT = 6
  MaxPicture = 9
  SleepTicks = 3
  DrawTicks = 2
INVARIANTS TypeOK NoTearing SearchTerminates NoDrawAfterRelease
PROPERTIES RegisterSpec QueuedIsShown
