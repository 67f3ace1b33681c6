SPECIFICATION FairSpec
CONSTANTS
  MaxPacket = 3
  Timely = FALSE
PROPERTIES ShutdownCompletes
CHECK_DEADLOCK FALSE
