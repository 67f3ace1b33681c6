\* The SPU answers before the host gives up.
SPECIFICATION FairSpec
CONSTANTS
  MaxPacket = 12
  Timely = TRUE
PROPERTIES DecoderSpec ShutdownCompletes
