SPECIFICATION Spec
CONSTANTS
  RING_BUFFER_SIZE = 16
  BlockFloats = 2
  SkipAbove = 8
  KeepFloats = 4
  PacketFloats = {2, 6}
  MaxFloats = 36
INVARIANTS BlocksAreStereo
