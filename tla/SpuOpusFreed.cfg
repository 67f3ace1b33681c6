SPECIFICATION Spec
CONSTANTS
  MaxPacket = 3
  Timely = FALSE
INVARIANTS NoWorkerOnFreedMemory
