\* The host may give up at any poll. Once it waits for a worker that lost its QUIT
\* the bridge really has stopped.
SPECIFICATION Spec
CONSTANTS
  MaxPacket = 6
  Timely = FALSE
INVARIANTS QuietRequestIsAnswered WorkerMemoryAllocated
CHECK_DEADLOCK FALSE
