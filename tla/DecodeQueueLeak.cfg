\* A unit offered after the shutdown of the queue.
SPECIFICATION Spec
CONSTANTS
  QueueBound = 2
  DropLimit = 5
  MaxWire = 1
  MaxFaults = 2
PROPERTIES UnitsAreFreed
