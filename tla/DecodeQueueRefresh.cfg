\* A frame slips into the queue after a refresh has emptied it.
SPECIFICATION Spec
CONSTANTS
  QueueBound = 2
  DropLimit = 5
  MaxWire = 1
  MaxFaults = 2
INVARIANTS RefreshResumesWithIdr
