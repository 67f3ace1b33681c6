\* Two waiting units instead of four; two frames lost, corrupt, refused or too many.
\* DropLimit is so high that the limit does not hide a request that is missing.
SPECIFICATION Spec
CONSTANTS
  QueueBound = 2
  DropLimit = 5
  MaxWire = 1
  MaxFaults = 2
INVARIANTS GapIsRequested OverflowResumesWithIdr
PROPERTIES StreamHeals
