\* An IDR frame that ends the wait after an overflow and is then found corrupt.
SPECIFICATION Spec
CONSTANTS
  QueueBound = 1
  DropLimit = 5
  MaxWire = 1
  MaxFaults = 2
INVARIANTS OverflowEndsWithIdr
