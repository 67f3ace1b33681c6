SPECIFICATION ConfSpec
CONSTANTS
  MaxChanges = 2
  MaxFailures = 1
INVARIANT
  OverlapHarmless
