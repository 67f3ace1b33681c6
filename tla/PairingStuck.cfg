SPECIFICATION Spec
CONSTANTS
  MaxRetry = 3
  MaxFaults = 3
INVARIANT
  ReportedIsUsable
