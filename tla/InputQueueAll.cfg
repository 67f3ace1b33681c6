\* Two waiting packets, one button, two stick positions, one key with two codes.
\* FollowLoss: the properties are about the time before a packet is lost;
\* CHECK_DEADLOCK: there the behaviours end.
SPECIFICATION Spec
CONSTANTS
  Cells = {c1, c2, c3, c4}
  Buttons = {"cross"}
  Axes = {0, 1}
  Codes = {"a", "A", "unmapped"}
  QueueMax = 2
  FollowLoss = FALSE
INVARIANTS BatchIsQueued HostWillSeePad HostHoldsKnownKeys
SYMMETRY CellSymmetry
CHECK_DEADLOCK FALSE
