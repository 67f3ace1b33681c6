\* Behaviours that go on after a packet was discarded.
SPECIFICATION Spec
CONSTANTS
  Cells = {c1, c2, c3, c4}
  Buttons = {"cross"}
  Axes = {0, 1}
  Codes = {"unmapped"}
  QueueMax = 2
  FollowLoss = TRUE
INVARIANTS UpdatedIsEnqueued
