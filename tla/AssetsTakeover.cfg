\* A slow pod and the one that takes over; nothing fails.
SPECIFICATION Spec
CONSTANTS
  Asset = {a1}
  Calls = {c1}
  Pods = {p1, p2}
  MaxAttempts = 2
  MaxFaults = 0
INVARIANTS TakenOverCanFinish
CHECK_DEADLOCK FALSE
