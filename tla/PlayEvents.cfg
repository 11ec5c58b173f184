\* Two plays, one on the wall, over three days, of which one is kept; a run may
\* be overtaken by others.
SPECIFICATION PlaySpec
CONSTANTS
  Events = {e1, e2}
  Wall = {e2}
  DayLength = 1
  Retention = 1
  Overlap = 2
  Latency = 1
  BatchSize = 1
  Null = Null
  MaxTime = 2
  MaxRequests = 1
  MaxLate = 1
INVARIANTS
  CountedOnce
PROPERTIES
  NothingMissed
  NeverShrinks
\* At MaxTime nothing need happen any more.
CHECK_DEADLOCK FALSE
