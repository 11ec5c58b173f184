\* Three requests with one key, which is taken over as often as need be; two days,
\* one submission a day.
SPECIFICATION Spec
CONSTANTS
  Requests = {r1, r2, r3}
  Keys = {k1}
  Notices = {n1}
  DailyLimit = 1
  DayLength = 1
  RetainedFor = 0
  PageLimit = 1
  None = None
  MaxTime = 1
  MaxFaults = 1
CONSTRAINT MCReading
VIEW MCView
SYMMETRY MCSymmetry
INVARIANTS
  KeysAreHonoured
  WithinLimit
  OneOpenPerNotice
  ListIsComplete
\* When every request has been answered nothing need happen.
CHECK_DEADLOCK FALSE
