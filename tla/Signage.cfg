\* Two groups, one program, one device; two administrators with a request each.
SPECIFICATION Spec
CONSTANTS
  Groups = {g1, g2}
  Programs = {p1}
  BarPrograms = {p1}
  Devices = {d1}
  BlockIds = {b1, b2, b3, b4}
  Admins = {c1, c2}
  Targeted = {}
  None = None
  MaxRequests = 2
INVARIANTS
  ReferencesHold
PROPERTIES
  NoLostReplacement
  DeadExceptionsStayDead
\* When no request is left to make, nothing more happens.
CHECK_DEADLOCK FALSE
