\* One TV in up to two groups polls while an administrator makes two requests;
\* the submission is targeted at the first group.
SPECIFICATION PlaylistSpec
CONSTANTS
  Groups = {g1, g2}
  Programs = {p1}
  BarPrograms = {p1}
  Devices = {d1}
  BlockIds = {b1, b2, b3, b4}
  Admins = {c1}
  Targeted = {g1}
  None = None
  MaxRequests = 2
ACTION_CONSTRAINTS
  MCRequestsApart
  MCRowChangesFirst
  MCReadsInOrder
  MCFirstIsDisturbed
CONSTRAINT MCOneEnds
INVARIANTS
  CalmPollIsExact
\* A TV that was taken out of service polls no more.
CHECK_DEADLOCK FALSE
