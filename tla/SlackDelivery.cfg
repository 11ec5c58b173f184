\* Two outages of one device, a review beside the first, two pods.
SPECIFICATION Spec
CONSTANTS
  Device = {d1}
  Slots = {s1}
  MaxIncidents = 2
  Dispatchers = {p1, p2}
  NoOne = noone
  MaxAttempts = 2
SYMMETRY MCSymmetry
CONSTRAINT MCRemindersApart
INVARIANTS
  RecoveryFollowsOutage
PROPERTIES
  ChannelInOrder
  ImplementsOutages
\* All notices may have their results.
CHECK_DEADLOCK FALSE
