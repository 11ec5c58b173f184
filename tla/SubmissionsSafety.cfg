\* One submission of any kind, one requester, two reviewers at once.
\* No symmetry: one property is temporal.
SPECIFICATION Spec
CONSTANTS
  Submission = {s1}
  Content = {c1, c2}
  Owners = {o1}
  Reviewers = {r1, r2}
  Kinds = {"POSTER", "STORY", "EVENT_BANNER"}
  Periods <- MCPeriods
  StoryDays = 1
  MaxTime = 2
  MaxVersion = 4
VIEW MCView
INVARIANTS
  LiveAsApproved
  OneDecisionPerRevision
  StatusTellsTime
PROPERTIES
  PublishedIsFrozen
  StatusCatchesUp
  ImplementsPublication
\* The clock and the versions are bounded and every client may be idle.
CHECK_DEADLOCK FALSE
