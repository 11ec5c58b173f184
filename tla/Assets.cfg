\* One asset of either kind, two requests and two pods at work on it.  No
\* symmetry: VideoSettles is temporal.
SPECIFICATION Spec
CONSTANTS
  Asset = {a1}
  Calls = {c1, c2}
  Pods = {p1, p2}
  MaxAttempts = 3
  MaxFaults = 1
ACTION_CONSTRAINT MCInOrder
VIEW MCView
INVARIANTS
  ReadyIsPlayable
  SubmittedIsReady
PROPERTIES
  FinishedForever
  VideoSettles
\* An asset may end removed, with nothing left to do.
CHECK_DEADLOCK FALSE
