SPECIFICATION Spec
CONSTANTS
  MaxFrames = 1
  Oversize = {}
  FlapMin = 2
  FlapMax = 2
  SelfHeal = FALSE
  WritesFail = TRUE
INVARIANTS
  ShortSessionsAreFlaps
\* close() stops the worker for good.
CHECK_DEADLOCK FALSE
