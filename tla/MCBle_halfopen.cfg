SPECIFICATION FairSpec
CONSTANTS
  MaxFrames = 1
  Oversize = {}
  FlapMin = 0
  FlapMax = 2
  SelfHeal = TRUE
  WritesFail = FALSE
PROPERTIES
  SilentLinkEnds
\* close() stops the worker for good.
CHECK_DEADLOCK FALSE
