SPECIFICATION FairSpec
CONSTANTS
  MaxFrames = 3
  Oversize = {2}
  FlapMin = 2
  FlapMax = 2
  SelfHeal = TRUE
  WritesFail = TRUE
INVARIANTS
  TypeOK
  NoLostWakeup
PROPERTIES
  NeverOlder
  LatestArrives
  SilentLinkEnds
  CloseEnds
\* close() stops the worker for good.
CHECK_DEADLOCK FALSE
