SPECIFICATION FairSpec
CONSTANTS
  s1 = s1
  s2 = s2
  Sessions = {s1, s2}
  DirKey = DirKey
  Setups <- TwoSetups
  LockFirst = FALSE
INVARIANTS
  HookKeysOnly
  HistoryStaysDark
PROPERTIES
  EndMeansGone
  ClosedIsEnded
  OpenIsSeen
