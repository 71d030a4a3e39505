SPECIFICATION FairSpec
CONSTANTS
  Sids = {s1, s2}
  MaxSegs = 2
  SessionTtl = 1
  CtaTtlDefault = 1
  RunningLiveTtl = 1
  HostPids = {}
  ForeignPids = {}
  NoPid = NoPid
  Cwds = {}
  NoCwd = NoCwd
  Verbs <- TwoVerbs
  SweepPeriod = 1
  Retains = TRUE
  Lossy = TRUE
  MaxBirths = 2
PROPERTIES
  DroppedFramesHeal
