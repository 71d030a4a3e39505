SPECIFICATION FairSpec
CONSTANTS
  Sids = {s1}
  MaxSegs = 1
  SessionTtl = 1
  CtaTtlDefault = 1
  RunningLiveTtl = 1
  HostPids = {}
  ForeignPids = {}
  NoPid = NoPid
  Cwds = {}
  NoCwd = NoCwd
  Verbs <- TwoVerbs
  SweepPeriod = 1
  Retains = FALSE
  Lossy = TRUE
  MaxBirths = 1
PROPERTIES
  DroppedFramesHeal
