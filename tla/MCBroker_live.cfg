SPECIFICATION FairSpec
CONSTANTS
  Sids = {s1}
  MaxSegs = 1
  SessionTtl = 1
  CtaTtlDefault = 2
  RunningLiveTtl = 2
  HostPids = {p1}
  ForeignPids = {}
  NoPid = NoPid
  Cwds = {}
  NoCwd = NoCwd
  Verbs <- LiveVerbs
  SweepPeriod = 1
  Retains = FALSE
  Lossy = TRUE
  MaxBirths = 2
PROPERTIES
  ActiveRingHeals
  IdleAgesOut
  NoGhosts
