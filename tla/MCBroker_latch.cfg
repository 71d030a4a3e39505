SPECIFICATION Spec
CONSTANTS
  Sids = {s1, s2}
  MaxSegs = 2
  SessionTtl = 1
  CtaTtlDefault = 2
  RunningLiveTtl = 3
  HostPids = {p1}
  ForeignPids = {f1}
  NoPid = NoPid
  Cwds = {}
  NoCwd = NoCwd
  Verbs <- FewVerbs
  SweepPeriod = 1
  Retains = FALSE
  Lossy = FALSE
  MaxBirths = 2
INVARIANT OnlySeenPidsQualify
