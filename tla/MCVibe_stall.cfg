SPECIFICATION FairSpec
CONSTANTS
  r1 = r1
  r2 = r2
  k1 = k1
  k2 = k2
  Sids = {k1}
  MaxSegs = 1
  SessionTtl = 1
  CtaTtlDefault = 2
  RunningLiveTtl = 2
  HostPids = {r1}
  ForeignPids = {}
  NoPid = NoPid
  Cwds = {}
  NoCwd = NoCwd
  Nothing = Nothing
  KeyOf <- OneKey
  Unified = {r1}
  HasLeases = TRUE
  HitlTimeout = 1
  MaxBirths = 2
PROPERTIES
  StalledToolShows
