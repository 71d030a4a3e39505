SPECIFICATION Spec
CONSTANTS
  Sids = {s1, s2, s3}
  MaxSegs = 2
  SessionTtl = 1
  CtaTtlDefault = 2
  RunningLiveTtl = 2
  HostPids = {p1}
  ForeignPids = {}
  NoPid = NoPid
  Cwds = {d1}
  NoCwd = NoCwd
  Verbs <- SafetyVerbs
  SweepPeriod = 1
  Retains = FALSE
  Lossy = FALSE
  MaxBirths = 3
SYMMETRY Symmetry
INVARIANTS
  ArmedNeverCTA
  TypeOK
  TableOK
  PushedCurrent
  SilenceBounded
PROPERTIES
  HeldForTheHuman
  RingSpec
