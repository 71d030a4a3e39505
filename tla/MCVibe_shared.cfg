SPECIFICATION Spec
CONSTANTS
  r1 = r1
  r2 = r2
  k1 = k1
  k2 = k2
  Sids = {k1}
  MaxSegs = 1
  SessionTtl = 1
  CtaTtlDefault = 2
  RunningLiveTtl = 2
  HostPids = {r1, r2}
  ForeignPids = {}
  NoPid = NoPid
  Cwds = {}
  NoCwd = NoCwd
  Nothing = Nothing
  KeyOf <- SharedKey
  Unified = {r1, r2}
  HasLeases = TRUE
  HitlTimeout = 1
  MaxBirths = 1
INVARIANTS
  TypeOK
  TimersAreCalls
PROPERTIES
  InferenceNeverRegisters
