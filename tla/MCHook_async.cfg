SPECIFICATION Spec
CONSTANTS
  Sids = {claude, codex}
  MaxSegs = 1
  SessionTtl = 1
  CtaTtlDefault = 1
  RunningLiveTtl = 1
  HostPids = {claude}
  ForeignPids = {}
  NoPid = NoPid
  Cwds = {}
  NoCwd = NoCwd
  MaxHooks = 4
PROPERTIES
  ReportsKeepOrder
