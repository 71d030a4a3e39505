SPECIFICATION Spec
CONSTANTS
  s1 = s1
  s2 = s2
  Sessions = {s1, s2}
  DirKey = DirKey
  Setups <- AnySetup
  LockFirst = FALSE
PROPERTIES
  OnlyGoneDirsEnd
