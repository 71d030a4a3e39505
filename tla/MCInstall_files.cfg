SPECIFICATION Spec
CONSTANTS
  HookEvents = {e1, e2}
  AllowRules <- MCAllowRules
  Malformed = Malformed
  Absent = Absent
  Blank = Blank
  Invalid = Invalid
  Originals <- MCOriginals
  LineKinds <- MCLineKinds
  MaxEdits = 1
  Racing = FALSE
  MaxLines = 3
INVARIANTS
  UsersKept
  RerunIsNoop
PROPERTIES
  BackupFirst
