SPECIFICATION Spec
CONSTANTS
  Brokers = {b1, b2, b3}
  NoSocket = NoSocket
  StartsOverlap = TRUE
  StopsOverlap = FALSE
INVARIANTS
  SoleBroker
