SPECIFICATION Spec
CONSTANTS
  Brokers = {b1, b2, b3}
  NoSocket = NoSocket
  StartsOverlap = FALSE
  StopsOverlap = TRUE
INVARIANTS
  SoleBroker
