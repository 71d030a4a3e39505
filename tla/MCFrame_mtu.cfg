SPECIFICATION CodecSpec
CONSTANTS
  MAX_SEGS = 16
  MAX_TITLE = 24
  Rings <- MCRings
  MaxDamaged = 24
  NoFrame = NoFrame
  Raised = Raised
INVARIANTS
  FitsSmallestMtu
\* A behaviour follows one snapshot to the device.
CHECK_DEADLOCK FALSE
