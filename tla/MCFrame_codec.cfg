SPECIFICATION CodecSpec
CONSTANTS
  MAX_SEGS = 16
  MAX_TITLE = 24
  Rings <- MCRings
  MaxDamaged = 24
  NoFrame = NoFrame
  Raised = Raised
INVARIANTS
  LengthHonest
  RoundTrip
  TitlesWhole
  DamageDetected
\* A behaviour follows one snapshot to the device.
CHECK_DEADLOCK FALSE
