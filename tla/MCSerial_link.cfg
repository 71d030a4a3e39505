SPECIFICATION FairSerialSpec
CONSTANTS
  Brokers = {b1, b2, b3}
  NoSocket = NoSocket
  StartsOverlap = FALSE
  StopsOverlap = FALSE
  Ports = {usb1}
  NoPort = NoPort
  Configured = NoPort
  Nobody = Nobody
INVARIANTS
  SoleBroker
  ServingReachable
PROPERTIES
  ServesAgain
  ServerKeepsDevice
  DeviceFollowsServer
