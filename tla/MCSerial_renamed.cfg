SPECIFICATION FairSerialSpec
CONSTANTS
  Brokers = {b1}
  NoSocket = NoSocket
  StartsOverlap = FALSE
  StopsOverlap = FALSE
  Ports = {usb1, usb2}
  NoPort = NoPort
  Configured = NoPort
  Nobody = Nobody
PROPERTIES
  DeviceFoundAgain
