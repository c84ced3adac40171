CONSTANTS
  ClientCapacity = 4
  ServerCapacity = 6
  Byte = {0, 2, 3}
  Junk = Junk
  Packet <- MC_Packet
  NoPacket = NoPacket
  MaxWire = 2
  MaxPosted = 2
SPECIFICATION LiveSpec
INVARIANTS
  NoStrandedRequest
  WindowOpen
PROPERTIES
  ImplementsPacketChannel
  RequestsDispatched
CHECK_DEADLOCK FALSE
