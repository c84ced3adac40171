CONSTANTS
  ClientCapacity = 5
  Byte = {0, 1, 2, 3}
  Junk = Junk
  Packet <- MC_Packet
  NoPacket = NoPacket
  MaxWire = 6
SPECIFICATION ResultSpec
PROPERTIES
  ResultsImplementChannel
  LossOnlyWhenBehind
CHECK_DEADLOCK FALSE
