CONSTANTS
  Capacity = 5
  b1 = b1
  b2 = b2
  Byte <- MC_Byte
  Junk = Junk
  MaxPacketSize = 3
  MaxSends = 2
SPECIFICATION SendSpec
SYMMETRY MC_Symmetry
INVARIANTS
  ExactUnlessOverlapped
  NothingLost
CHECK_DEADLOCK FALSE
