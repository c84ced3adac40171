CONSTANTS
  Capacity = 5
  b1 = b1
  b2 = b2
  Byte <- MC_Byte
  Junk = Junk
  MaxTransfer = 3
SPECIFICATION Spec
INVARIANTS
  TypeOK
  Layout
  OnlyWrittenBytes
PROPERTY ImplementsByteQueue
