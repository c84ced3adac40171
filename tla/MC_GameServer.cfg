CONSTANTS
  s1 = s1
  s2 = s2
  k1 = k1
  k2 = k2
  seed1 = seed1
  seed2 = seed2
  Session <- MC_Sessions2
  NoSession = NoSession
  Sock <- MC_Socks2
  NoSock = NoSock
  PlayerNum = 2
  Seed <- MC_Seeds
  HandleReuse = FALSE
  SetSockOptMayFail = FALSE
  MaxInFlight = 2
  MaxSends = 1
SPECIFICATION Spec
SYMMETRY MC_Symmetry2
INVARIANTS
  SlotAgreement
  SlotOwnership
  ClientAgreement
  PeersKnown
  NoDanglingCompletion
  AssertionsHold
PROPERTY NoTakeover
CHECK_DEADLOCK FALSE
