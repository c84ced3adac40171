CONSTANTS
  s1 = s1
  s2 = s2
  k1 = k1
  k2 = k2
  seed1 = seed1
  seed2 = seed2
  Session <- MC_Sessions2
  NoSession = NoSession
  Sock <- MC_Socks2
  NoSock = NoSock
  PlayerNum = 2
  Seed = {seed1}
  HandleReuse = FALSE
  SetSockOptMayFail = FALSE
  MaxInFlight = 1
  MaxSends = 1
SPECIFICATION LiveSpec
PROPERTY DisconnectedIsCollected
CHECK_DEADLOCK FALSE
