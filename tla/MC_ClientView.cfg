CONSTANTS
  Id = {0, 1}
  DEFAULT_FUEL = 1
  MaxResource = 1
  REAL_PLAYER_NUM = 2
  MaxRequests = 1
  MaxActs = 5
  MaxResults = 2
SPECIFICATION LiveSpec
INVARIANTS
  ConnectsOnce
  LoginPlaces
  KnowsNewcomers
  CaughtUp
PROPERTY LoginCompletes
CHECK_DEADLOCK FALSE
