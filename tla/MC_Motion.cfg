CONSTANTS
  REAL_PLAYER_NUM = 3
  PLAYER_POSITIONS <- MC_Positions
  CB_LENGTH = 2
  SKILL_RANGE = 3
  MAX_PLAYER_SPEED = 1
  ACCELERATION_WEIGHT = 1
  Space = 3
  MaxThrust = 1
  Acting = {0, 1}
  Mortal = {1}
  Watched = 1
SPECIFICATION ViewSpec
INVARIANTS
  ImpactsConserve
  ImpactsResolved
  CopyFollows
