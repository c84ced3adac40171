CONSTANTS
  Id = {0, 1}
  DEFAULT_OXYGEN = 2
  DEFAULT_FUEL = 2
  DEFAULT_HP = 1
  OXYGEN_CONSUMPTION = 1
  HEALTH_REDUCED_BY_OXYGEN_INSUFFICIENT = 1
  FUEL_FOR_GOFORWARD = 2
  DEBRIS_TO_RESOURCE_AMOUNT = 1
  COOLDOWN_GLOBAL = 1
  COOLDOWN_STUN = 2
  SKILL_COOLDOWN_TABLE <- MC_SkillCooldown
  TimeStep = {0, 1}
  MaxResource = 1
SPECIFICATION LiveSpec
PROPERTIES
  ImplementsRoster
  StunHolds
  CooldownHolds
  LivesEnd
