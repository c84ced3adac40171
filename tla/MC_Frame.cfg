SPECIFICATION FrameSpec
CONSTANTS
  EffectType <- const_EffectType
  PARTICLE_EFFECT_BUFFER = 2
  NUMBER_OF_PARTICLES = 2
  NUMBER_OF_DS_PARTICLES = 4
  LIFETIME = 1
  DS_LIFETIME = 1
  m_VBSize = 6
  m_VBBatchSize = 3
  Key <- const_Key
  MaxDelta = 1
  MaxEffects = 3
INVARIANT CardDrawsWhatWasWritten
PROPERTY FrameDrawsTheLiving
PROPERTY OneRequestPerPress
CHECK_DEADLOCK FALSE
