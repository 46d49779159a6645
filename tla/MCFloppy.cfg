SPECIFICATION Spec
CONSTANTS
  SECTORS_PER_TRACK = 5
  Sectors = 11
  MaxPongs = 2
  EarlyPongs = 1
  DMA_HEEDS_MODE = FALSE
INVARIANTS
  TypeOK
  SectorDelivered
  MotorOn
  SenseGetsStatus
PROPERTIES
  InitEnds
  PongEnds
