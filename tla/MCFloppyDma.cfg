SPECIFICATION Spec
CONSTANTS
  SECTORS_PER_TRACK = 5
  Sectors = 2
  MaxPongs = 1
  EarlyPongs = 0
  DMA_HEEDS_MODE = TRUE
INVARIANT SectorCopied
