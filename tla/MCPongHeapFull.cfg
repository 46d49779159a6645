SPECIFICATION Spec
CONSTANTS
  HEAP_BEGIN = 4096
  HEAP_END = 36864
  MaxBlocks = 10
  MaxPongs = 8
  MemoryMaps <- MCMemoryMaps
INVARIANT
  FreeBlocksFit
