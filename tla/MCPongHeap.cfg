SPECIFICATION Spec
CONSTANTS
  HEAP_BEGIN = 4096
  HEAP_END = 36864
  MaxBlocks = 10
  MaxPongs = 7
  MemoryMaps <- MCMemoryMaps
INVARIANTS
  TypeOK
  FreeBlocksFit
  LiveIntact
  NothingLost
PROPERTIES
  RequestsMet
  ImplementsAllocator
