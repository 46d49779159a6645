SPECIFICATION Spec
CONSTANTS
  HEAP_BEGIN = 4096
  HEAP_END = 4360
  MaxBlocks = 10
  Slots = {1, 2, 3}
  KernelTask = 0
  SIZE = 16
  TOO_BIG = 100
PROPERTY
  MergesConsecutive
