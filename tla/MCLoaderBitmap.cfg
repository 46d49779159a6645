SPECIFICATION Spec
CONSTANTS
  UMEM_BEGIN = 4194304
  UMEM_SIZE = 33554432
  MaxPongs = 257
  MaxErrors = 0
INVARIANT
  BitmapWithinArray
