SPECIFICATION Spec
CONSTANTS
  UMEM_BEGIN = 4194304
  UMEM_SIZE = 36864
  MaxPongs = 1
  MaxErrors = 1
INVARIANT
  ImageComplete
