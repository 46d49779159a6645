SPECIFICATION Spec
CONSTANTS
  UMEM_BEGIN = 4194304
  UMEM_SIZE = 36864
  MaxPongs = 2
  MaxErrors = 0
INVARIANT
  PatchesOwnCode
