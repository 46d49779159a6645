SPECIFICATION TaskSpec
CONSTANTS
  UMEM_BEGIN = 4194304
  UMEM_SIZE = 36864
  MaxPongs = 3
  MaxErrors = 3
  Pcbs = {p1, p2}
  KERNEL_TASK = kernel_task
INVARIANTS
  FramesExclusive
  SectorInPlace
  LoadedBeforeRun
  WritesOwnFrames
  TaskTypeOK
  RunsAsCurrent
  NoDanglingPcb
  NoWildReturn
  PongResumed
PROPERTIES
  PongEnds
