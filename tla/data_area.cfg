CONSTANTS
  NumCores      = 2
  b1            = b1
  b2            = b2
  NoBuffer      = NoBuffer
  Modulus       = 256
  MaxGlobalAddr = 100
  Buffers      <- MCBuffers
  Kernels      <- MCKernels
SPECIFICATION Spec
CHECK_DEADLOCK FALSE
INVARIANTS TypeOK RegionsDisjoint CoresApart CopyBackAgrees ImageMatches CopyBackExact
