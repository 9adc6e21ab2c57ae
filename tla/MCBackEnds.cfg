CONSTANTS
  Flow = {1, 2, 3, 5}
  SIMD_ROW_NUM = 2
  SLOTS = 2
  GRR_ALL = TRUE
  MIN_TIME = 8
  TIME_MOD = 32
  MaxPackets = 8
  CMSize = 2
  RowBits = 4
  MRSize = 2
  Digit = 2
  ByteMod = 4
  FRSize = 4
  BFSize = 64
  SSSize = 4
  CMHash <- SmallCMHash
  FMHash <- SmallFMHash
  LCHash <- SmallLCHash
  MRHash <- SmallMRHash
  RSHash <- SmallRSHash
  FRHash <- ExactHash
  FRCollide <- CollidingHash
  UMSize = 8
  CAPACITY = 2
  FREQ_MOD = 64
  CSHash <- SmallCSHash
  Polar <- SmallPolar
  Level <- SmallLevel
SPECIFICATION Spec
INVARIANTS
  FlowsRegisteredOnce
  EvictedTrackedOnce
PROPERTIES
  HeapOrdered
  ImplementsPlainModules
  PacketsInSummary
  TopKComplete
