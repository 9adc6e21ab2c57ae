SPECIFICATION Spec
CONSTANTS
  Pair <- Pairs
  SIMD_ROW_NUM = 2
  SLOTS = 2
  MaxPackets = 4
  MaxResets = 2
  Xor32 <- WordXor
  RevHash <- SmallRevHash
  CMHash <- SmallCMHash
  Bit <- SmallBit
INVARIANTS
  PairsKept
  ForeignOnce
  FirstEpochExact
CHECK_DEADLOCK FALSE
