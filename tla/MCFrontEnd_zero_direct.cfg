CONSTANTS
  Flow = {0, 1, 2, 3}
  SIMD_ROW_NUM = 2
  SLOTS = 2
  GRR_ALL = TRUE
  MIN_TIME = 4
  TIME_MOD = 16
  MaxPackets = 4
  EmptySketch <- NoCounts
  IncXX <- CountOf
  KeyValue = {0, 7}
  flowid = 7
SPECIFICATION FSpec
PROPERTY ImplementsDirect
