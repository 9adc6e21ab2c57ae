CONSTANTS
  Flow = {0, 1, 2, 4, 6, 8}
  SIMD_ROW_NUM = 2
  SLOTS = 3
  GRR_ALL = TRUE
  MIN_TIME = 8
  TIME_MOD = 32
  MaxPackets = 7
  EmptySketch <- NoCounts
  IncXX <- CountOf
  KeyValue = {0, 7}
  flowid = 7
SPECIFICATION FSpec
INVARIANTS
  Conservation
  ZeroFlowNeverGains
  SearchesAgree
PROPERTIES
  LRUVictim
  LRUImplementsDirect
