SPECIFICATION SSpec
CONSTANTS
  UP_RATE = 10000
  DOWN_RATE = 200
  NEAR = 100
  Capacity = {0, 150, 199, 200, 201, 300, 1425, 2649, 2650, 5099, 5100, 5101, 7550, 9899, 9999, 10000, 20000}
  NB_BURST = 4
  UINT = 256
  Traces = {3, 4, 5, 7}
  PktTimes = {1, 2, 3}
  MaxRestarts = 2
INVARIANTS
  InOrder
  StopsWithinBurst
  SettlesLossless
  NearMaximum
PROPERTIES
  Completes
  Settles
CHECK_DEADLOCK FALSE
