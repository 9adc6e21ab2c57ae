SPECIFICATION QSpec
CONSTANTS
  Key = {1, 2, 3, 4}
  SIZE = 3
  THRESHOLD = 1
  REPORTER_SIZE = 2
  PQ_BURST = 2
  PQ_PKTS = 6
  PQ_RESETS = 0
CHECK_DEADLOCK FALSE
INVARIANTS
  AssertCorrectness
