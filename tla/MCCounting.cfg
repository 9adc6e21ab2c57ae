SPECIFICATION Spec
CONSTANTS
  Key = {1, 2, 3}
  Dst = {1, 2}
  FewKey = {1, 2}
  SIZE = 2
  ENTRIES = 1
  TRIES = 4
  THRESHOLD = 2
  REPORTER_SIZE = 2
  BURST = 2
  MAX_PKTS = 3
  MAX_RESETS = 2
  QKey = {1, 2, 3, 4}
  QSIZE = 3
  QTHRESHOLD = 1
  QREPORTER_SIZE = 2
  PQ_BURST = 2
  PQ_PKTS = 5
  PQ_RESETS = 1
  CKey = {1, 2, 3, 4}
  ChangeKey = {1, 2, 3}
  ROWSIZE = 2
  CAPACITY = 3
  HT_SIZE = 4
  DELTA = 1
  LOG_SIZE = 3
  HC_BURST = 2
  HC_PKTS = 5
  HC_RESETS = 2
  Port = {1, 2}
  SH_BURST = 2
  SH_PKTS = 3
  SH_RESETS = 2
CHECK_DEADLOCK FALSE
INVARIANTS
  PacketsInTable
  CountersExact
  ReportedOnce
  ElementsPerFlow
  FileExactUnlessRaced
  HeapIndex
  QueueNeverUnder
  QueueReportExact
  PositionsAgree
  TrackedNeverUnder
  ChangesFlagged
  EpochCounted
