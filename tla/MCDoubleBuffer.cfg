SPECIFICATION Spec
CONSTANTS
  Flow = {f1, f2, f3}
  SLOTS = 2
  Batch = 2
  MaxPackets = 4
  MaxResets = 3
INVARIANTS
  CleanUnlessCut
  ExactUnlessCut
  ReportUnlessCut
CHECK_DEADLOCK FALSE
SYMMETRY Symmetry
