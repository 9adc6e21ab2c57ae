CONSTANTS
  NPorts = 2
  NConfigs = 2
  MAX_RX_BURST = 4
  NIC_BURST = 3
  RX_DESC = 3
  Report = 2
  Sent <- SentTo
SPECIFICATION Spec
INVARIANTS AllCounted StaleIsOneBatch EpochOrder
PROPERTIES TickServed Drained
