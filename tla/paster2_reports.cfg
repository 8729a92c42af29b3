SPECIFICATION Spec
CONSTANTS
  n_producer = 1
  n_consumer = 1
  buf_size = 2
  NUM_PARTS = 2
  STRIP = 1
  MaxInflated = 2
  Networks = {{"whole"}}
  Deflated = {1, 2}
  ForkMayFail = FALSE
INVARIANTS ReportsExits
CHECK_DEADLOCK FALSE
