SPECIFICATION Spec
CONSTANTS
  n_producer = 1
  n_consumer = 1
  buf_size = 2
  NUM_PARTS = 2
  STRIP = 2
  MaxInflated = 2
  Networks = {{"whole", "cut"}}
  Deflated = {1, 2}
  ForkMayFail = FALSE
INVARIANTS StripIntegrity
CHECK_DEADLOCK FALSE
