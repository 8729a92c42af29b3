SPECIFICATION FairSpec
CONSTANTS
  n_producer = 1
  n_consumer = 1
  buf_size = 2
  NUM_PARTS = 4
  STRIP = 2
  MaxInflated = 3
  Networks = {{"whole"}, {"whole", "cut", "alien", "none", "nohandle", "toobig"}}
  Deflated = {1, 2}
  ForkMayFail = TRUE
INVARIANTS TypeOK SemConservation SlotExclusion RingOrder SpaceMeansEmpty NoneStranded WholeStripsInPlace AloneInCatpng AssembledParts
PROPERTIES ImplementsStream TerminatesUnlessStalled
CHECK_DEADLOCK FALSE
