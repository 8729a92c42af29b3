SPECIFICATION FairSpec
CONSTANTS
  STRUCT = 4
  INT = 4
  STACK_SIZE = 12
  MAPPINGS = {70, 1024}
  LOCAL_START = 65280
  SHM_START = 43981
INVARIANTS ParentGetsAllInReverse FaultMeansNoChild TornPushPopsOneMore
PROPERTIES HeapIsStack ShmIsStack PopsAfterPushes Terminates
