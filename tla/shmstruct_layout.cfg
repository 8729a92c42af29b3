SPECIFICATION Spec
CONSTANTS
  STRUCT = 4
  INT = 4
  STACK_SIZE = 3
  MAPPINGS = {1024}
  LOCAL_START = 65280
  SHM_START = 43981
INVARIANT ShmInBlock
