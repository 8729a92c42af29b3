SPECIFICATION FairSpec
CONSTANTS
  Programs = {"cURL", "main_2proc", "shm_simple"}
  part = 20
  BUF_SIZE = 4
  Responses <- MCResponses
  Message <- MCMessage
INVARIANTS TypeOK OutputIsPrefix CompleteHandOver SegmentReclaimed
PROPERTIES IsMailbox EndsUnlessStalled
