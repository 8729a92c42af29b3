SPECIFICATION FairSpec
CONSTANTS
  LENGTH = 24
  ChildMayDie = TRUE
INVARIANTS OneToken MessageWhole CleanEnd
PROPERTY Ends
