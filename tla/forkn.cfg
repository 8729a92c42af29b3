SPECIFICATION FairSpec
CONSTANT NUM_CHILD = 5
INVARIANTS ReportsTrue AllAccountedFor
PROPERTIES NoZombieStays
