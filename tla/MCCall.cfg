SPECIFICATION FairSpec
CONSTANTS
  MaxReconnects = 2
  MaxIceRestarts = 1
  MaxFailures = 2
  MaxTroubles = 2
  MaxActs = 2
  MaxRetries = 1
INVARIANTS
  CallInv
  NothingLeaks
PROPERTIES
  NobodyIsStuck
