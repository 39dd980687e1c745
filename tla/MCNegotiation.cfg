SPECIFICATION FairSpec
CONSTANTS
  Reqs = {r1, r2}
  MaxChanges = 1
  MaxRestarts = 1
  MaxCands = 1
  MaxFaults = 1
  MaxEvents = 2
  Drops = TRUE
INVARIANTS
  NegotiationInv
  KeptPromises
PROPERTIES
  NegotiationSettles
