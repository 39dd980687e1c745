SPECIFICATION MediaSpec
CONSTANTS
  MaxChanges = 2
  MaxDrops = 1
  MaxActs = 1
  Simulcast = TRUE
  Roles = {"screen", "low", "high", "audio"}
  MaxTracks = 2
  MaxRemoteActs = 4
INVARIANTS
  MediaInv
  ReceivedIsShown
PROPERTIES
  PausedForCause
  Recovers
CHECK_DEADLOCK FALSE
