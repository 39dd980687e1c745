SPECIFICATION FeaturesSpec
CONSTANTS
  Ids = {a, b}
  Limits = {1, 2}
  DepartureChoices <- AllButOne
  Members = {a, b}
  Admins = {x}
  None = None
  Participants = {p, q}
  Publishers = {p}
  Setups <- SmallSetups
  MaxPubs = 2
  MaxSenders = 5
SYMMETRY Symmetry
INVARIANTS
  FeaturesInv
  NoHiddenHand
  NoPhantomOwner
  HolderIsForwarded
  RouterIsExact
  MediaFlows
