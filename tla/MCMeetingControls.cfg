SPECIFICATION ControlsSpec
CONSTANTS
  MaxStarts = 2
  MaxDrops = 1
  MaxTroubles = 3
  Budgets <- MCBudgets
  MinFrameRate = 5
  MaxScale = 12
  MaxUpdates = 3
  MaxHitches = 1
  MaxLinks = 2
  MaxSwitches = 2
  MaxRefusals = 2
  Remotes = {"a", "b"}
  Medias <- MCMedias
  MaxActs = 6
  Widths <- MCSizes
  Heights <- MCSizes
  MaxTiles = 4
  MinTileWidth = 14
  MinTileHeight = 7
  MaxTileWidth = 60
  Denominator = 108
INVARIANTS
  ControlsInv
  LeaseMatchesShare
  NoCaptureLeftOver
  ButtonIsTrue
PROPERTIES
  RequestsAnswered
  LearnsItsFloor
  LayoutSettles
CHECK_DEADLOCK FALSE
