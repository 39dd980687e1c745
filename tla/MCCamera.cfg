SPECIFICATION Spec
CONSTANTS
  Simulcast = FALSE
  MaxCaptures = 5
  MaxCameraActs = 3
  MaxDrops = 1
  MaxFailures = 1
INVARIANTS
  CameraInv
  NothingSentUnseen
  OffStopsTheDevice
CHECK_DEADLOCK FALSE
