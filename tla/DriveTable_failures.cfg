CONSTANTS
  Drive = {n1}
  SataDrive = {}
  NoDrive = NoDrive
  NumChannels = 2
  HaveDriveI2C = FALSE
  Protos = {"V1"}
  FaultsAllowed = FALSE
  DrivesFail = TRUE
  ReconfigAllowed = FALSE
  Ops = {}
SPECIFICATION Spec
PROPERTIES
  RefreshShowsFailures
