CONSTANTS
  Drive = {n1}
  SataDrive = {}
  NoDrive = NoDrive
  NumChannels = 2
  HaveDriveI2C = TRUE
  Protos = {"V1"}
  FaultsAllowed = TRUE
  DrivesFail = FALSE
  ReconfigAllowed = FALSE
  Ops = {}
SPECIFICATION Spec
PROPERTIES
  RefreshShowsTypes
