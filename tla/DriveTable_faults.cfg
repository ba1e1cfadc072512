CONSTANTS
  Drive = {n1}
  SataDrive = {}
  NoDrive = NoDrive
  NumChannels = 2
  HaveDriveI2C = TRUE
  Protos = {"V0", "V1"}
  FaultsAllowed = TRUE
  DrivesFail = TRUE
  ReconfigAllowed = TRUE
  Ops = {"on", "off", "get"}
SPECIFICATION Spec
PROPERTIES
  LedOfTheDrive
