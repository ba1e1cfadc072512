CONSTANTS
  Drive = {n1, n2, s1}
  SataDrive = {s1}
  NoDrive = NoDrive
  NumChannels = 2
  HaveDriveI2C = TRUE
  Protos = {"V0", "V1"}
  FaultsAllowed = FALSE
  DrivesFail = FALSE
  ReconfigAllowed = FALSE
  Ops = {"find"}
SPECIFICATION FairSpec
INVARIANTS
  TypeOK
  StaleIsNoticed
PROPERTIES
  FindsInstalled
  FindsOnRetry
  TableSettles
