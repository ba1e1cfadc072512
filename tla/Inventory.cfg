CONSTANTS
  None = None
  Ports = {pe2}
  Raduni = pe2
  MaxClaims = 3
  MaxScans = 2
  Bytes <- MCBytes
  Product = "S320"
  Zones = {"Chassis1", "CPU"}
  Cpus = {0, 1}
  FanOptions <- MCFanOptions
SPECIFICATION InventorySpec
INVARIANTS
  TypeOK
  RefusedForCause
  OrderFree
  FanTypeOK
PROPERTIES
  SettingsFollowScan
  FansFollowScan
CHECK_DEADLOCK FALSE
