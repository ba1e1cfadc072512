CONSTANTS
  NumChunks = 3
  Protos = {"V0", "V1"}
  Updater = {u1, u2}
  Reflasher = reflash
  Package = {p1}
  Factory = stock
  VerifyTries = 2
  MaxPings = 2
  MaxFaults = 2
SPECIFICATION FairSpec
INVARIANTS
  TypeOK
  CompleteWhenRebooted
  LeftClean
PROPERTIES
  OkMeansInstalled
  FlashedMeansStock
  Installs
  ImplementsFlashing
