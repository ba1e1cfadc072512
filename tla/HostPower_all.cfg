CONSTANTS
  NumMCU = 2
  MaxQueue = 3
  UpdatesAllowed = TRUE
  ReconfigAllowed = TRUE
  SendMayFail = TRUE
SPECIFICATION Spec
INVARIANTS
  TypeOK
  PowerSettled
PROPERTIES
  StaleIsCorrected
