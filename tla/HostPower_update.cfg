CONSTANTS
  NumMCU = 2
  MaxQueue = 2
  UpdatesAllowed = TRUE
  ReconfigAllowed = FALSE
  SendMayFail = FALSE
SPECIFICATION Spec
INVARIANTS
  Informed
