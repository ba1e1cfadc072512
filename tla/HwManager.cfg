CONSTANTS
  None = None
  Fans = {f1}
  Zones = {z1}
  MaxSpeed = 1
  MaxAttempts = 2
  MaxChanges = 3
  MaxFaults = 1
SPECIFICATION FairSpec
INVARIANTS
  TypeOK
  PwmRestored
  Identified
  FansShown
PROPERTIES
  DetectionEnds
  MinEnforced
