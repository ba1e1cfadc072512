CONSTANTS
  p1 = p1  p2 = p2  p3 = p3
  u1 = u1  u2 = u2
  t1 = t1  t2 = t2
  NumMCU = 1
  Package = {p1, p2, p3}
  Updater = {u1, u2}
  Type = {t1, t2}
  BoardType <- OneBoard
  Images <- TwoFit
  Factory = Factory
  NoVersion = NoVersion
  NoType = NoType
  NoUpdater = NoUpdater
  NoObject = NoObject
  SignalsAllowed = TRUE
  RestartsAllowed = TRUE
SPECIFICATION Spec
SYMMETRY UpdaterSymmetry
INVARIANTS
  TypeOK
  WatchedIsActivating
  ActivatingIsServed
  CacheFresh
  CorrectImage
PROPERTIES
  HandsOff
  WatcherIsKept
  ActiveOnlyIfInstalled
  ImplementsSessionSafety
