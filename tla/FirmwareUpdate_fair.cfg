CONSTANTS
  p1 = p1  p2 = p2  p3 = p3
  u1 = u1  u2 = u2
  t1 = t1  t2 = t2
  NumMCU = 2
  Package = {p1}
  Updater = {u1}
  Type = {t1, t2}
  BoardType <- TwoBoards
  Images <- AllFit
  Factory = Factory
  NoVersion = NoVersion
  NoType = NoType
  NoUpdater = NoUpdater
  NoObject = NoObject
  SignalsAllowed = FALSE
  RestartsAllowed = FALSE
SPECIFICATION FairSpec
PROPERTIES
  NewVersionPublished
  ImplementsSession
