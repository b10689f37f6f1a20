SPECIFICATION ControlSpec
CONSTANTS
  System = {b25}
  EmmSystem = {b25}
  EsPid = {"p1", "p2"}
  Bridge = {m1, m2}
  b25 = b25
  b1 = b1
  Metadata <- MCMetadata
  MaxCasGen = 2
  MaxEvents = 2
  Initial = {pat}
  Dynamic = {p1}
  MaxScanGen = 3
  MaxCand = 2
  MaxLoss = 2
  None = None
INVARIANTS
  ReadyMeansWhole
  CasResourcesOwned
  ScanControllerSound
  NothingAfterLoss
CHECK_DEADLOCK FALSE
