SPECIFICATION SessionsSpec
CONSTANTS
  MaxScan = 1
  MaxRun = 2
  MaxLive = 1
  Kind <- MCKind
  Version = {v1, v2}
  Unsupported = {v2}
  MaxPlayGen = 6
  MaxTune = 1
  MaxQueue = 2
  None = None
INVARIANTS
  LiveFirst
  
  PlaysOnlyAllowed
  PlaysOnlyKeyed
  
CHECK_DEADLOCK FALSE
