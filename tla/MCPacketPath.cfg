SPECIFICATION PathsSpec
CONSTANTS
  Keys <- MCKeys
  NoKey = NoKey
  WordCount = 2
  MaxSequence = 7
  Attempts = 2
  Readers = {r1}
  filter1 = filter1
  Capacity = 2
  DataSize = 2
  LastStartId = 2
  MaxHints = 1
  MaxCallFailures = 1
PROPERTIES
  IsAtomicRegister
  
  
  PathsProgress
CHECK_DEADLOCK FALSE
