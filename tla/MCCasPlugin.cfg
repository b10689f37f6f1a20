SPECIFICATION Spec
CONSTANTS
  Plugins = {p1, p2}
  Slots = {s1, s2, s3}
  Capacity = 2
  Groups = {"g"}
  Messages <- MCMessages
  Sections <- MCSections
  Ecms <- MCEcms
  Factory <- MCFactory
  Pids = {1, 2}
  MaxFaults = 1
  MaxCrashes = 1
INVARIANTS
  DurableState
  SlotKeysSound
PROPERTY NoRollback
SYMMETRY Symmetric
CHECK_DEADLOCK FALSE
