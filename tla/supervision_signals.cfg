SPECIFICATION WeakFairSpec

CONSTANTS
  MaxMsg = 1
  LifeLimit = 1
  Faults = {"bus"}
  MaxSignals = 2

CHECK_DEADLOCK FALSE

INVARIANTS
  RelitAtMostOne
  ShutdownGoesOn

PROPERTIES
  
  ShutdownAdvances
  EndsOrWedges
