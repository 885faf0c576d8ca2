SPECIFICATION FairSpec

CONSTANTS
  MaxMsg = 1
  LifeLimit = 1
  Faults = {"light"}
  MaxSignals = 0

PROPERTIES
  ImplementsLock
  LightFailureHandled
