SPECIFICATION Spec

CONSTANTS
  MaxMsg = 1
  LifeLimit = 1
  Faults = {"temp"}
  MaxSignals = 0

INVARIANT
  LightSpared
