SPECIFICATION FairSpec

CONSTANTS
  MaxMsg = 1
  LifeLimit = 1
  Faults = {}
  MaxSignals = 1

CHECK_DEADLOCK FALSE

PROPERTY
  ExitsOnSigint
