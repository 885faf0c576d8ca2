SPECIFICATION RestartSpec

CONSTANTS
  MaxMsg = 1
  LifeLimit = 1
  Faults = {"temp", "bus"}
  MaxSignals = 0
  MaxStarts = 1

CHECK_DEADLOCK FALSE

INVARIANT
  CauseOrLeftover
