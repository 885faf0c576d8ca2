SPECIFICATION HistorySpec

CONSTANTS
  MaxMsg = 1
  LifeLimit = 2
  Faults = {}
  MaxSignals = 0

INVARIANT
  ReportsConsecutiveSilence
