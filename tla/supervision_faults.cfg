SPECIFICATION Spec

CONSTANTS
  MaxMsg = 1
  LifeLimit = 2
  Faults = {"light", "temp"}
  MaxSignals = 0

INVARIANTS
  TypeOK
  LockDiscipline
  CanceledForCause
  StoppedForCause
  LedsTell
