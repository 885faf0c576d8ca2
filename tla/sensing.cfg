SPECIFICATION SensingSpec

CONSTANTS
  Garbage = {0, 400, 65535}
  Temps = {0, 400, 4000}
  MaxOpen = 2
  Lights <- MCLights
  MaxCycle = 17100

CHECK_DEADLOCK FALSE

INVARIANTS
  TempTypeOK
  ReadingsAreHonest
  RemovalIsNoticed
  LeaksAreReported
  LightTypeOK
  LumenIsNotNegative
  CleanFailureIsDim
  RegistersKept
  AnswersEarned
  TypeOK
  TemperatureIsHeard
  EveryCommandIsAsked

PROPERTY
  NoFalseAlarm
