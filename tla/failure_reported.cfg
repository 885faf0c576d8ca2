SPECIFICATION SensingSpec

CONSTANTS
  Garbage = {0, 400, 65535}
  Temps = {0, 400, 4000}
  MaxOpen = 2
  Lights <- MCLights
  MaxCycle = 1

INVARIANT
  FailureReported
