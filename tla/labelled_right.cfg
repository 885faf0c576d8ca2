SPECIFICATION Spec

CONSTANTS
  MaxMsg = 2
  Commands = {0, 1}
  Lumens = {0, 5}
  Faults = {}

INVARIANT
  LabelledRight
