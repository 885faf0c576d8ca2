SPECIFICATION Spec

CONSTANTS
  MaxMsg = 2
  Commands = {0}
  Lumens = {0, 5}
  Faults = {}

PROPERTY
  ChangesLogged
