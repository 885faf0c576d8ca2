SPECIFICATION Spec

CONSTANTS
  MaxMsg = 1
  Commands = {0, 1}
  Lumens = {0, 1, 5}
  Faults = {"temp", "light"}

INVARIANTS
  TypeOK
  OneLabel
  AnswersReadBack

PROPERTIES
  ChangesAlerted
  ImplementsLightChannel
