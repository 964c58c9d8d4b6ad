SPECIFICATION Spec
CONSTANTS
  NLines = 3
  Faults = {}
PROPERTY NoDoubleAdvance
