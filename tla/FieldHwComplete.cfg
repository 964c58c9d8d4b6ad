SPECIFICATION Spec
CONSTANTS
  NLines = 3
  Faults = {"convert"}
INVARIANT CompletedMeansWorked
