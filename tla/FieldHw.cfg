SPECIFICATION Spec
CONSTANTS
  NLines = 3
  Faults = {"save", "convert", "planter", "tear"}
INVARIANTS TypeOK NoSwathSkipped TurnsClear NotWorkedTwice
PROPERTIES ProgressAdvances ImplementsOrder MissionEnds
