SPECIFICATION Spec
CONSTANTS
  NLines = 4
  Faults = {"save", "convert", "tear"}
INVARIANTS OrderUnlessHopPaused DrivesItsLine
PROPERTIES MissionEnds
