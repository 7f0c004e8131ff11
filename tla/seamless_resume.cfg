\* A file changes its size between two attempts and the notice of it is lost.
SPECIFICATION Spec
CONSTANTS
  Objects = {1}
  Announced <- MCAnnounced
  UINT = 4
  MaxLen = 3
  MaxInFlight = 1
  MaxRuns = 2
  MaxFaults = 2
  MaxEdits = 1
  MaxClicks = 2
  MaxCrashes = 0
  MaxTrouble = 5
CHECK_DEADLOCK FALSE
INVARIANTS ResumeIsConsistent
