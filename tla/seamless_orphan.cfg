\* What a crash of the receiving application leaves behind.
SPECIFICATION Spec
CONSTANTS
  Objects = {1, 2}
  Announced <- MCAnnounced
  UINT = 4
  MaxLen = 2
  MaxInFlight = 2
  MaxRuns = 1
  MaxFaults = 0
  MaxEdits = 0
  MaxClicks = 0
  MaxCrashes = 1
  MaxTrouble = 1
CHECK_DEADLOCK FALSE
INVARIANTS RestIsResumable
