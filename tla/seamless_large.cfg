\* "Share large files"
SPECIFICATION Spec
CONSTANTS
  Objects = {1}
  Announced <- LargeAnnounced
  UINT = 2
  MaxLen = 3
  MaxInFlight = 1
  MaxRuns = 1
  MaxFaults = 0
  MaxEdits = 0
  MaxClicks = 0
  MaxCrashes = 0
  MaxTrouble = 0
CHECK_DEADLOCK FALSE
INVARIANTS LargeFileArrives
