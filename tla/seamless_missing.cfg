\* A file that the sender can no longer open.
SPECIFICATION FairSpec
CONSTANTS
  Objects = {1, 2}
  Announced <- MCAnnounced
  UINT = 4
  MaxLen = 2
  MaxInFlight = 2
  MaxRuns = 1
  MaxFaults = 0
  MaxEdits = 1
  MaxClicks = 0
  MaxCrashes = 0
  MaxTrouble = 1
CHECK_DEADLOCK FALSE
PROPERTIES RunEnds
