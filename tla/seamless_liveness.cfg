\* Does everything that starts end?  Fair threads, one fault, one user action.
SPECIFICATION FairSpec
CONSTANTS
  Objects = {1, 2}
  Announced <- MCAnnounced
  UINT = 4
  MaxLen = 2
  MaxInFlight = 2
  MaxRuns = 2
  MaxFaults = 1
  MaxEdits = 0
  MaxClicks = 1
  MaxCrashes = 0
  MaxTrouble = 2
CHECK_DEADLOCK FALSE
INVARIANTS RetriesAreBounded
PROPERTIES RunEnds SessionEnds
