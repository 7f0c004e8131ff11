\* Any three troubles: a fault, an edit, a user action, a crash.
SPECIFICATION Spec
CONSTANTS
  Objects = {1, 2}
  Announced <- MCAnnounced
  UINT = 3
  MaxLen = 3
  MaxInFlight = 2
  MaxRuns = 2
  MaxFaults = 1
  MaxEdits = 1
  MaxClicks = 1
  MaxCrashes = 1
  MaxTrouble = 3
CHECK_DEADLOCK FALSE
INVARIANTS TypeOK DoneIsWhole Aligned UnchangedFileArrives JobDoneIsTrue RunningHasReceiver
PROPERTIES DoneIsFinal DeliverySpec
