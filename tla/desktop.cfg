SPECIFICATION DesktopSpec
CONSTANTS
  Peer = {"p", "q"}
  Situations <- SmallSituations
CHECK_DEADLOCK FALSE
INVARIANTS
  DesktopTypeOK
  RestrictedAreRefused
  OneClientPerShare
  JobReachesShown
  SharesHaveDevices
