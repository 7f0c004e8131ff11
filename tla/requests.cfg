SPECIFICATION RequestsSpec
CONSTANTS
  Sender = "s"
  Receivers = {"r1", "r2"}
  Requests = 2
  Plans <- SmallPlans
CHECK_DEADLOCK FALSE
INVARIANTS
  RequestsTypeOK
  OutgoingHasAssignee
  ListsAreWhole
PROPERTIES
  SuccessIsShown
  RefusalReachesSender
