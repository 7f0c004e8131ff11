SPECIFICATION RequestsSpec
CONSTANTS
  Sender = "s"
  Receivers = {"r1", "r2"}
  Requests = 1
  Plans <- OwnPlans
CHECK_DEADLOCK FALSE
INVARIANTS
  OffersArrive
