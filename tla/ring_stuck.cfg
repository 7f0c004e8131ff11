\* One producer and one consumer, as in the test, until the buffer is nearly full.
SPECIFICATION FairSpec
CONSTANTS
  N = 8
  Messages <- Short
  Producers = {p1}
  Consumers = {c1}
CHECK_DEADLOCK FALSE
PROPERTIES PushReturns
