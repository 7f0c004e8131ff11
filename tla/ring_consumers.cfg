\* Two consumers: a length read without the lock is used for the next message.
SPECIFICATION Spec
CONSTANTS
  N = 8
  Messages <- Short
  Producers = {p1}
  Consumers = {c1, c2}
CHECK_DEADLOCK FALSE
PROPERTIES DeliversInOrder
