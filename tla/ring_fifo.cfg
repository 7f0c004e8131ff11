\* Two producers and one consumer on eight bytes.
SPECIFICATION Spec
CONSTANTS
  N = 8
  Messages <- ShortAndLong
  Producers = {p1, p2}
  Consumers = {c1}
CHECK_DEADLOCK FALSE
INVARIANTS TypeOK RingHoldsQueue
PROPERTIES DeliversInOrder
