SPECIFICATION EventSpec
CONSTANTS
  Workers = {w1, w2}
  MaxCursor = 4
INVARIANT
  StreamSound
PROPERTIES
  FinalEventDelivered
  ImplementsStore
CHECK_DEADLOCK FALSE
