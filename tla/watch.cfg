SPECIFICATION FairSpec
CONSTANTS
  w1 = w1
  w2 = w2
  Types <- MCTypes
  Waiters = {w1, w2}
  MaxEvents = 3
INVARIANTS
  TypeOK
  EventsInOrder
  StopIsNoError
PROPERTIES
  ImplementsContract
  StopEndsWait
