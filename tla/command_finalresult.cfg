SPECIFICATION Spec
CONSTANTS
  h1 = h1
  h2 = h2
  w1 = w1
  w2 = w2
  Starter = h1
  Connectors = {}
  Waiters = {w1}
  Kinds <- MCKinds
  MaxEvents = 2
INVARIANTS
  WaitReturnsFinalResult
