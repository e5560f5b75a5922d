SPECIFICATION Spec
CONSTANTS
  h1 = h1
  h2 = h2
  w1 = w1
  w2 = w2
  Starter = h1
  Connectors = {h2}
  Waiters = {w1, w2}
  Kinds <- MCKinds
  MaxEvents = 2
SYMMETRY WaiterSymmetry
INVARIANTS
  TypeOK
  OutputIsWindow
  CallbacksFollowCapture
  SuccessIsComplete
PROPERTIES
  DoneIsFinal
  ImplementsContract
