SPECIFICATION Spec
CONSTANTS
  d1 = d1
  d2 = d2
  d3 = d3
  c1 = c1
  c2 = c2
  p1 = p1
  q1 = q1
  NoCall = NoCall
  DestroyCalls = {d1, d2}
  ConnectCalls = {c1, c2}
  PauseCalls = {}
  QueryCalls = {}
SYMMETRY CallSymmetry
INVARIANTS
  TypeOK
  NilMeansGone
  NoStrandedWaiter
  NoBorrowedFailure
  RefusedAfterDestroy
  DestructionIsExclusive
  ConnectNilMeansInstalled
PROPERTIES
  ClosedIsFinal
