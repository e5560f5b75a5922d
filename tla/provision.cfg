SPECIFICATION FairSpec
CONSTANTS
  Faults <- MCFaults
  Timeouts <- MCTimeouts
  Second = 4
  MaxDuration = 31
  DefaultConnect = 20
INVARIANTS
  TypeOK
  HandleMeansReady
  OrphansAreExplained
  FaultlessCleanup
  LifetimeAsAsked
  NeverStuck
PROPERTIES
  CreateReturns
