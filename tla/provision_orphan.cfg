SPECIFICATION Spec
CONSTANTS
  Faults <- MCFaults
  Timeouts <- MCTimeouts
  Second = 4
  MaxDuration = 31
  DefaultConnect = 20
INVARIANTS
  InstallFailureDestroys
