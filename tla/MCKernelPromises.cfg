SPECIFICATION Spec
CONSTANTS
  NVats = 2
  NPromises = 2
  MaxSends = 5
  MaxHostSends = 2
  MaxSyscalls = 3
  MaxResolutions = 2
  HostReads = TRUE
  PipeliningVats = {2}
  Terminations = FALSE
  Upgrades = FALSE
INVARIANTS
  TypeOK
  PromiseRefCountsExact
  KernelNeverFails
CHECK_DEADLOCK FALSE
PROPERTIES
  DeliversInOrder
