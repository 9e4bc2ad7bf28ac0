SPECIFICATION Spec
CONSTANTS
  NVats = 2
  NObjects = 3
  MaxQueue = 1
  MaxSyscalls = 1
  CleanupBudget = "unlimited"
  Faults = {"failureReason"}
  LiveslotsVats = {1, 2}
  CriticalVats = {1}
  UpgradedVats = {}
  DurableObjects = {}
  KeptRoots = {1, 2}
INVARIANTS
  QueuedKrefsAreAllocated
