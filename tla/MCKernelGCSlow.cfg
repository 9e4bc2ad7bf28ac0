SPECIFICATION Spec
CONSTANTS
  NVats = 3
  NObjects = 4
  MaxQueue = 1
  MaxSyscalls = 2
  CleanupBudget = "one"
  Faults = {}
  LiveslotsVats = {1, 2, 3}
  CriticalVats = {}
  UpgradedVats = {2}
  DurableObjects = {}
  KeptRoots = {1, 2, 3}
INVARIANTS
  OwnerMatchesCList
  NothingIsStranded
  KernelNeverFails
PROPERTIES
  RetiresOnlyUnrecognizable
  AbortUndoesTheCrank
