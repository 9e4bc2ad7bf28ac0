SPECIFICATION FairSpec
CONSTANTS
  NVats = 2
  NObjects = 3
  MaxQueue = 1
  MaxSyscalls = 2
  CleanupBudget = "unlimited"
  Faults = {"afterAdminTerminate"}
  LiveslotsVats = {1}
  CriticalVats = {}
  UpgradedVats = {}
  DurableObjects = {}
  KeptRoots = {1}
INVARIANTS
  TypeOK
  RefCountsExact
  HeldExportIsFlagged
  LiveVatsAreNotTerminated
PROPERTIES
  DropsOnlyUnreachable
  GarbageIsDropped
  DeadImportIsRetired
CHECK_DEADLOCK FALSE
