SPECIFICATION FairSpec
CONSTANTS
  m1 = m1
  Vats = {1, 2}
  StaticVats = {1}
  Meters = {m1}
  MeterOf <- MCMeterOf
  Funds <- MCFunds
  Refill = 1
  MaxVatsOnline = 1
  MaxPreload = 1
  SnapshotInitial = 2
  SnapshotInterval = 3
  ReapThreshold = 2
  CleanupBudget = 1
  Costs = {0, 1}
  BoydCosts = {0, 1}
  MaxCranks = 3
  MaxCrashes = 1
CHECK_DEADLOCK FALSE
INVARIANTS WorkerIsItsTranscript KernelNeverFails
  ExportsDescribeStore MetersAreHonest
PROPERTIES ExperienceOnlyGrows DirtyVatIsReaped
