SPECIFICATION Spec
CONSTANTS
  p1 = p1
  a1 = a1
  a2 = a2
  Txs <- MCTxs
  Cranks <- MCCranks
  Nonced = {a1}
  Wakeups = {3}
  DeadVatWork = 1
  BlockComputeLimit = 2
  CleanupBudget = 1
  UpgradeHeights = {4}
  FirstHeight = 2
  MaxHeight = 5
  MaxTxs = 2
  MaxCrashes = 2
  CrashAfterRelaunch = TRUE
INVARIANT ReplaysOneBlock
