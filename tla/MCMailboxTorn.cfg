SPECIFICATION Spec
CONSTANTS
  a = a
  b = b
  Bodies <- MCBodies
  TornSaves = TRUE
  MaxTxs = 2
  MaxCrashes = 1
CHECK_DEADLOCK FALSE
INVARIANTS OutputIsEmbargoed

