SPECIFICATION FairSpec
CONSTANTS
  a = a
  b = b
  Bodies <- MCBodies
  TornSaves = FALSE
  MaxTxs = 2
  MaxCrashes = 1
CHECK_DEADLOCK FALSE
INVARIANTS ReceivedIsSent NothingIsLost
PROPERTIES RefinesChannel EverySendArrives
