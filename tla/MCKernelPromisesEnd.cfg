SPECIFICATION FairSpec
CONSTANTS
  NVats = 2
  NPromises = 3
  MaxSends = 5
  MaxHostSends = 1
  MaxSyscalls = 3
  MaxResolutions = 1
  HostReads = FALSE
  PipeliningVats = {}
  Terminations = TRUE
  Upgrades = TRUE
INVARIANTS
  OneResolver
  NoLostNotification
CHECK_DEADLOCK FALSE
PROPERTIES
  SubscribersAreNotified
  SettledSendsAreServed
