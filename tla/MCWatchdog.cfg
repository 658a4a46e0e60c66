SPECIFICATION Spec
CONSTANTS
  Watches <- MCWatches
  Configs <- MCConfigs
  Levels <- MCLevels
  Entry <- MCEntry
  Signals <- MCSignals
  Venue = {"held"}
  Order = {"o1"}
  Orders <- MCOrders
  Prices = {1, 3}
  None = None
  Cooldown = 2
  Grace = 1
  StaleAfter = 1
  Lookback = 3
  Threshold = 2
  MaxTime <- MCMaxTime
  MaxMishaps <- MCMaxMishaps
INVARIANTS
  NothingSwallowed
  ReportedOnce
  NoForeignFill
  RecoveryIsConfirmed
PROPERTIES
  FatalIsAnOutage
CHECK_DEADLOCK FALSE
