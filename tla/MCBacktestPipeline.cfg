SPECIFICATION Spec
CONSTANTS
  Runs = {cron, manual}
  Combos <- MCCombos
  Grids <- MCGrids
  Offer <- MCOffer
  MinTrades = 2
  Window = 1
  Conviction = 10
  Providers = {"hl", "kraken", "yf"}
  MaxNights = 2
  MaxKills = 1
INVARIANTS
  GateFollowsTheMarket
  TradeableIsKept
  BaselineMissesOnlyDisturbed
PROPERTIES
  LastGoodSurvives
SYMMETRY Symmetry
CHECK_DEADLOCK FALSE
