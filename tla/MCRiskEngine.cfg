SPECIFICATION Spec
CONSTANTS
  None = None
  p1 = p1
  p2 = p2
  btc = btc
  sol = sol
  Vet <- MCVet
  Asset <- MCAsset
  Cost <- MCCost
  Quotes <- MCQuotes
  Intents <- MCIntents
  Outside <- MCOutside
  Tier <- MCTier
  Defaults <- MCDefaults
  Overrides <- MCOverrides
  FirstBooks <- MCFirstBooks
  MaxFills = 1
  MaxQuotes = 1
SYMMETRY Symmetry
INVARIANTS
  UndisturbedVetIsExact
  PeakIsHonest
  ScaledIsAccepted
  MissingDataIsAConcern
