SPECIFICATION Spec
CONSTANTS
  Pid <- MCPid
  Asset <- MCAsset
  CashAssets <- MCCash
  Entries <- MCEntries
  Prices <- MCPrices
  NoHash = NoHash
  NoValue = NoValue
  MaxTx = 4
  NoToken = NoToken
  Tokens <- MCTokens
  AsId <- MCAsId
  NameOf <- MCNameOf
  Refused = Refused
INVARIANTS
  LotsAreLatestBuys
  ReplayAgreesWithFifo
  EquityIsExplained
  AllIsTheUnion
  ReportsAgree
CHECK_DEADLOCK FALSE
