SPECIFICATION SyncSpec
CONSTANTS
  Pid <- MCPid
  Asset <- MCAsset
  CashAssets <- MCCash
  Entries <- MCEntries
  Prices = {}
  NoHash = NoHash
  NoValue = NoValue
  MaxTx = 3
  Name <- MCName
  s1 = s1
  s2 = s2
  Sync = {s1, s2}
  Scopes <- MCScopes
  First <- MCFirst
  Ticker <- MCTicker
  NoTicker = NoTicker
  Null = Null
  HandPrice <- MCHand
  MaxEdits = 1
SYMMETRY Symmetry
INVARIANTS
  NeverDropsHeld
  HeldIsWatchedOrReported
PROPERTIES
  UndisturbedSyncIsExact
CHECK_DEADLOCK FALSE
