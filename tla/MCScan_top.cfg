SPECIFICATION ScanSpec
CHECK_DEADLOCK FALSE
SYMMETRY MCSymmetry
CONSTANTS
  NoIdea = NoIdea
  TiesUp = FALSE
  Unavailable = Unavailable
  NoFrames = NoFrames
  Window = 2
  Cap = 5
  s1 = s1
  s2 = s2
  k1 = k1
  k2 = k2
  Runners = {s1, s2}
  Clerks = {k1, k2}
  Pairs <- MCPairs
  Drafts <- MCDrafts
  NoMeta = NoMeta
  Blank = Blank
  Garbled = Garbled
  MaxTime = 2
  Sessions <- TopSessions
  Markets <- MCMarkets
  Alphabet <- MCAlphabet
  NoData = NoData
  NoReport = NoReport
  NoTop = NoTop
  DefaultState <- MCDefaultState
  Floor = 1
INVARIANT
  TopCapsTheTicker
