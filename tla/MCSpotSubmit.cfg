SPECIFICATION FairSpec
CONSTANTS
  i1 = i1
  i2 = i2
  r1 = r1
  r2 = r2
  Intent = {i1, i2}
  Run = {r1, r2}
  NoIntent = NoIntent
  NoRun = NoRun
  Volume = 2
  MaxPolls = 1
  EndLabels = {"filled", "canceled"}
  RetryLost = FALSE
INVARIANTS
  TypeOK
  RowIsFinalFill
  RowsAndDecisionsTogether
  OneRowPerOrder
  ExitCodeTellsLedger
PROPERTIES
  BooksOnceAndInFull
  EveryRunEnds
CHECK_DEADLOCK FALSE
