CONSTANTS
  MaxKey = 9
  Default <- MCNoInfo
  Thread = {t1, t2}
  NoThread = NoThread
  Words <- MCFewWords
  Base = 4
  MemWords = 2
  MaxWords = 2
  MaxQueries = 2
  MaxPatches = 1
SPECIFICATION FairSpec
CHECK_DEADLOCK FALSE
INVARIANT NeverAborts
INVARIANT Spans
PROPERTY CoverageGrows
PROPERTY EveryQueryReturns
