CONSTANTS
  MaxKey = 11
  Default <- MCNoInfo
  Thread = {t1, t2}
  NoThread = NoThread
  Words <- MCWords
  Base = 4
  MemWords = 3
  MaxWords = 3
  MaxQueries = 3
  MaxPatches = 0
SPECIFICATION OrderedSpec
CHECK_DEADLOCK FALSE
INVARIANT TypeOK
INVARIANT FromMemory
INVARIANT AnswerSound
INVARIANT WordsShareOut
PROPERTY StartNeverAdvances
PROPERTY Stable
SYMMETRY MCSymmetry
