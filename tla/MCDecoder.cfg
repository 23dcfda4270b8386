CONSTANTS
  Words <- MCWords
  MaxWords = 4
SPECIFICATION Spec
CHECK_DEADLOCK FALSE
INVARIANT TypeOK
INVARIANT ProducerIsAhead
INVARIANT ExtendersPair
INVARIANT EndloopIsLast
PROPERTY WindowIndependent
