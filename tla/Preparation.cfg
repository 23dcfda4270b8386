CONSTANTS
  Kinds <- MCKinds
  SubKinds <- MCSubKinds
  MaxWords = 4
SPECIFICATION Spec
CHECK_DEADLOCK FALSE
INVARIANT TypeOK
INVARIANT AssembledFits
INVARIANT NothingLost
INVARIANT ProducersFirst
INVARIANT MemoryInOrder
INVARIANT BranchesInOrder
INVARIANT EndloopStaysLast
INVARIANT SameInOneStep
INVARIANT RoundsBringOrder
