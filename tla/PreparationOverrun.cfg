CONSTANTS
  Kinds <- MCKinds
  SubKinds <- MCSubKinds
  MaxWords = 4
SPECIFICATION Spec
CHECK_DEADLOCK FALSE
INVARIANT InsnArraySuffices
