CONSTANT
  Fetched <- MCStorePair
SPECIFICATION Spec
CHECK_DEADLOCK FALSE
INVARIANT Equivalent
