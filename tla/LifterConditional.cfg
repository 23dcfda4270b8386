CONSTANT
  Fetched <- MCConditional
SPECIFICATION Spec
CHECK_DEADLOCK FALSE
INVARIANT Equivalent
