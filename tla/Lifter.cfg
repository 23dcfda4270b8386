CONSTANT
  Fetched <- MCPackets
SPECIFICATION Spec
CHECK_DEADLOCK FALSE
INVARIANT TypeOK
INVARIANT SuccessorsReported
PROPERTY Implements
