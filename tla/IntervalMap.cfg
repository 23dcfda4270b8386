CONSTANTS
  MaxKey = 5
  Default = 0
  Value = {0, 1, 2}
SPECIFICATION Spec
INVARIANT TypeOK
INVARIANT Merged
PROPERTY Implements
