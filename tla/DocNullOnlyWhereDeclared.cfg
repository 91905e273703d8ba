SPECIFICATION HelperSpec
CONSTANTS
  Kinds = {}
  MaxUsed = 0
INVARIANTS
  NullOnlyWhereDeclared
CHECK_DEADLOCK FALSE
