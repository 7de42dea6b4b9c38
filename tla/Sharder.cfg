SPECIFICATION FairSpec
CONSTANTS
  Call = {c1, c2, c3}
  Requests <- MCRequests
  Nprocs = {0, 2}
  NULL = NULL
INVARIANTS
  AllOrNothing
  UnitOnce
PROPERTIES
  
  Returns
CHECK_DEADLOCK FALSE
