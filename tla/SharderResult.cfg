SPECIFICATION Spec
CONSTANTS
  Call = {c1, c2}
  Requests <- MCRequests
  Nprocs = {0, 2}
  NULL = NULL
INVARIANT OkMeansDone
CHECK_DEADLOCK FALSE
