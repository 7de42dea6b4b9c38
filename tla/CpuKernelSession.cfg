\* Five launches in one session on two streams, blocks and an asynchronous
\* kernel among them.  All launches end: no deadlock check.
CONSTANTS
  Data = {1, 2, 3, 4, 5}
  NoData = 0
  Info <- SessionInfo
  Keys = {1, 2, 3}
  Ids = {1, 2}
  Nodes = {n1, n2}
  NoNode = NoNode
  kMaxLRUCacheNum = 1
  MaxErrors = 1
SPECIFICATION Spec
INVARIANTS EntryAlive ContextIsolation
CHECK_DEADLOCK FALSE
