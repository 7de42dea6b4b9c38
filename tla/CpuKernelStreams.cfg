\* Seven launches on two streams.  A cache holds kMaxLRUCacheNum + 1 = 2
\* kernels, fewer than stream 1 runs.  Every launch must end, those that fail
\* and the asynchronous ones too; they do end: no deadlock check.
CONSTANTS
  Data = {1, 2, 3, 4, 5, 6, 7}
  NoData = 0
  Info <- StreamInfo
  Keys = {1, 2, 3}
  Ids = {1, 2}
  Nodes = {n1, n2}
  NoNode = NoNode
  kMaxLRUCacheNum = 1
  MaxErrors = 1
SPECIFICATION FairSpec
INVARIANTS ContextOfKernel  
PROPERTY AllComplete
CHECK_DEADLOCK FALSE
