\* Four kernels compete for the places of a cache of capacity two (three
\* with the extra entry), so evictions and re-insertions happen; as many list
\* nodes as a session's cache needs, so that erased nodes are reused.
CONSTANTS
  Keys = {k1, k2, k3, k4}
  Data = {d1, d2}
  NoData = NoData
  Nodes = {n1, n2, n3, n4}
  NoNode = NoNode
  kMaxLRUCacheNum = 2
SYMMETRY Symmetry
SPECIFICATION Spec
INVARIANTS IInv LruOrder
PROPERTIES LruSpec
