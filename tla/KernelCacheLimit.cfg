\* The instance of KernelCache.cfg, against the limit the comment of
\* cpu_kernel_cache.cc:33 gives.
CONSTANTS
  Keys = {k1, k2, k3, k4}
  Data = {d1, d2}
  NoData = NoData
  Nodes = {n1, n2, n3, n4}
  NoNode = NoNode
  kMaxLRUCacheNum = 2
SYMMETRY Symmetry
SPECIFICATION Spec
INVARIANT DocumentedSizeBound
