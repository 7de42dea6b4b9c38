--------------------------- MODULE MCKernelCache ---------------------------
EXTENDS KernelCache, TLC

Symmetry == Permutations(Nodes) \cup Permutations(Data)
=============================================================================
