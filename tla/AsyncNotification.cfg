\* Four calls in a row, each refused, deferred or run inline.  A caller may
\* stop calling, and waits for ever once refused: no deadlock check.
CONSTANT MaxCalls = 4
SPECIFICATION FairSpec
INVARIANTS IInv NoUseAfterFree
PROPERTY AcceptedReturns
CHECK_DEADLOCK FALSE
