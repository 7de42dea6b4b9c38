--------------------------- MODULE MCCompareData ---------------------------
(* Outputs on both sides of every threshold of CompareData, and of sizes    *)
(* around CsvMaxLine.                                                      *)
EXTENDS Integers
CONSTANTS NAN, INF

Real == {0, 9, 1009, 1020, 1200, NAN, INF}
Expect == {0, 1000, INF}

Same(n) == {[real |-> r, expect |-> e] : r \in [1 .. n -> Real], e \in [1 .. n -> Expect]}
Far(n) == [real |-> [i \in 1 .. n |-> 1200], expect |-> [i \in 1 .. n |-> 1000]]
Odd == {[real |-> <<0>>, expect |-> <<>>], [real |-> <<>>, expect |-> <<>>], [real |-> <<>>, expect |-> <<0>>]}

MCOutputLists ==
  {<<o>> : o \in Same(1) \cup Same(2) \cup Odd}
    \cup {<<[real |-> r, expect |-> [i \in 1 .. 4 |-> 1000]]>> : r \in [1 .. 4 -> Real]}
    \cup {<<Far(n)>> : n \in 3 .. 6}
    \cup {<<Far(n), Far(m)>> : n, m \in {1, 3}}
MCLater == {<<Far(n)>> : n \in {1, 3, 4, 5}}
=============================================================================
