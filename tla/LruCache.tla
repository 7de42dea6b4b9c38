------------------------------ MODULE LruCache ------------------------------
(***************************************************************************)
(* What a kernel cache promises to its callers.  `order` lists every key   *)
(* ever stored, the most recently used first; `value` is the last value    *)
(* stored for each key, and `ret` the last lookup with what it returned.   *)
(* An unbounded cache answers for every stored key, a bounded one for the  *)
(* Bound most recently used keys only.  Nothing is said of how the entries *)
(* are kept.                                                               *)
(***************************************************************************)
EXTENDS Naturals, Sequences, SequencesExt

CONSTANTS Keys,    \* kernel ids
          Data,    \* cache contents
          NoData,  \* what a lookup that finds nothing returns
          Bound    \* number of keys a bounded cache answers for

VARIABLES unbounded, order, value, ret

lruVars == <<unbounded, order, value, ret>>

Position(s, k) == CHOOSE i \in DOMAIN s : s[i] = k

\* k moved, or added, to the front of s.
Promote(s, k) ==
  IF \E i \in DOMAIN s : s[i] = k
  THEN <<k>> \o RemoveAt(s, Position(s, k))
  ELSE <<k>> \o s

Resident(k) == \E i \in DOMAIN order : order[i] = k /\ (unbounded \/ i <= Bound)

LruInit ==
  /\ unbounded \in BOOLEAN
  /\ order = <<>>
  /\ value = [k \in Keys |-> NoData]
  /\ ret = <<>>

Hit(k) ==
  /\ Resident(k)
  /\ ret' = <<k, value[k]>>
  /\ order' = Promote(order, k)
  /\ UNCHANGED <<unbounded, value>>

Miss(k) ==
  /\ ~Resident(k)
  /\ ret' = <<k, NoData>>
  /\ UNCHANGED <<unbounded, order, value>>

Store(k, d) ==
  /\ value' = [value EXCEPT ![k] = d]
  /\ order' = Promote(order, k)
  /\ UNCHANGED <<unbounded, ret>>

LruNext == \E k \in Keys : Hit(k) \/ Miss(k) \/ \E d \in Data : Store(k, d)

LruSpec == LruInit /\ [][LruNext]_lruVars
=============================================================================
