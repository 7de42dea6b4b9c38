--------------------------- MODULE KernelCacheOps ---------------------------
(***************************************************************************)
(* One KernelCache<T> object of ops/built-in/kernel_cache.h as a value, and *)
(* its operations as operators on that value, so that a module can hold as *)
(* many caches as it likes.                                                *)
(*                                                                         *)
(* A cache is a record: its mode and capacity, the list kernel_cache_ and  *)
(* the index kernel_cache_iter_.  The list nodes have identities, because  *)
(* the index holds list iterators: an erased node may be allocated again,  *)
(* and an index entry left pointing to one would be a dangling iterator.   *)
(* kernel_mutex_ makes each operation atomic, so each is one operator; the *)
(* operators return the set of caches the allocator's choice can produce.  *)
(* An operator named F_x is F with the mistake x, kept to show that the    *)
(* properties would catch it; nothing else uses it.                        *)
(***************************************************************************)
EXTENDS Naturals, Sequences, SequencesExt

CONSTANTS Keys,            \* kernel ids
          Data,            \* shared_ptr<T> values
          NoData,          \* nullptr
          Nodes,           \* list nodes the allocator can hand out
          NoNode,          \* kernel_cache_iter_.end()
          kMaxLRUCacheNum  \* the capacity a stream's cache is given (256)

ASSUME CapacityAssumption == kMaxLRUCacheNum \in Nat \ {0}
ASSUME NullAssumption == NoData \notin Data /\ NoNode \notin Nodes

Entries == [node : Nodes, key : Keys, data : Data]

Caches == [sess_flag : BOOLEAN, capacity : Nat, list : Seq(Entries),
           iter : [Keys -> Nodes \cup {NoNode}]]

\* Constructor, then Init(sess_flag) with CpuKernelCache::InitParameter.
NewCache(sess) ==
  [sess_flag |-> sess,
   capacity  |-> IF sess THEN 1 ELSE kMaxLRUCacheNum,
   list      |-> <<>>,
   iter      |-> [k \in Keys |-> NoNode]]

Found(c, k) == c.iter[k] # NoNode

\* The list position an index entry points to.
At(c, k) == CHOOSE i \in DOMAIN c.list : c.list[i].node = c.iter[k]

FreeNodes(c) == Nodes \ {c.list[i].node : i \in DOMAIN c.list}

\* kernel_cache_.erase(pair_iter): the index is left as it is.
Erase(c, i) == [c EXCEPT !.list = RemoveAt(@, i)]

\* kernel_cache_.push_front(pair); kernel_cache_iter_[key] = begin().
PushFront(c, n, k, d) ==
  [c EXCEPT !.list = <<[node |-> n, key |-> k, data |-> d]>> \o @,
            !.iter = [@ EXCEPT ![k] = n]]

PushedFront(c, k, d) == {PushFront(c, n, k, d) : n \in FreeNodes(c)}

MovedToFront_MovedFrom(c, k) == PushedFront(Erase(c, At(c, k)), k, NoData)
MovedToFront(c, k) ==
  PushedFront(Erase(c, At(c, k)), k, c.list[At(c, k)].data)

\* The eviction: pop_back, and the index entry of the key popped is erased.
PopBack(c) ==
  [c EXCEPT !.list = Front(@),
            !.iter = [@ EXCEPT ![Last(c.list).key] = NoNode]]

MustEvict_AtCapacity(c) == c.capacity <= Len(c.list) /\ ~c.sess_flag
MustEvict(c) == c.capacity < Len(c.list) /\ ~c.sess_flag

GetResult(c, k) == IF Found(c, k) THEN c.list[At(c, k)].data ELSE NoData

AfterGet_NoRefresh(c, k) == {c}
AfterGet(c, k) == IF Found(c, k) /\ ~c.sess_flag THEN MovedToFront(c, k) ELSE {c}

Replaced(c, k, d) ==
  LET e == [c.list[At(c, k)] EXCEPT !.data = d]
  IN  [c EXCEPT !.list = [c.list EXCEPT ![At(c, k)] = e]]

AfterSet(c, k, d) ==
  IF Found(c, k)
  THEN IF c.sess_flag THEN {Replaced(c, k, d)} ELSE MovedToFront(Replaced(c, k, d), k)
  ELSE PushedFront(IF MustEvict(c) THEN PopBack(c) ELSE c, k, d)

-----------------------------------------------------------------------------
\* What a sound cache looks like: every list node and every key occurs once,
\* and the index points exactly to the nodes of the list.
NodesDistinct(c) ==
  \A i, j \in DOMAIN c.list : c.list[i].node = c.list[j].node => i = j
KeysDistinct(c) ==
  \A i, j \in DOMAIN c.list : c.list[i].key = c.list[j].key => i = j
IndexSound(c) ==
  \A k \in Keys : Found(c, k) =>
    \E i \in DOMAIN c.list : c.list[i].key = k /\ c.list[i].node = c.iter[k]
IndexComplete(c) ==
  \A i \in DOMAIN c.list : c.iter[c.list[i].key] = c.list[i].node

WellFormed(c) ==
  NodesDistinct(c) /\ KeysDistinct(c) /\ IndexSound(c) /\ IndexComplete(c)
=============================================================================
