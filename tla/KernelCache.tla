---------------------------- MODULE KernelCache ----------------------------
(***************************************************************************)
(* One KernelCache<CpuCacheData> used by any number of threads: GetCache   *)
(* and SetCache run under kernel_mutex_, so a step is a whole call.        *)
(*                                                                         *)
(* `touched` and `stored` are history: the keys ever stored, the most      *)
(* recently stored or found first, and the last value stored under each.   *)
(* They say what the cache should hold without looking at how it holds it. *)
(***************************************************************************)
EXTENDS KernelCacheOps

VARIABLES cache, ret, touched, stored

vars == <<cache, ret, touched, stored>>

Lru == INSTANCE LruCache
         WITH Bound <- kMaxLRUCacheNum + 1, unbounded <- cache.sess_flag,
              order <- touched, value <- stored

Init ==
  /\ \E sess \in BOOLEAN : cache = NewCache(sess)
  /\ ret = <<>>
  /\ touched = <<>>
  /\ stored = [k \in Keys |-> NoData]

GetCache(k) ==
  /\ ret' = <<k, GetResult(cache, k)>>
  /\ cache' \in AfterGet(cache, k)
  /\ touched' = IF Found(cache, k) THEN Lru!Promote(touched, k) ELSE touched
  /\ UNCHANGED stored

SetCache(k, d) ==
  /\ cache' \in AfterSet(cache, k, d)
  /\ touched' = Lru!Promote(touched, k)
  /\ stored' = [stored EXCEPT ![k] = d]
  /\ UNCHANGED ret

Next == \E k \in Keys : GetCache(k) \/ \E d \in Data : SetCache(k, d)

Spec == Init /\ [][Next]_vars

-----------------------------------------------------------------------------
TypeOK ==
  /\ cache \in Caches
  /\ ret \in {<<>>} \cup (Keys \X (Data \cup {NoData}))
  /\ touched \in Seq(Keys)
  /\ stored \in [Keys -> Data \cup {NoData}]

\* The list and the index agree: no dangling iterator, no node out of the
\* index's reach, no key twice (kernel_cache.h, erase/push_front/pop_back).
CacheWellFormed == WellFormed(cache)

\* Every resident entry carries the value stored last under its key: no
\* update lands on another key's node, and no lookup can return a stale one.
Holds(c, v) == \A i \in DOMAIN c.list : c.list[i].data = v[c.list[i].key]

ResidentIsLastStored == Holds(cache, stored)

\* A stream's cache holds exactly the kMaxLRUCacheNum + 1 most recently used
\* keys, in order of use: eviction never takes a key used more recently than
\* one it keeps.
KeepsFirstOf(c, t) ==
  /\ Len(c.list) = IF Len(t) <= kMaxLRUCacheNum + 1 THEN Len(t) ELSE kMaxLRUCacheNum + 1
  /\ \A i \in DOMAIN c.list : c.list[i].key = t[i]

LruOrder == ~cache.sess_flag => KeepsFirstOf(cache, touched)

\* A session's cache never loses a kernel.
SessionKeepsAll ==
  cache.sess_flag => \A i \in DOMAIN touched : Found(cache, touched[i])

\* What the proofs add to make the invariants above inductive: the capacity
\* of a stream's cache is the one InitParameter gave it, no key is listed twice
\* in the history, and only keys once stored are resident.
HistorySound ==
  /\ cache.sess_flag \/ cache.capacity = kMaxLRUCacheNum
  /\ \A i, j \in DOMAIN touched : touched[i] = touched[j] => i = j
  /\ \A k \in Keys : Found(cache, k) => \E i \in DOMAIN touched : touched[i] = k

\* GetCache and SetCache keep all of this, from any state in which it holds:
\* besides the properties above, types, and what a session has is never lost.
IInv ==
  /\ TypeOK
  /\ CacheWellFormed
  /\ ResidentIsLastStored
  /\ LruOrder
  /\ SessionKeepsAll
  /\ HistorySound

\* What cpu_kernel_cache.cc:33 says: "max LRU cache number is 256".
DocumentedSizeBound == cache.sess_flag \/ Len(cache.list) <= kMaxLRUCacheNum

\* The cache implements LruCache: hit, miss and store are those of an LRU of
\* kMaxLRUCacheNum + 1 keys, or of an unbounded map in a session.
LruSpec == Lru!LruSpec
=============================================================================
