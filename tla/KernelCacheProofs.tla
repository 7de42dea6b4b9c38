------------------------- MODULE KernelCacheProofs -------------------------
(***************************************************************************)
(* Theorems about KernelCache for every set of keys, values and nodes and  *)
(* every capacity.                                                         *)
(***************************************************************************)
EXTENDS KernelCache, KernelCacheOpsProofs

\* t is s with its p-th element moved to the front, or with an element added
\* at the front.
MovedFrom(s, t, p) ==
  /\ Len(t) = Len(s)
  /\ \A j \in 1 .. Len(s) - 1 : t[j + 1] = IF j < p THEN s[j] ELSE s[j + 1]
Shifted(s, t) ==
  Len(t) = Len(s) + 1 /\ \A j \in 1 .. Len(s) : t[j + 1] = s[j]

\* A key moved, or added, to the front of a list of distinct keys.
LEMMA PromoteFacts ==
  ASSUME NEW s \in Seq(Keys), NEW k \in Keys,
         \A i, j \in DOMAIN s : s[i] = s[j] => i = j,
         NEW t, t = Lru!Promote(s, k)
  PROVE  /\ t \in Seq(Keys) /\ Len(t) >= 1 /\ t[1] = k
         /\ \A i, j \in DOMAIN t : t[i] = t[j] => i = j
         /\ \A i \in DOMAIN s : \E j \in DOMAIN t : t[j] = s[i]
         /\ \A j \in DOMAIN t : t[j] = k \/ \E i \in DOMAIN s : t[j] = s[i]
         /\ \A p \in DOMAIN s : s[p] = k => MovedFrom(s, t, p)
         /\ (\A p \in DOMAIN s : s[p] # k) => Shifted(s, t)
<1>1. Len(s) \in Nat /\ DOMAIN s = 1 .. Len(s) /\ \A i \in 1 .. Len(s) : s[i] \in Keys
  OBVIOUS
<1>2. CASE \A p \in DOMAIN s : s[p] # k
  <2>1. t = <<k>> \o s
    BY <1>2 DEF Lru!Promote
  <2>2. /\ t \in Seq(Keys) /\ Len(t) = Len(s) + 1 /\ t[1] = k
        /\ \A j \in 1 .. Len(s) : t[j + 1] = s[j]
    BY <2>1, PrependFacts
  <2>3. \A j \in 1 .. Len(t) : j # 1 => j - 1 \in 1 .. Len(s) /\ t[j] = s[j - 1]
    BY <1>1, <2>2
  <2>4. ASSUME NEW i \in 1 .. Len(t), NEW j \in 1 .. Len(t), t[i] = t[j]
        PROVE  i = j
    <3>1. CASE i = 1 \/ j = 1
      <4>1. \A x \in 1 .. Len(t) : x # 1 => t[x] # k
        BY <1>1, <1>2, <2>3
      <4> QED BY <4>1, <3>1, <2>2, <2>4
    <3>2. CASE i # 1 /\ j # 1
      <4>1. i - 1 = j - 1
        BY <3>2, <1>1, <2>3, <2>4
      <4> QED BY <4>1
    <3> QED BY <3>1, <3>2
  <2>5. \A i \in 1 .. Len(s) : i + 1 \in 1 .. Len(t) /\ t[i + 1] = s[i]
    BY <1>1, <2>2
  <2>6. DOMAIN t = 1 .. Len(t) /\ Len(t) >= 1
    BY <1>1, <2>2
  <2>7. \A j \in 1 .. Len(t) : t[j] = k \/ \E i \in 1 .. Len(s) : t[j] = s[i]
    BY <2>2, <2>3
  <2>8. \A i \in 1 .. Len(s) : \E j \in 1 .. Len(t) : t[j] = s[i]
    BY <2>5
  <2>9. /\ \A i, j \in DOMAIN t : t[i] = t[j] => i = j
        /\ \A i \in DOMAIN s : \E j \in DOMAIN t : t[j] = s[i]
        /\ \A j \in DOMAIN t : t[j] = k \/ \E i \in DOMAIN s : t[j] = s[i]
    <3>1. \A i, j \in DOMAIN t : t[i] = t[j] => i = j
      BY <2>4, <2>6, Zenon
    <3>2. \A i \in DOMAIN s : \E j \in DOMAIN t : t[j] = s[i]
      BY <1>1, <2>6, <2>8, Zenon
    <3>3. \A j \in DOMAIN t : t[j] = k \/ \E i \in DOMAIN s : t[j] = s[i]
      BY <1>1, <2>6, <2>7, Zenon
    <3> QED BY <3>1, <3>2, <3>3
  <2>10. Shifted(s, t)
    BY <2>2 DEF Shifted
  <2> QED BY <1>2, <2>2, <2>6, <2>9, <2>10
<1>3. ASSUME NEW p \in DOMAIN s, s[p] = k
      PROVE  /\ t \in Seq(Keys) /\ MovedFrom(s, t, p) /\ Len(t) >= 1 /\ t[1] = k
             /\ \A i, j \in DOMAIN t : t[i] = t[j] => i = j
             /\ \A i \in DOMAIN s : \E j \in DOMAIN t : t[j] = s[i]
             /\ \A j \in DOMAIN t : t[j] = k \/ \E i \in DOMAIN s : t[j] = s[i]
  <2> DEFINE r == RemoveAt(s, p)
  <2>1. Lru!Position(s, k) = p
    BY <1>1, <1>3 DEF Lru!Position
  <2>2. t = <<k>> \o r
    BY <1>3, <2>1 DEF Lru!Promote, Lru!RemoveAt, RemoveAt
  <2>3. /\ r \in Seq(Keys) /\ Len(r) = Len(s) - 1
        /\ \A j \in 1 .. Len(s) - 1 : r[j] = IF j < p THEN s[j] ELSE s[j + 1]
    BY RemoveAtFacts
  <2> HIDE DEF r
  <2>4. /\ t \in Seq(Keys) /\ Len(t) = Len(s) /\ t[1] = k
        /\ \A j \in 1 .. Len(s) - 1 : t[j + 1] = IF j < p THEN s[j] ELSE s[j + 1]
    <3>1. /\ t \in Seq(Keys) /\ Len(t) = Len(r) + 1 /\ t[1] = k
          /\ \A j \in 1 .. Len(r) : t[j + 1] = r[j]
      BY <2>2, <2>3, PrependFacts
    <3> QED BY <1>1, <2>3, <3>1
  <2>5. \A j \in 1 .. Len(s) : j # 1 =>
          t[j] = IF j <= p THEN s[j - 1] ELSE s[j]
    <3> SUFFICES ASSUME NEW j \in 1 .. Len(s), j # 1
                 PROVE  t[j] = IF j <= p THEN s[j - 1] ELSE s[j]
      OBVIOUS
    <3>1. j - 1 \in 1 .. Len(s) - 1 /\ (j - 1) + 1 = j
      BY <1>1
    <3>2. t[j] = IF j - 1 < p THEN s[j - 1] ELSE s[j]
      BY <3>1, <2>4
    <3> QED BY <1>1, <1>3, <3>2
  <2>6. ASSUME NEW i \in 1 .. Len(s), NEW j \in 1 .. Len(s), t[i] = t[j]
        PROVE  i = j
    <3>1. CASE i = 1 \/ j = 1
      <4>1. ASSUME NEW x \in 1 .. Len(s), x # 1
            PROVE  t[x] # k
        <5>1. x <= p => x - 1 \in 1 .. Len(s) /\ x - 1 # p /\ t[x] = s[x - 1]
          BY <4>1, <1>1, <1>3, <2>5
        <5>2. ~(x <= p) => x # p /\ t[x] = s[x]
          BY <4>1, <1>1, <1>3, <2>5
        <5> QED BY <5>1, <5>2, <1>1, <1>3
      <4> QED BY <4>1, <3>1, <2>4, <2>6
    <3>2. CASE i # 1 /\ j # 1
      BY <3>2, <1>1, <1>3, <2>5, <2>6
    <3> QED BY <3>1, <3>2
  <2>7. ASSUME NEW i \in 1 .. Len(s)
        PROVE  \E j \in 1 .. Len(s) : t[j] = s[i]
    <3>1. CASE i = p
      BY <3>1, <1>1, <1>3, <2>4
    <3>2. CASE i < p
      <4>1. i \in 1 .. Len(s) - 1 /\ i + 1 \in 1 .. Len(s) /\ t[i + 1] = s[i]
        BY <3>2, <1>1, <1>3, <2>4
      <4> QED BY <4>1
    <3>3. CASE i > p
      BY <3>3, <1>1, <1>3, <2>5
    <3> QED BY <1>1, <1>3, <3>1, <3>2, <3>3
  <2>8. \A j \in 1 .. Len(s) : t[j] = k \/ \E i \in 1 .. Len(s) : t[j] = s[i]
    <3> SUFFICES ASSUME NEW j \in 1 .. Len(s), j # 1
                 PROVE  \E i \in 1 .. Len(s) : t[j] = s[i]
      BY <2>4
    <3>1. j - 1 \in 1 .. Len(s)
      BY <1>1
    <3> QED BY <3>1, <2>5
  <2>9. DOMAIN t = 1 .. Len(s) /\ Len(s) >= 1
    BY <1>1, <1>3, <2>4
  <2>10. MovedFrom(s, t, p)
    BY <2>4 DEF MovedFrom
  <2> QED BY <1>1, <2>4, <2>6, <2>7, <2>8, <2>9, <2>10
<1>4. CASE \E p \in DOMAIN s : s[p] = k
  BY <1>3, <1>4
<1> QED BY <1>2, <1>4

\* A key and its history move to the front together (LruOrder at a hit).
LEMMA OrderAfterMove ==
  ASSUME NEW c \in Caches, WellFormed(c), NEW k \in Keys, Found(c, k),
         NEW q \in MovedToFront(c, k), NEW t \in Seq(Keys), KeepsFirstOf(c, t),
         \A i, j \in DOMAIN t : t[i] = t[j] => i = j
  PROVE  KeepsFirstOf(q, Lru!Promote(t, k))
<1> DEFINE p == At(c, k)
           u == Lru!Promote(t, k)
<1>1. /\ q \in Caches /\ Len(q.list) = Len(c.list) /\ q.list[1].key = k
      /\ \A j \in 1 .. Len(c.list) - 1 : q.list[j + 1] =
           IF j < p THEN c.list[j] ELSE c.list[j + 1]
  BY MoveFacts
<1>2. /\ p \in 1 .. Len(c.list) /\ c.list[p].key = k
      /\ Len(c.list) \in Nat /\ DOMAIN c.list = 1 .. Len(c.list)
      /\ DOMAIN q.list = 1 .. Len(c.list)
  BY <1>1, AtFacts, CacheFacts
<1>3. /\ Len(c.list) <= Len(t) /\ Len(t) \in Nat
      /\ \A i \in 1 .. Len(c.list) : c.list[i].key = t[i]
  BY <1>2, CapacityAssumption DEF KeepsFirstOf
<1>4. p \in DOMAIN t /\ t[p] = k
  BY <1>2, <1>3
<1>0. u = Lru!Promote(t, k)
  OBVIOUS
<1> HIDE DEF p, u
<1>5. /\ Len(u) = Len(t) /\ u[1] = k
      /\ \A j \in 1 .. Len(t) - 1 : u[j + 1] = IF j < p THEN t[j] ELSE t[j + 1]
  <2>1. u[1] = k /\ \A x \in DOMAIN t : t[x] = k => MovedFrom(t, u, x)
    BY <1>0, PromoteFacts
  <2> QED BY <2>1, <1>4 DEF MovedFrom
<1>6. ASSUME NEW i \in 1 .. Len(c.list) PROVE q.list[i].key = u[i]
  <2>1. CASE i = 1
    BY <2>1, <1>1, <1>5
  <2>2. CASE i # 1
    <3>1. /\ i - 1 \in 1 .. Len(c.list) - 1 /\ i - 1 \in 1 .. Len(t) - 1
          /\ (i - 1) + 1 = i /\ i - 1 \in 1 .. Len(c.list)
      BY <2>2, <1>2, <1>3
    <3>2. /\ q.list[i] = IF i - 1 < p THEN c.list[i - 1] ELSE c.list[i]
          /\ u[i] = IF i - 1 < p THEN t[i - 1] ELSE t[i]
      BY <3>1, <1>1, <1>5
    <3> QED BY <3>1, <3>2, <1>3
  <2> QED BY <2>1, <2>2
<1>7. Len(q.list) = IF Len(u) <= kMaxLRUCacheNum + 1 THEN Len(u) ELSE kMaxLRUCacheNum + 1
  BY <1>1, <1>5 DEF KeepsFirstOf
<1> QED BY <1>2, <1>6, <1>7 DEF KeepsFirstOf, u

\* The entries keep their values when one of them moves to the front.
LEMMA ValuesAfterMove ==
  ASSUME NEW c \in Caches, WellFormed(c), NEW k \in Keys, Found(c, k),
         NEW q \in MovedToFront(c, k), NEW v, Holds(c, v)
  PROVE  Holds(q, v)
<1>1. /\ q \in Caches /\ Len(q.list) = Len(c.list)
      /\ q.list[1].key = k /\ q.list[1].data = c.list[At(c, k)].data
      /\ \A j \in 1 .. Len(c.list) - 1 : q.list[j + 1] =
           IF j < At(c, k) THEN c.list[j] ELSE c.list[j + 1]
  BY MoveFacts
<1>2. /\ At(c, k) \in 1 .. Len(c.list) /\ c.list[At(c, k)].key = k
      /\ Len(c.list) \in Nat /\ DOMAIN c.list = 1 .. Len(c.list)
      /\ DOMAIN q.list = 1 .. Len(c.list)
  BY <1>1, AtFacts, CacheFacts
<1>3. q.list[1].data = v[q.list[1].key]
  BY <1>1, <1>2 DEF Holds
<1>4. ASSUME NEW i \in 1 .. Len(c.list), i # 1 PROVE q.list[i].data = v[q.list[i].key]
  <2>1. i - 1 \in 1 .. Len(c.list) - 1 /\ (i - 1) + 1 = i /\ i - 1 \in 1 .. Len(c.list)
    BY <1>2, <1>4
  <2>2. q.list[i] = c.list[i - 1] \/ q.list[i] = c.list[i]
    BY <2>1, <1>1
  <2> QED BY <2>1, <2>2, <1>2 DEF Holds
<1> QED BY <1>2, <1>3, <1>4 DEF Holds

\* The history of a cache: the parts of HistorySound and SessionKeepsAll.
Tracks(c, t) ==
  /\ c.sess_flag \/ c.capacity = kMaxLRUCacheNum
  /\ \A i, j \in DOMAIN t : t[i] = t[j] => i = j
  /\ \A x \in Keys : Found(c, x) => \E i \in DOMAIN t : t[i] = x
  /\ c.sess_flag => \A i \in DOMAIN t : Found(c, t[i])

\* Touching k keeps the history when k is then the only new key found, if any,
\* and no key is lost in a session.
LEMMA TracksAfterTouch ==
  ASSUME NEW c \in Caches, NEW q \in Caches, NEW k \in Keys, NEW t \in Seq(Keys),
         Tracks(c, t), SameMode(c, q), Found(q, k),
         \A x \in Keys : Found(q, x) => x = k \/ Found(c, x),
         q.sess_flag => \A x \in Keys : Found(c, x) => Found(q, x)
  PROVE  Tracks(q, Lru!Promote(t, k)) /\ Lru!Promote(t, k) \in Seq(Keys)
<1> DEFINE u == Lru!Promote(t, k)
<1>1. u = Lru!Promote(t, k)
  OBVIOUS
<1>2. \A i \in DOMAIN t : t[i] \in Keys
  OBVIOUS
<1> HIDE DEF u
<1>3. /\ u \in Seq(Keys) /\ Len(u) >= 1 /\ u[1] = k
      /\ \A i, j \in DOMAIN u : u[i] = u[j] => i = j
      /\ \A i \in DOMAIN t : \E j \in DOMAIN u : u[j] = t[i]
      /\ \A j \in DOMAIN u : u[j] = k \/ \E i \in DOMAIN t : u[j] = t[i]
  BY <1>1, PromoteFacts DEF Tracks
<1>4. 1 \in DOMAIN u
  BY <1>3
<1>5. \A x \in Keys : Found(q, x) => \E i \in DOMAIN u : u[i] = x
  BY <1>3, <1>4 DEF Tracks
<1>6. q.sess_flag => \A i \in DOMAIN u : Found(q, u[i])
  BY <1>2, <1>3 DEF Tracks, SameMode
<1> QED BY <1>1, <1>3, <1>5, <1>6 DEF Tracks, SameMode

\* IInv in terms of the predicates above.
LEMMA InvParts ==
  IInv <=> /\ TypeOK /\ WellFormed(cache) /\ Holds(cache, stored)
           /\ LruOrder /\ Tracks(cache, touched)
BY DEF IInv, CacheWellFormed, ResidentIsLastStored, SessionKeepsAll, HistorySound, Tracks

\* The constructor and Init(sess_flag) leave an empty, sound cache.
LEMMA InitInv == Init => IInv
<1> SUFFICES ASSUME Init PROVE IInv
  OBVIOUS
<1>1. PICK sess \in BOOLEAN : cache = NewCache(sess)
  BY DEF Init
<1>2. /\ cache.list = <<>> /\ cache.iter = [k \in Keys |-> NoNode]
      /\ cache.sess_flag = sess
      /\ cache.capacity = IF sess THEN 1 ELSE kMaxLRUCacheNum
  BY <1>1 DEF NewCache
<1>3. cache \in Caches
  BY <1>1, CapacityAssumption DEF NewCache, Caches
<1>4. TypeOK
  BY <1>3 DEF Init, TypeOK
<1>5. \A k \in Keys : ~Found(cache, k)
  BY <1>2 DEF Found
<1>6. WellFormed(cache)
  BY <1>2, <1>5 DEF WellFormed, NodesDistinct, KeysDistinct, IndexSound, IndexComplete
<1>7. Holds(cache, stored) /\ Tracks(cache, touched)
  BY <1>2, <1>5 DEF Init, Holds, Tracks
<1>8. LruOrder
  BY <1>2, CapacityAssumption DEF Init, LruOrder, KeepsFirstOf
<1> QED BY <1>4, <1>6, <1>7, <1>8, InvParts

\* A lookup keeps the invariant, hit or miss, in both modes.
LEMMA GetStep ==
  ASSUME IInv, NEW k \in Keys, GetCache(k)
  PROVE  IInv' /\ SameMode(cache, cache')
<1>1. /\ cache \in Caches /\ touched \in Seq(Keys)
      /\ ret \in {<<>>} \cup (Keys \X (Data \cup {NoData}))
      /\ stored \in [Keys -> Data \cup {NoData}] /\ stored' = stored
      /\ WellFormed(cache) /\ Holds(cache, stored) /\ LruOrder
      /\ Tracks(cache, touched)
  BY InvParts DEF TypeOK, GetCache
<1>2. ret' \in {<<>>} \cup (Keys \X (Data \cup {NoData}))
  BY <1>1, AtFacts, CacheFacts DEF GetCache, GetResult
<1>3. CASE ~Found(cache, k)
  <2>1. cache' = cache /\ touched' = touched
    BY <1>3 DEF GetCache, AfterGet
  <2> QED BY <2>1, <1>1, <1>2, InvParts DEF TypeOK, IInv, CacheWellFormed,
             ResidentIsLastStored, SessionKeepsAll, HistorySound, Tracks, LruOrder, SameMode
<1>4. CASE Found(cache, k) /\ cache.sess_flag
  <2>1. cache' = cache /\ touched' = Lru!Promote(touched, k)
    BY <1>4 DEF GetCache, AfterGet
  <2>2. Tracks(cache, Lru!Promote(touched, k)) /\ Lru!Promote(touched, k) \in Seq(Keys)
    BY <1>1, <1>4, TracksAfterTouch DEF SameMode
  <2> QED BY <2>1, <2>2, <1>1, <1>2, <1>4, InvParts DEF TypeOK, IInv, CacheWellFormed,
             ResidentIsLastStored, SessionKeepsAll, HistorySound, Tracks, LruOrder, SameMode
<1>5. CASE Found(cache, k) /\ ~cache.sess_flag
  <2>1. cache' \in MovedToFront(cache, k) /\ touched' = Lru!Promote(touched, k)
    BY <1>5 DEF GetCache, AfterGet
  <2>2. /\ cache' \in Caches /\ WellFormed(cache') /\ SameMode(cache, cache')
        /\ \A x \in Keys : Found(cache', x) <=> Found(cache, x)
    BY <2>1, <1>1, <1>5, MoveFacts
  <2>3. Holds(cache', stored')
    BY <2>1, <1>1, <1>5, ValuesAfterMove
  <2>4. KeepsFirstOf(cache', touched')
    BY <2>1, <1>1, <1>5, OrderAfterMove DEF LruOrder, Tracks
  <2>5. Tracks(cache', touched') /\ touched' \in Seq(Keys)
    BY <2>1, <2>2, <1>1, <1>5, TracksAfterTouch
  <2> QED BY <2>2, <2>3, <2>4, <2>5, <1>1, <1>2 DEF TypeOK, IInv, CacheWellFormed,
             ResidentIsLastStored, SessionKeepsAll, HistorySound, Tracks, LruOrder, SameMode
<1> QED BY <1>3, <1>4, <1>5

\* A key that is not found enters a stream's cache at the front, and the least
\* recently used one has left when the cache held capacity_ + 1 of them.
LEMMA OrderAfterInsert ==
  ASSUME NEW c \in Caches, WellFormed(c), NEW k \in Keys, ~Found(c, k),
         ~c.sess_flag, NEW t \in Seq(Keys), KeepsFirstOf(c, t), Tracks(c, t),
         NEW b \in Caches, b = IF MustEvict(c) THEN PopBack(c) ELSE c,
         NEW q \in Caches, Len(q.list) = Len(b.list) + 1, q.list[1].key = k,
         \A j \in 1 .. Len(b.list) : q.list[j + 1] = b.list[j],
         NEW u, u = Lru!Promote(t, k)
  PROVE  KeepsFirstOf(q, u)
<1> DEFINE K == kMaxLRUCacheNum + 1
<1>1. /\ Len(c.list) \in Nat /\ DOMAIN c.list = 1 .. Len(c.list)
      /\ Len(t) \in Nat /\ DOMAIN t = 1 .. Len(t)
      /\ K \in Nat /\ K >= 2 /\ c.capacity + 1 = K
      /\ Len(c.list) = IF Len(t) <= K THEN Len(t) ELSE K
      /\ \A i \in 1 .. Len(c.list) : c.list[i].key = t[i]
  BY CacheFacts, CapacityAssumption DEF KeepsFirstOf, Tracks
<1>2. MustEvict(c) <=> Len(c.list) = K
  <2>1. c.capacity \in Nat /\ Len(c.list) <= K
    BY <1>1, CacheFacts
  <2> HIDE DEF K
  <2> QED BY <1>1, <2>1 DEF MustEvict
<1>3. /\ Len(b.list) \in Nat
      /\ Len(b.list) = IF Len(c.list) = K THEN K - 1 ELSE Len(c.list)
      /\ Len(b.list) <= Len(c.list)
      /\ \A i \in 1 .. Len(b.list) : b.list[i] = c.list[i]
  <2>1. CASE MustEvict(c)
    <3>1. c.list # <<>>
      BY <2>1, <1>1, <1>2
    <3>2. /\ Len(PopBack(c).list) = Len(c.list) - 1
          /\ \A j \in 1 .. Len(c.list) - 1 : PopBack(c).list[j] = c.list[j]
      BY <3>1, PopFacts
    <3>3. b = PopBack(c)
      BY <2>1
    <3> QED BY <2>1, <3>2, <3>3, <1>1, <1>2
  <2>2. CASE ~MustEvict(c)
    BY <2>2, <1>1, <1>2
  <2> QED BY <2>1, <2>2
<1>4. \A i \in 1 .. Len(c.list) : t[i] # k
  <2> SUFFICES ASSUME NEW i \in 1 .. Len(c.list), c.list[i].key = k PROVE FALSE
    BY <1>1
  <2> QED BY <1>1, NotFoundFacts DEF WellFormedBut
<1>5. /\ u[1] = k
      /\ \A x \in DOMAIN t : t[x] = k => MovedFrom(t, u, x)
      /\ (\A x \in DOMAIN t : t[x] # k) => Shifted(t, u)
  BY PromoteFacts DEF Tracks
<1> HIDE DEF K
<1> DEFINE lb == Len(b.list)
           lc == Len(c.list)
           lt == Len(t)
<1>10. /\ lb \in Nat /\ lc \in Nat /\ lt \in Nat /\ K \in Nat /\ K >= 2
       /\ lc = IF lt <= K THEN lt ELSE K
       /\ lb = IF lc = K THEN K - 1 ELSE lc
  BY <1>1, <1>3
<1> HIDE DEF lb, lc, lt
<1>11. /\ lb <= lt
       /\ lb + 1 = IF lt + 1 <= K THEN lt + 1 ELSE K
  BY <1>10
<1>6. /\ Len(q.list) = IF Len(u) <= K THEN Len(u) ELSE K
      /\ \A j \in 1 .. Len(b.list) : u[j + 1] = t[j]
  <2> DEFINE Goal == /\ Len(q.list) = IF Len(u) <= K THEN Len(u) ELSE K
                     /\ \A j \in 1 .. Len(b.list) : u[j + 1] = t[j]
  <2>1. ASSUME \A x \in DOMAIN t : t[x] # k PROVE Goal
    <3>1. Len(u) = Len(t) + 1 /\ \A j \in 1 .. Len(t) : u[j + 1] = t[j]
      BY <2>1, <1>5 DEF Shifted
    <3>2. Len(b.list) \in Nat /\ Len(t) \in Nat /\ Len(b.list) <= Len(t)
      BY <1>10, <1>11 DEF lb, lt
    <3>3. \A j \in 1 .. Len(b.list) : j \in 1 .. Len(t)
      BY <3>2
    <3>4. Len(q.list) = IF Len(u) <= K THEN Len(u) ELSE K
      BY <3>1, <1>11 DEF lb, lt
    <3> QED BY <3>1, <3>3, <3>4
  <2>2. ASSUME NEW x \in DOMAIN t, t[x] = k PROVE Goal
    <3>1. x > Len(c.list) /\ Len(c.list) = K /\ Len(t) > K /\ x <= Len(t)
      BY <2>2, <1>1, <1>4
    <3>2. /\ Len(u) = Len(t)
          /\ \A j \in 1 .. Len(t) - 1 : u[j + 1] = IF j < x THEN t[j] ELSE t[j + 1]
      BY <2>2, <1>5 DEF MovedFrom
    <3>3. \A j \in 1 .. Len(b.list) : j \in 1 .. Len(t) - 1 /\ j < x
      BY <3>1, <1>1, <1>3
    <3> QED BY <3>1, <3>2, <3>3, <1>1, <1>3
  <2> QED BY <2>1, <2>2
<1>7. DOMAIN q.list = 1 .. Len(b.list) + 1
  BY CacheFacts
<1>8. ASSUME NEW i \in 1 .. Len(b.list) + 1 PROVE q.list[i].key = u[i]
  <2>1. CASE i = 1
    BY <2>1, <1>5
  <2>2. CASE i # 1
    <3>0. Len(b.list) \in Nat /\ Len(c.list) \in Nat /\ Len(b.list) <= Len(c.list)
      BY <1>1, <1>3
    <3>1. i - 1 \in 1 .. Len(b.list) /\ (i - 1) + 1 = i /\ i - 1 \in 1 .. Len(c.list)
      BY <2>2, <3>0
    <3>2. q.list[i] = c.list[i - 1] /\ u[i] = t[i - 1]
      BY <3>1, <1>3, <1>6
    <3> QED BY <3>1, <3>2, <1>1
  <2> QED BY <2>1, <2>2
<1> QED BY <1>6, <1>7, <1>8 DEF KeepsFirstOf, K

\* The values of a cache into which a key that was not found has been pushed.
LEMMA ValuesAfterInsert ==
  ASSUME NEW b \in Caches, NEW k \in Keys, WellFormedBut(b, k), NEW d \in Data,
         NEW v \in [Keys -> Data \cup {NoData}], Holds(b, v),
         NEW q \in Caches, Len(q.list) = Len(b.list) + 1,
         q.list[1].key = k, q.list[1].data = d,
         \A j \in 1 .. Len(b.list) : q.list[j + 1] = b.list[j]
  PROVE  Holds(q, [v EXCEPT ![k] = d])
<1>1. /\ Len(b.list) \in Nat /\ DOMAIN b.list = 1 .. Len(b.list)
      /\ DOMAIN q.list = 1 .. Len(b.list) + 1
      /\ \A i \in 1 .. Len(b.list) : b.list[i].key \in Keys
  BY CacheFacts
<1>2. ASSUME NEW i \in 1 .. Len(b.list) + 1
      PROVE  q.list[i].data = [v EXCEPT ![k] = d][q.list[i].key]
  <2>1. CASE i = 1
    BY <2>1
  <2>2. CASE i # 1
    <3>1. i - 1 \in 1 .. Len(b.list) /\ (i - 1) + 1 = i
      BY <2>2, <1>1
    <3>2. q.list[i] = b.list[i - 1] /\ b.list[i - 1].key # k
          /\ b.list[i - 1].key \in Keys
      BY <3>1, <1>1 DEF WellFormedBut
    <3>3. b.list[i - 1].data = v[b.list[i - 1].key]
      BY <3>1, <1>1 DEF Holds
    <3> QED BY <3>2, <3>3
  <2> QED BY <2>1, <2>2
<1> QED BY <1>1, <1>2 DEF Holds

\* A store keeps the invariant: replacing, moving, inserting or evicting.
LEMMA SetStep ==
  ASSUME IInv, NEW k \in Keys, NEW d \in Data, SetCache(k, d)
  PROVE  IInv' /\ SameMode(cache, cache')
<1> DEFINE v == [stored EXCEPT ![k] = d]
           r == Replaced(cache, k, d)
           b == IF MustEvict(cache) THEN PopBack(cache) ELSE cache
           u == Lru!Promote(touched, k)
<1>1. /\ cache \in Caches /\ touched \in Seq(Keys)
      /\ ret \in {<<>>} \cup (Keys \X (Data \cup {NoData}))
      /\ stored \in [Keys -> Data \cup {NoData}]
      /\ WellFormed(cache) /\ Holds(cache, stored) /\ LruOrder
      /\ Tracks(cache, touched)
      /\ ret' = ret /\ touched' = u /\ stored' = v
  BY InvParts DEF TypeOK, SetCache
<1>2. v \in [Keys -> Data \cup {NoData}]
  BY <1>1
<1> HIDE DEF u
<1>3. SUFFICES /\ cache' \in Caches /\ WellFormed(cache') /\ SameMode(cache, cache')
               /\ Holds(cache', v)
               /\ ~cache.sess_flag => KeepsFirstOf(cache', u)
               /\ \A x \in Keys : Found(cache', x) => x = k \/ Found(cache, x)
               /\ cache'.sess_flag => \A x \in Keys : Found(cache, x) => Found(cache', x)
               /\ Found(cache', k)
  <2>1. Tracks(cache', u) /\ u \in Seq(Keys)
    BY <1>1, <1>3, TracksAfterTouch DEF u
  <2> QED BY <1>1, <1>2, <1>3, <2>1 DEF TypeOK, IInv, CacheWellFormed, SameMode,
             ResidentIsLastStored, SessionKeepsAll, HistorySound, Tracks, LruOrder, SameMode
<1>4. CASE Found(cache, k)
  <2>1. /\ r \in Caches /\ WellFormed(r) /\ SameMode(cache, r) /\ Found(r, k)
        /\ At(r, k) = At(cache, k) /\ Len(r.list) = Len(cache.list)
        /\ r.list[At(cache, k)].data = d
        /\ \A j \in 1 .. Len(cache.list) : r.list[j].key = cache.list[j].key
        /\ \A j \in 1 .. Len(cache.list) : j # At(cache, k) => r.list[j] = cache.list[j]
        /\ \A x \in Keys : Found(r, x) <=> Found(cache, x)
    BY <1>1, <1>4, ReplaceFacts
  <2>2. /\ Len(cache.list) \in Nat /\ DOMAIN cache.list = 1 .. Len(cache.list)
        /\ DOMAIN r.list = 1 .. Len(cache.list)
        /\ At(cache, k) \in 1 .. Len(cache.list)
        /\ \A i \in 1 .. Len(cache.list) :
             /\ cache.list[i].key \in Keys
             /\ cache.list[i].key = k <=> i = At(cache, k)
    BY <1>1, <1>4, <2>1, CacheFacts, AtFacts
  <2>3. cache.sess_flag => cache' = r
    BY <1>4 DEF SetCache, AfterSet
  <2>4. ~cache.sess_flag => cache' \in MovedToFront(r, k)
    BY <1>4 DEF SetCache, AfterSet
  <2> HIDE DEF r
  <2>5. Holds(r, v)
    <3> SUFFICES ASSUME NEW i \in 1 .. Len(cache.list)
                 PROVE  r.list[i].data = v[r.list[i].key]
      BY <2>2 DEF Holds
    <3>1. CASE i = At(cache, k)
      BY <3>1, <1>1, <2>1, <2>2
    <3>2. CASE i # At(cache, k)
      <4>1. r.list[i] = cache.list[i] /\ cache.list[i].key \in Keys \ {k}
        BY <3>2, <2>1, <2>2
      <4> QED BY <4>1, <1>1, <2>2 DEF Holds
    <3> QED BY <3>1, <3>2
  <2>6. KeepsFirstOf(cache, touched) => KeepsFirstOf(r, touched)
    BY <2>1, <2>2 DEF KeepsFirstOf
  <2> HIDE DEF v
  <2>7. CASE cache.sess_flag
    BY <2>7, <2>1, <2>3, <2>5
  <2>8. CASE ~cache.sess_flag
    <3>1. KeepsFirstOf(r, touched) /\ \A i, j \in DOMAIN touched : touched[i] = touched[j] => i = j
      BY <2>8, <1>1, <2>6 DEF LruOrder, Tracks
    <3>2. /\ cache' \in Caches /\ WellFormed(cache') /\ SameMode(r, cache')
          /\ \A x \in Keys : Found(cache', x) <=> Found(r, x)
      BY <2>1, <2>4, <2>8, MoveFacts
    <3>3. Holds(cache', v)
      BY <2>1, <2>4, <2>5, <2>8, ValuesAfterMove
    <3>4. KeepsFirstOf(cache', u)
      BY <1>1, <2>1, <2>4, <2>8, <3>1, OrderAfterMove DEF u
    <3> QED BY <2>1, <3>2, <3>3, <3>4 DEF SameMode
  <2> QED BY <2>7, <2>8
<1>5. CASE ~Found(cache, k)
  <2>1. /\ b \in Caches /\ WellFormed(b) /\ SameMode(cache, b) /\ ~Found(b, k)
        /\ Holds(b, stored)
        /\ \A x \in Keys : Found(b, x) => Found(cache, x)
        /\ cache.sess_flag => b = cache
    <3>1. CASE ~MustEvict(cache)
      BY <3>1, <1>1, <1>5 DEF SameMode
    <3>2. CASE MustEvict(cache)
      <4>1. cache.list # <<>> /\ ~cache.sess_flag
        BY <3>2, <1>1, CacheFacts DEF MustEvict
      <4>2. /\ b \in Caches /\ WellFormed(b) /\ SameMode(cache, b)
            /\ Len(b.list) = Len(cache.list) - 1
            /\ \A j \in 1 .. Len(cache.list) - 1 : b.list[j] = cache.list[j]
            /\ \A x \in Keys : ~Found(cache, x) => ~Found(b, x)
        BY <3>2, <4>1, <1>1, PopFacts
      <4>3. Holds(b, stored)
        <5>1. /\ DOMAIN b.list = 1 .. Len(cache.list) - 1
              /\ DOMAIN cache.list = 1 .. Len(cache.list) /\ Len(cache.list) \in Nat
          BY <4>2, <1>1, CacheFacts
        <5> HIDE DEF b
        <5>2. \A j \in 1 .. Len(cache.list) - 1 : j \in 1 .. Len(cache.list)
          BY <5>1
        <5> QED BY <5>1, <5>2, <4>2, <1>1 DEF Holds
      <4> QED BY <4>1, <4>2, <4>3, <1>5
    <3> QED BY <3>1, <3>2
  <2>2. PICK n \in FreeNodes(b) : cache' = PushFront(b, n, k, d)
    BY <1>5 DEF SetCache, AfterSet, PushedFront
  <2>3. b = IF MustEvict(cache) THEN PopBack(cache) ELSE cache
    OBVIOUS
  <2> HIDE DEF b
  <2>4. WellFormedBut(b, k)
    BY <2>1, NotFoundFacts
  <2>5. /\ cache' \in Caches /\ WellFormed(cache') /\ SameMode(b, cache')
        /\ Len(cache'.list) = Len(b.list) + 1
        /\ cache'.list[1].key = k /\ cache'.list[1].data = d
        /\ \A j \in 1 .. Len(b.list) : cache'.list[j + 1] = b.list[j]
        /\ \A x \in Keys : Found(cache', x) <=> x = k \/ Found(b, x)
    BY <2>1, <2>2, <2>4, PushFrontFacts
  <2>6. Holds(cache', v)
    BY <1>1, <2>1, <2>4, <2>5, ValuesAfterInsert
  <2>7. ~cache.sess_flag => KeepsFirstOf(cache', u)
    BY <1>1, <1>5, <2>1, <2>3, <2>5, OrderAfterInsert DEF LruOrder, u
  <2> QED BY <2>1, <2>5, <2>6, <2>7 DEF SameMode
<1> QED BY <1>4, <1>5

-----------------------------------------------------------------------------
\* GetCache and SetCache, called in any order by any threads, keep the cache and
\* its index sound, every entry current and, in a stream's cache, the
\* kMaxLRUCacheNum + 1 most recently used keys and no others.
THEOREM Invariant == Spec => []IInv
<1>1. IInv /\ [Next]_vars => IInv'
  <2> SUFFICES ASSUME IInv, [Next]_vars PROVE IInv'
    OBVIOUS
  <2>1. ASSUME NEW k \in Keys, GetCache(k) PROVE IInv'
    BY <2>1, GetStep
  <2>2. ASSUME NEW k \in Keys, NEW d \in Data, SetCache(k, d) PROVE IInv'
    BY <2>2, SetStep
  <2>3. CASE UNCHANGED vars
    BY <2>3 DEF vars, IInv, TypeOK, CacheWellFormed, ResidentIsLastStored, LruOrder,
                SessionKeepsAll, HistorySound
  <2> QED BY <2>1, <2>2, <2>3 DEF Next
<1> QED BY InitInv, <1>1, PTL DEF Spec

\* The invariants the runs check, one by one.
COROLLARY Safety ==
  Spec => [](TypeOK /\ CacheWellFormed /\ ResidentIsLastStored /\ LruOrder /\ SessionKeepsAll)
BY Invariant, PTL DEF IInv

\* A lookup finds a key exactly when an LRU of kMaxLRUCacheNum + 1 keys, or in
\* a session an unbounded map, would.
LEMMA FoundIsResident ==
  ASSUME IInv, NEW k \in Keys
  PROVE  /\ Found(cache, k) <=> Lru!Resident(k)
         /\ GetResult(cache, k) = IF Found(cache, k) THEN stored[k] ELSE NoData
<1>1. /\ cache \in Caches /\ touched \in Seq(Keys)
      /\ WellFormed(cache) /\ Holds(cache, stored) /\ LruOrder
      /\ Tracks(cache, touched)
  BY InvParts DEF TypeOK
<1>2. /\ Len(cache.list) \in Nat /\ DOMAIN cache.list = 1 .. Len(cache.list)
      /\ Len(touched) \in Nat /\ DOMAIN touched = 1 .. Len(touched)
      /\ \A i \in 1 .. Len(cache.list) : cache.list[i].node \in Nodes
  BY <1>1, CacheFacts
<1>3. ASSUME Found(cache, k)
      PROVE  Lru!Resident(k) /\ GetResult(cache, k) = stored[k]
  <2>1. At(cache, k) \in 1 .. Len(cache.list) /\ cache.list[At(cache, k)].key = k
    BY <1>1, <1>3, AtFacts
  <2>2. GetResult(cache, k) = stored[k]
    BY <2>1, <1>1, <1>2, <1>3 DEF GetResult, Holds
  <2>3. CASE cache.sess_flag
    BY <2>2, <2>3, <1>1, <1>3 DEF Tracks, Lru!Resident
  <2>4. CASE ~cache.sess_flag
    <3>1. /\ touched[At(cache, k)] = k /\ At(cache, k) \in DOMAIN touched
          /\ At(cache, k) <= kMaxLRUCacheNum + 1
      BY <2>1, <2>4, <1>1, <1>2, CapacityAssumption DEF LruOrder, KeepsFirstOf
    <3> QED BY <2>2, <3>1 DEF Lru!Resident
  <2> QED BY <2>2, <2>3, <2>4
<1>4. ASSUME Lru!Resident(k) PROVE Found(cache, k)
  <2>1. PICK i \in DOMAIN touched :
          touched[i] = k /\ (cache.sess_flag \/ i <= kMaxLRUCacheNum + 1)
    BY <1>4 DEF Lru!Resident
  <2>2. CASE cache.sess_flag
    BY <2>1, <2>2, <1>1 DEF Tracks
  <2>3. CASE ~cache.sess_flag
    <3>1. i \in 1 .. Len(cache.list) /\ cache.list[i].key = k
      BY <2>1, <2>3, <1>1, <1>2, CapacityAssumption DEF LruOrder, KeepsFirstOf
    <3>2. cache.iter[k] = cache.list[i].node
      BY <3>1, <1>1, <1>2 DEF WellFormed, IndexComplete
    <3> QED BY <3>1, <3>2, <1>2, NullAssumption DEF Found
  <2> QED BY <2>2, <2>3
<1> QED BY <1>3, <1>4 DEF GetResult

\* Every call of the cache is a step of LruCache: the 257-entry list with its
\* index answers exactly as the LRU specification says.
THEOREM Implements == Spec => LruSpec
<1>1. Init => Lru!LruInit
  BY DEF Init, NewCache, Lru!LruInit
<1>2. IInv /\ [Next]_vars => [Lru!LruNext]_(Lru!lruVars)
  <2> SUFFICES ASSUME IInv, [Next]_vars PROVE [Lru!LruNext]_(Lru!lruVars)
    OBVIOUS
  <2>1. ASSUME NEW k \in Keys, GetCache(k) PROVE Lru!LruNext
    <3>1. cache'.sess_flag = cache.sess_flag
      BY <2>1, GetStep DEF SameMode
    <3>2. Lru!Hit(k) \/ Lru!Miss(k)
      BY <2>1, <3>1, FoundIsResident DEF GetCache, Lru!Hit, Lru!Miss
    <3> QED BY <3>2 DEF Lru!LruNext
  <2>2. ASSUME NEW k \in Keys, NEW d \in Data, SetCache(k, d) PROVE Lru!LruNext
    <3>1. cache'.sess_flag = cache.sess_flag
      BY <2>2, SetStep DEF SameMode
    <3>2. Lru!Store(k, d)
      BY <2>2, <3>1 DEF SetCache, Lru!Store
    <3> QED BY <3>2 DEF Lru!LruNext
  <2>3. CASE UNCHANGED vars
    BY <2>3 DEF vars, Lru!lruVars
  <2> QED BY <2>1, <2>2, <2>3 DEF Next
<1> QED BY Invariant, <1>1, <1>2, PTL DEF Spec, LruSpec, Lru!LruSpec
=============================================================================
