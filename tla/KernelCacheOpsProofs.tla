----------------------- MODULE KernelCacheOpsProofs -----------------------
(***************************************************************************)
(* What the operations of one KernelCache object do to its list and its     *)
(* index, for every set of keys, values and nodes and every capacity.       *)
(***************************************************************************)
EXTENDS KernelCacheOps, SequenceTheorems, TLAPS

\* list::erase: what RemoveAt leaves of a sequence.
LEMMA RemoveAtFacts ==
  ASSUME NEW S, NEW s \in Seq(S), NEW i \in DOMAIN s
  PROVE  /\ RemoveAt(s, i) \in Seq(S)
         /\ Len(RemoveAt(s, i)) = Len(s) - 1
         /\ \A j \in 1 .. Len(s) - 1 :
              RemoveAt(s, i)[j] = IF j < i THEN s[j] ELSE s[j + 1]
<1> DEFINE a == SubSeq(s, 1, i - 1)
           b == SubSeq(s, i + 1, Len(s))
<1>1. i \in 1 .. Len(s) /\ Len(s) \in Nat /\ \A j \in 1 .. Len(s) : s[j] \in S
  OBVIOUS
<1>2. /\ a \in Seq(S) /\ Len(a) = i - 1
      /\ \A j \in 1 .. i - 1 : a[j] = s[j]
  BY <1>1, SubSeqProperties
<1>3. /\ b \in Seq(S) /\ Len(b) = Len(s) - i
      /\ \A j \in 1 .. Len(s) - i : b[j] = s[i + j]
  <2>1. \A j \in i + 1 .. Len(s) : s[j] \in S
    BY <1>1
  <2> QED BY <1>1, <2>1, SubSeqProperties
<1>4. RemoveAt(s, i) = a \o b
  BY DEF RemoveAt
<1> HIDE DEF a, b
<1> QED
  BY <1>1, <1>2, <1>3, <1>4, ConcatProperties

\* list::push_front: what prefixing a sequence makes of it.
LEMMA PrependFacts ==
  ASSUME NEW S, NEW s \in Seq(S), NEW e \in S
  PROVE  /\ <<e>> \o s \in Seq(S)
         /\ Len(<<e>> \o s) = Len(s) + 1
         /\ (<<e>> \o s)[1] = e
         /\ \A j \in 1 .. Len(s) : (<<e>> \o s)[j + 1] = s[j]
  OBVIOUS

\* list::pop_back and back: what Front and Last return of a list that is not empty.
LEMMA PopBackFacts ==
  ASSUME NEW S, NEW s \in Seq(S), s # <<>>
  PROVE  /\ Front(s) \in Seq(S)
         /\ Len(Front(s)) = Len(s) - 1
         /\ \A j \in 1 .. Len(s) - 1 : Front(s)[j] = s[j]
         /\ Len(s) \in 1 .. Len(s) /\ Last(s) = s[Len(s)]
<1>1. Len(s) \in Nat \ {0} /\ \A j \in 1 .. Len(s) - 1 : s[j] \in S
  OBVIOUS
<1>2. /\ SubSeq(s, 1, Len(s) - 1) \in Seq(S)
      /\ Len(SubSeq(s, 1, Len(s) - 1)) = Len(s) - 1
      /\ \A j \in 1 .. Len(s) - 1 : SubSeq(s, 1, Len(s) - 1)[j] = s[j]
  <2> DEFINE n == Len(s) - 1
  <2>1. n \in Nat /\ \A j \in 1 .. n : s[j] \in S
    BY <1>1
  <2> HIDE DEF n
  <2>2. /\ SubSeq(s, 1, n) \in Seq(S)
        /\ Len(SubSeq(s, 1, n)) = IF 1 <= n THEN n - 1 + 1 ELSE 0
        /\ \A j \in 1 .. n - 1 + 1 : SubSeq(s, 1, n)[j] = s[1 + j - 1]
    BY <2>1, SubSeqProperties
  <2>3. /\ SubSeq(s, 1, n) \in Seq(S) /\ Len(SubSeq(s, 1, n)) = n
        /\ \A j \in 1 .. n : SubSeq(s, 1, n)[j] = s[j]
    BY <2>1, <2>2
  <2> QED BY <2>3 DEF n
<1>3. Front(s) = SubSeq(s, 1, Len(s) - 1) /\ Last(s) = s[Len(s)]
  BY DEF Front, Last
<1> HIDE DEF Front, Last
<1> QED BY <1>1, <1>2, <1>3

-----------------------------------------------------------------------------
\* A cache from which the entry of k is missing, whatever the index says of k:
\* the state between an erase, or a lookup that failed, and the push_front.
WellFormedBut(c, k) ==
  /\ NodesDistinct(c) /\ KeysDistinct(c) /\ IndexComplete(c)
  /\ \A i \in DOMAIN c.list : c.list[i].key # k
  /\ \A x \in Keys \ {k} : Found(c, x) =>
       \E i \in DOMAIN c.list : c.list[i].key = x /\ c.list[i].node = c.iter[x]

\* The parts of a cache and the shape of its entries.
LEMMA CacheFacts ==
  ASSUME NEW c \in Caches
  PROVE  /\ c.list \in Seq(Entries) /\ c.iter \in [Keys -> Nodes \cup {NoNode}]
         /\ c.sess_flag \in BOOLEAN /\ c.capacity \in Nat
         /\ DOMAIN c.list = 1 .. Len(c.list) /\ Len(c.list) \in Nat
         /\ \A i \in 1 .. Len(c.list) :
              /\ c.list[i] \in Entries /\ c.list[i].node \in Nodes
              /\ c.list[i].key \in Keys /\ c.list[i].data \in Data
<1>1. /\ c.list \in Seq(Entries) /\ c.iter \in [Keys -> Nodes \cup {NoNode}]
      /\ c.sess_flag \in BOOLEAN /\ c.capacity \in Nat
  BY DEF Caches
<1>2. DOMAIN c.list = 1 .. Len(c.list) /\ Len(c.list) \in Nat
  BY <1>1
<1>3. \A i \in 1 .. Len(c.list) : c.list[i] \in Entries
  BY <1>1
<1>4. \A e \in Entries : e.node \in Nodes /\ e.key \in Keys /\ e.data \in Data
  BY DEF Entries
<1> QED BY <1>1, <1>2, <1>3, <1>4

\* An index entry leads to the one node of its key.
LEMMA AtFacts ==
  ASSUME NEW c \in Caches, WellFormed(c), NEW k \in Keys, Found(c, k)
  PROVE  /\ At(c, k) \in 1 .. Len(c.list)
         /\ c.list[At(c, k)].key = k
         /\ \A i \in 1 .. Len(c.list) : c.list[i].key = k => i = At(c, k)
<1>1. DOMAIN c.list = 1 .. Len(c.list)
  BY CacheFacts
<1>2. PICK i \in DOMAIN c.list : c.list[i].key = k /\ c.list[i].node = c.iter[k]
  BY DEF WellFormed, IndexSound
<1>3. At(c, k) \in DOMAIN c.list /\ c.list[At(c, k)].node = c.iter[k]
  BY <1>2 DEF At
<1>4. At(c, k) = i
  BY <1>2, <1>3 DEF WellFormed, NodesDistinct
<1> QED BY <1>1, <1>2, <1>4 DEF WellFormed, KeysDistinct

\* A key that is not found has no node.
LEMMA NotFoundFacts ==
  ASSUME NEW c \in Caches, WellFormed(c), NEW k \in Keys, ~Found(c, k)
  PROVE  WellFormedBut(c, k)
<1>1. \A i \in DOMAIN c.list : c.list[i].node \in Nodes
  BY CacheFacts
<1>2. \A i \in DOMAIN c.list : c.list[i].key # k
  BY <1>1, NullAssumption DEF WellFormed, IndexComplete, Found
<1> QED BY <1>2 DEF WellFormed, WellFormedBut, IndexSound

\* Erasing the node of k leaves every other key as it was.
LEMMA EraseFacts ==
  ASSUME NEW c \in Caches, WellFormed(c), NEW k \in Keys, Found(c, k)
  PROVE  /\ Erase(c, At(c, k)) \in Caches
         /\ WellFormedBut(Erase(c, At(c, k)), k)
         /\ Len(Erase(c, At(c, k)).list) = Len(c.list) - 1
         /\ \A j \in 1 .. Len(c.list) - 1 : Erase(c, At(c, k)).list[j] =
              IF j < At(c, k) THEN c.list[j] ELSE c.list[j + 1]
<1> DEFINE p == At(c, k)
           r == Erase(c, At(c, k))
<1>1. /\ c.list \in Seq(Entries) /\ c.iter \in [Keys -> Nodes \cup {NoNode}]
      /\ c.sess_flag \in BOOLEAN /\ c.capacity \in Nat
      /\ DOMAIN c.list = 1 .. Len(c.list) /\ Len(c.list) \in Nat
  BY CacheFacts
<1>2. /\ p \in 1 .. Len(c.list) /\ c.list[p].key = k
      /\ \A i \in 1 .. Len(c.list) : c.list[i].key = k => i = p
  BY AtFacts
<1>3. /\ r.list = RemoveAt(c.list, p) /\ r.iter = c.iter
      /\ r.sess_flag = c.sess_flag /\ r.capacity = c.capacity
      /\ r = [c EXCEPT !.list = RemoveAt(c.list, p)]
  BY DEF Caches, Erase
<1> HIDE DEF p, r
<1>4. /\ r.list \in Seq(Entries) /\ Len(r.list) = Len(c.list) - 1
      /\ \A j \in 1 .. Len(c.list) - 1 :
           r.list[j] = IF j < p THEN c.list[j] ELSE c.list[j + 1]
  <2> DEFINE s == RemoveAt(c.list, p)
  <2>1. /\ s \in Seq(Entries) /\ Len(s) = Len(c.list) - 1
        /\ \A j \in 1 .. Len(c.list) - 1 :
             s[j] = IF j < p THEN c.list[j] ELSE c.list[j + 1]
    BY <1>1, <1>2, RemoveAtFacts
  <2>2. r.list = s
    BY <1>3
  <2> HIDE DEF s
  <2> QED BY <2>1, <2>2
<1>5. r \in Caches
  BY <1>1, <1>3, <1>4 DEF Caches
<1>6. \A j \in 1 .. Len(r.list) : \E i \in 1 .. Len(c.list) \ {p} :
        r.list[j] = c.list[i] /\ i = IF j < p THEN j ELSE j + 1
  BY <1>1, <1>2, <1>4
<1>7. \A i \in 1 .. Len(c.list) \ {p} :
        \E j \in 1 .. Len(r.list) : r.list[j] = c.list[i]
  <2> TAKE i \in 1 .. Len(c.list) \ {p}
  <2>1. CASE i < p
    BY <1>1, <1>2, <1>4, <2>1
  <2>2. CASE i > p
    <3>1. i - 1 \in 1 .. Len(r.list) /\ r.list[i - 1] = c.list[(i - 1) + 1]
      BY <1>1, <1>2, <1>4, <2>2
    <3> QED BY <3>1, <1>1
  <2> QED BY <1>1, <1>2, <2>1, <2>2
<1>8. WellFormedBut(r, k)
  <2>1. DOMAIN r.list = 1 .. Len(r.list)
    BY <1>4
  <2>2. NodesDistinct(r) /\ KeysDistinct(r)
    <3> SUFFICES ASSUME NEW i \in 1 .. Len(r.list), NEW j \in 1 .. Len(r.list),
                        \/ r.list[i].node = r.list[j].node
                        \/ r.list[i].key = r.list[j].key
                 PROVE  i = j
      BY <2>1 DEF NodesDistinct, KeysDistinct
    <3>1. PICK x \in 1 .. Len(c.list) :
            r.list[i] = c.list[x] /\ x = IF i < p THEN i ELSE i + 1
      BY <1>6
    <3>2. PICK y \in 1 .. Len(c.list) :
            r.list[j] = c.list[y] /\ y = IF j < p THEN j ELSE j + 1
      BY <1>6
    <3>3. x = y
      BY <1>1, <3>1, <3>2 DEF WellFormed, NodesDistinct, KeysDistinct
    <3> QED BY <3>1, <3>2, <3>3, <1>2, <1>4, <1>1
  <2>3. IndexComplete(r) /\ \A i \in DOMAIN r.list : r.list[i].key # k
    <3> SUFFICES ASSUME NEW i \in 1 .. Len(r.list)
                 PROVE  r.list[i].key # k /\ r.iter[r.list[i].key] = r.list[i].node
      BY <2>1 DEF IndexComplete
    <3>1. PICK x \in 1 .. Len(c.list) \ {p} : r.list[i] = c.list[x]
      BY <1>6
    <3>2. c.list[x].key # k /\ c.iter[c.list[x].key] = c.list[x].node
      BY <1>1, <1>2, <3>1 DEF WellFormed, IndexComplete
    <3> QED BY <3>1, <3>2, <1>3
  <2>4. ASSUME NEW x \in Keys \ {k}, Found(r, x)
        PROVE  \E i \in DOMAIN r.list : r.list[i].key = x /\ r.list[i].node = r.iter[x]
    <3>1. PICK i \in 1 .. Len(c.list) : c.list[i].key = x /\ c.list[i].node = c.iter[x]
      BY <1>1, <1>3, <2>4 DEF WellFormed, IndexSound, Found
    <3>2. i # p
      BY <3>1, <1>2, <2>4
    <3> QED BY <3>1, <3>2, <1>3, <1>7, <2>1
  <2> QED BY <2>2, <2>3, <2>4 DEF WellFormedBut
<1> QED BY <1>4, <1>5, <1>8 DEF r, p

\* What of a cache no operation changes.
SameMode(c, q) == q.sess_flag = c.sess_flag /\ q.capacity = c.capacity

\* push_front of a key without a node, with its index entry, repairs the index.
LEMMA PushFrontFacts ==
  ASSUME NEW c \in Caches, NEW k \in Keys, WellFormedBut(c, k),
         NEW d \in Data, NEW n \in FreeNodes(c)
  PROVE  LET q == PushFront(c, n, k, d)
         IN  /\ q \in Caches /\ WellFormed(q) /\ SameMode(c, q)
             /\ Len(q.list) = Len(c.list) + 1
             /\ q.list[1].key = k /\ q.list[1].data = d
             /\ \A j \in 1 .. Len(c.list) : q.list[j + 1] = c.list[j]
             /\ \A x \in Keys : Found(q, x) <=> x = k \/ Found(c, x)
<1> DEFINE e == [node |-> n, key |-> k, data |-> d]
           l == <<e>> \o c.list
           q == PushFront(c, n, k, d)
<1>1. /\ c.list \in Seq(Entries) /\ c.iter \in [Keys -> Nodes \cup {NoNode}]
      /\ c.sess_flag \in BOOLEAN /\ c.capacity \in Nat
      /\ DOMAIN c.list = 1 .. Len(c.list) /\ Len(c.list) \in Nat
      /\ \A i \in 1 .. Len(c.list) : c.list[i].node \in Nodes /\ c.list[i].key \in Keys
  BY CacheFacts
<1>2. n \in Nodes /\ \A i \in 1 .. Len(c.list) : c.list[i].node # n
  BY <1>1 DEF FreeNodes
<1>3. e \in Entries /\ e.node = n /\ e.key = k /\ e.data = d
  BY <1>2 DEF Entries
<1> HIDE DEF e
<1>4. /\ l \in Seq(Entries) /\ Len(l) = Len(c.list) + 1 /\ l[1] = e
      /\ \A j \in 1 .. Len(c.list) : l[j + 1] = c.list[j]
  BY <1>1, <1>3, PrependFacts
<1>5. /\ q \in Caches
      /\ q.list = l /\ q.iter = [c.iter EXCEPT ![k] = n]
      /\ q.sess_flag = c.sess_flag /\ q.capacity = c.capacity
  <2> DEFINE f == [c.iter EXCEPT ![k] = n]
  <2>1. q = [c EXCEPT !.list = l, !.iter = f]
    BY DEF PushFront, e
  <2>2. f \in [Keys -> Nodes \cup {NoNode}]
    BY <1>1, <1>2
  <2> HIDE DEF q, l, f
  <2>3. /\ q \in Caches /\ q.list = l /\ q.iter = f
        /\ q.sess_flag = c.sess_flag /\ q.capacity = c.capacity
    BY <1>4, <2>1, <2>2 DEF Caches
  <2> QED BY <2>3 DEF f
<1> HIDE DEF l, q
<1>7. q.iter[k] = n /\ \A x \in Keys \ {k} : q.iter[x] = c.iter[x]
  BY <1>1, <1>5
<1>8. /\ q.list \in Seq(Entries) /\ Len(q.list) = Len(c.list) + 1 /\ q.list[1] = e
      /\ \A j \in 1 .. Len(c.list) : q.list[j + 1] = c.list[j]
      /\ DOMAIN q.list = 1 .. Len(c.list) + 1
  BY <1>4, <1>5
<1>9. \A j \in 1 .. Len(c.list) + 1 : j # 1 => j - 1 \in 1 .. Len(c.list) /\ q.list[j] = c.list[j - 1]
  BY <1>1, <1>8
<1>10. NodesDistinct(q) /\ KeysDistinct(q)
  <2> SUFFICES ASSUME NEW i \in 1 .. Len(c.list) + 1, NEW j \in 1 .. Len(c.list) + 1,
                      \/ q.list[i].node = q.list[j].node
                      \/ q.list[i].key = q.list[j].key
               PROVE  i = j
    BY <1>8 DEF NodesDistinct, KeysDistinct
  <2>1. CASE i = 1 \/ j = 1
    <3>1. q.list[1].node = n /\ q.list[1].key = k
      BY <1>3, <1>8
    <3>2. \A x \in 1 .. Len(c.list) + 1 : x # 1 => q.list[x].node # n /\ q.list[x].key # k
      <4>1. \A x \in 1 .. Len(c.list) : c.list[x].node # n /\ c.list[x].key # k
        BY <1>1, <1>2 DEF WellFormedBut
      <4> QED BY <4>1, <1>9
    <3> QED BY <2>1, <3>1, <3>2
  <2>2. CASE i # 1 /\ j # 1
    <3>1. /\ i - 1 \in 1 .. Len(c.list) /\ q.list[i] = c.list[i - 1]
          /\ j - 1 \in 1 .. Len(c.list) /\ q.list[j] = c.list[j - 1]
      BY <2>2, <1>9
    <3>2. i - 1 = j - 1
      BY <3>1, <1>1 DEF WellFormedBut, NodesDistinct, KeysDistinct
    <3> QED BY <3>2
  <2> QED BY <2>1, <2>2
<1>11. IndexComplete(q)
  <2> SUFFICES ASSUME NEW i \in 1 .. Len(c.list) + 1
               PROVE  q.iter[q.list[i].key] = q.list[i].node
    BY <1>8 DEF IndexComplete
  <2>1. CASE i = 1
    BY <2>1, <1>3, <1>7, <1>8
  <2>2. CASE i # 1
    <3>1. /\ i - 1 \in 1 .. Len(c.list) /\ q.list[i] = c.list[i - 1]
          /\ c.list[i - 1].key \in Keys \ {k}
      BY <2>2, <1>1, <1>9 DEF WellFormedBut
    <3> QED BY <3>1, <1>1, <1>7 DEF WellFormedBut, IndexComplete
  <2> QED BY <2>1, <2>2
<1>12. IndexSound(q)
  <2> SUFFICES ASSUME NEW x \in Keys, Found(q, x)
               PROVE  \E i \in 1 .. Len(c.list) + 1 :
                        q.list[i].key = x /\ q.list[i].node = q.iter[x]
    BY <1>8 DEF IndexSound
  <2>1. CASE x = k
    BY <2>1, <1>1, <1>3, <1>7, <1>8
  <2>2. CASE x # k
    <3>1. PICK i \in 1 .. Len(c.list) : c.list[i].key = x /\ c.list[i].node = c.iter[x]
      BY <2>2, <1>1, <1>7 DEF WellFormedBut, Found
    <3>2. i + 1 \in 1 .. Len(c.list) + 1
      BY <1>1
    <3> QED BY <2>2, <3>1, <3>2, <1>7, <1>8
  <2> QED BY <2>1, <2>2
<1>13. \A x \in Keys : Found(q, x) <=> x = k \/ Found(c, x)
  BY <1>2, <1>7, NullAssumption DEF Found
<1> QED BY <1>3, <1>5, <1>8, <1>10, <1>11, <1>12, <1>13 DEF WellFormed, SameMode, q

\* The eviction takes the last node and the index entry of its key, no other.
LEMMA PopFacts ==
  ASSUME NEW c \in Caches, WellFormed(c), c.list # <<>>
  PROVE  LET q == PopBack(c)
         IN  /\ q \in Caches /\ WellFormed(q) /\ SameMode(c, q)
             /\ Len(q.list) = Len(c.list) - 1
             /\ \A j \in 1 .. Len(c.list) - 1 : q.list[j] = c.list[j]
             /\ \A x \in Keys : ~Found(c, x) => ~Found(q, x)
<1> DEFINE q == PopBack(c)
           last == Last(c.list).key
<1>1. /\ c.list \in Seq(Entries) /\ c.iter \in [Keys -> Nodes \cup {NoNode}]
      /\ c.sess_flag \in BOOLEAN /\ c.capacity \in Nat
      /\ DOMAIN c.list = 1 .. Len(c.list) /\ Len(c.list) \in Nat
      /\ \A i \in 1 .. Len(c.list) : c.list[i].node \in Nodes /\ c.list[i].key \in Keys
  BY CacheFacts
<1>2. /\ Front(c.list) \in Seq(Entries) /\ Len(Front(c.list)) = Len(c.list) - 1
      /\ \A j \in 1 .. Len(c.list) - 1 : Front(c.list)[j] = c.list[j]
      /\ Len(c.list) \in 1 .. Len(c.list) /\ last = c.list[Len(c.list)].key
  BY <1>1, PopBackFacts
<1> HIDE DEF last
<1>3. last \in Keys
  BY <1>1, <1>2
<1>4. /\ q \in Caches
      /\ q.list = Front(c.list) /\ q.iter = [c.iter EXCEPT ![last] = NoNode]
      /\ q.sess_flag = c.sess_flag /\ q.capacity = c.capacity
  <2> DEFINE f == [c.iter EXCEPT ![last] = NoNode]
             l == Front(c.list)
  <2>1. q = [c EXCEPT !.list = l, !.iter = f]
    BY DEF PopBack, last
  <2>2. f \in [Keys -> Nodes \cup {NoNode}] /\ l \in Seq(Entries)
    BY <1>1, <1>2
  <2> HIDE DEF q, l, f
  <2>3. /\ q \in Caches /\ q.list = l /\ q.iter = f
        /\ q.sess_flag = c.sess_flag /\ q.capacity = c.capacity
    BY <2>1, <2>2 DEF Caches
  <2> QED BY <2>3 DEF f, l
<1> HIDE DEF q
<1>5. q.iter[last] = NoNode /\ \A x \in Keys \ {last} : q.iter[x] = c.iter[x]
  BY <1>1, <1>3, <1>4
<1>6. /\ Len(q.list) = Len(c.list) - 1 /\ DOMAIN q.list = 1 .. Len(c.list) - 1
      /\ \A j \in 1 .. Len(c.list) - 1 : q.list[j] = c.list[j] /\ q.list[j].key # last
  <2>1. /\ Len(q.list) = Len(c.list) - 1 /\ DOMAIN q.list = 1 .. Len(c.list) - 1
        /\ \A j \in 1 .. Len(c.list) - 1 : q.list[j] = c.list[j]
    BY <1>2, <1>4
  <2>2. ASSUME NEW j \in 1 .. Len(c.list) - 1  PROVE c.list[j].key # last
    <3>1. j \in 1 .. Len(c.list) /\ j # Len(c.list)
      BY <1>1
    <3> QED BY <3>1, <1>1, <1>2 DEF WellFormed, KeysDistinct
  <2> QED BY <2>1, <2>2
<1>7. NodesDistinct(q) /\ KeysDistinct(q) /\ IndexComplete(q)
  <2>1. \A j \in 1 .. Len(c.list) - 1 : j \in 1 .. Len(c.list)
    BY <1>1
  <2>2. NodesDistinct(q) /\ KeysDistinct(q)
    BY <1>1, <1>6, <2>1 DEF WellFormed, NodesDistinct, KeysDistinct
  <2>3. IndexComplete(q)
    BY <1>1, <1>5, <1>6, <2>1 DEF WellFormed, IndexComplete
  <2> QED BY <2>2, <2>3
<1>8. IndexSound(q)
  <2> SUFFICES ASSUME NEW x \in Keys, Found(q, x)
               PROVE  \E i \in 1 .. Len(c.list) - 1 :
                        q.list[i].key = x /\ q.list[i].node = q.iter[x]
    BY <1>6 DEF IndexSound
  <2>1. x # last /\ q.iter[x] = c.iter[x]
    BY <1>5 DEF Found
  <2>2. PICK i \in 1 .. Len(c.list) : c.list[i].key = x /\ c.list[i].node = c.iter[x]
    BY <2>1, <1>1 DEF WellFormed, IndexSound, Found
  <2>3. i # Len(c.list)
    BY <2>1, <2>2, <1>2
  <2> QED BY <2>1, <2>2, <2>3, <1>1, <1>6
<1>9. \A x \in Keys : ~Found(c, x) => ~Found(q, x)
  BY <1>5 DEF Found
<1> QED BY <1>4, <1>6, <1>7, <1>8, <1>9 DEF WellFormed, SameMode, q

\* A hit, or a replaced value, in a stream's cache: the entry moves to the
\* front and the others keep their order.
LEMMA MoveFacts ==
  ASSUME NEW c \in Caches, WellFormed(c), NEW k \in Keys, Found(c, k),
         NEW q \in MovedToFront(c, k)
  PROVE  /\ q \in Caches /\ WellFormed(q) /\ SameMode(c, q)
         /\ Len(q.list) = Len(c.list)
         /\ q.list[1].key = k /\ q.list[1].data = c.list[At(c, k)].data
         /\ \A j \in 1 .. Len(c.list) - 1 : q.list[j + 1] =
              IF j < At(c, k) THEN c.list[j] ELSE c.list[j + 1]
         /\ \A x \in Keys : Found(q, x) <=> Found(c, x)
<1> DEFINE p == At(c, k)
           r == Erase(c, p)
           d == c.list[p].data
<1>1. p \in 1 .. Len(c.list) /\ Len(c.list) \in Nat /\ d \in Data
  BY AtFacts, CacheFacts
<1>2. /\ r \in Caches /\ WellFormedBut(r, k)
      /\ Len(r.list) = Len(c.list) - 1
      /\ \A j \in 1 .. Len(c.list) - 1 : r.list[j] =
           IF j < p THEN c.list[j] ELSE c.list[j + 1]
  BY EraseFacts
<1>3. SameMode(c, r) /\ \A x \in Keys : Found(c, x) <=> Found(r, x)
  BY DEF SameMode, Erase, Caches, Found
<1>4. PICK n \in FreeNodes(r) : q = PushFront(r, n, k, d)
  BY DEF MovedToFront, PushedFront
<1> HIDE DEF p, r, d
<1>5. /\ q \in Caches /\ WellFormed(q) /\ SameMode(r, q)
      /\ Len(q.list) = Len(r.list) + 1
      /\ q.list[1].key = k /\ q.list[1].data = d
      /\ \A j \in 1 .. Len(r.list) : q.list[j + 1] = r.list[j]
      /\ \A x \in Keys : Found(q, x) <=> x = k \/ Found(r, x)
  BY <1>1, <1>2, <1>4, PushFrontFacts
<1> QED BY <1>1, <1>2, <1>3, <1>5 DEF SameMode, p, d

\* The value of a key already cached is replaced in its node.
LEMMA ReplaceFacts ==
  ASSUME NEW c \in Caches, WellFormed(c), NEW k \in Keys, Found(c, k), NEW d \in Data
  PROVE  LET r == Replaced(c, k, d)
         IN  /\ r \in Caches /\ WellFormed(r) /\ SameMode(c, r) /\ Found(r, k)
             /\ At(r, k) = At(c, k) /\ Len(r.list) = Len(c.list)
             /\ r.list[At(c, k)].data = d
             /\ \A j \in 1 .. Len(c.list) : r.list[j].key = c.list[j].key
             /\ \A j \in 1 .. Len(c.list) : j # At(c, k) => r.list[j] = c.list[j]
             /\ \A x \in Keys : Found(r, x) <=> Found(c, x)
<1> DEFINE p == At(c, k)
           e == [c.list[p] EXCEPT !.data = d]
           l == [c.list EXCEPT ![p] = e]
           r == Replaced(c, k, d)
<1>1. /\ c.list \in Seq(Entries) /\ c.iter \in [Keys -> Nodes \cup {NoNode}]
      /\ c.sess_flag \in BOOLEAN /\ c.capacity \in Nat
      /\ DOMAIN c.list = 1 .. Len(c.list) /\ Len(c.list) \in Nat
      /\ p \in 1 .. Len(c.list) /\ c.list[p] \in Entries
  BY AtFacts, CacheFacts
<1>2. /\ e \in Entries /\ e.data = d /\ e.key = c.list[p].key /\ e.node = c.list[p].node
  BY <1>1 DEF Entries
<1>3. r = [c EXCEPT !.list = l]
  BY DEF Replaced
<1> HIDE DEF p, e
<1>4. /\ l \in Seq(Entries) /\ Len(l) = Len(c.list) /\ l[p] = e
      /\ \A j \in 1 .. Len(c.list) : j # p => l[j] = c.list[j]
      /\ DOMAIN l = 1 .. Len(c.list)
  BY <1>1, <1>2, ExceptSeq
<1> HIDE DEF l, r
<1>5. /\ r \in Caches /\ r.list = l /\ r.iter = c.iter
      /\ r.sess_flag = c.sess_flag /\ r.capacity = c.capacity
  BY <1>1, <1>3, <1>4 DEF Caches
<1>6. \A j \in 1 .. Len(c.list) : l[j].key = c.list[j].key /\ l[j].node = c.list[j].node
  BY <1>2, <1>4
<1>7. WellFormed(r)
  <2>1. NodesDistinct(r) /\ KeysDistinct(r)
    BY <1>1, <1>4, <1>5, <1>6 DEF WellFormed, NodesDistinct, KeysDistinct
  <2>2. IndexComplete(r) /\ IndexSound(r)
    BY <1>1, <1>4, <1>5, <1>6 DEF WellFormed, IndexComplete, IndexSound, Found
  <2> QED BY <2>1, <2>2 DEF WellFormed
<1>8. Found(r, k) /\ \A x \in Keys : Found(r, x) <=> Found(c, x)
  BY <1>5 DEF Found
<1>9. At(r, k) = p
  <2>1. \A i \in 1 .. Len(r.list) : r.list[i].key = k => i = At(r, k)
    BY <1>5, <1>7, <1>8, AtFacts
  <2>2. c.list[p].key = k
    BY AtFacts DEF p
  <2> QED BY <2>1, <2>2, <1>1, <1>4, <1>5, <1>6
<1> QED BY <1>2, <1>4, <1>5, <1>6, <1>7, <1>8, <1>9 DEF SameMode, r, p

-----------------------------------------------------------------------------
\* What a cache holds, in whatever order.
Holding(c) == {<<c.list[i].key, c.list[i].data>> : i \in DOMAIN c.list}

\* The pairs of a cache, by position.
LEMMA HoldingFacts ==
  ASSUME NEW c \in Caches
  PROVE  /\ Holding(c) = {<<c.list[i].key, c.list[i].data>> : i \in 1 .. Len(c.list)}
         /\ Holding(c) \in SUBSET (Keys \X Data)
<1>1. /\ DOMAIN c.list = 1 .. Len(c.list)
      /\ \A i \in 1 .. Len(c.list) : c.list[i].key \in Keys /\ c.list[i].data \in Data
  BY CacheFacts
<1> QED BY <1>1 DEF Holding

\* A new cache is sound and holds nothing.
LEMMA NewCacheFacts ==
  ASSUME NEW sess \in BOOLEAN
  PROVE  /\ NewCache(sess) \in Caches /\ WellFormed(NewCache(sess))
         /\ NewCache(sess).sess_flag = sess /\ Holding(NewCache(sess)) = {}
<1> DEFINE c == NewCache(sess)
<1>1. /\ c.list = <<>> /\ c.iter = [k \in Keys |-> NoNode] /\ c.sess_flag = sess
      /\ c \in Caches
  BY CapacityAssumption DEF NewCache, Caches
<1> HIDE DEF c
<1>2. \A k \in Keys : ~Found(c, k)
  BY <1>1 DEF Found
<1>3. WellFormed(c)
  BY <1>1, <1>2 DEF WellFormed, NodesDistinct, KeysDistinct, IndexSound, IndexComplete
<1>4. Holding(c) = {}
  BY <1>1 DEF Holding
<1> QED BY <1>1, <1>3, <1>4 DEF c

\* What a lookup returns, the cache holds under the key looked up.
LEMMA GetIsHeld ==
  ASSUME NEW c \in Caches, WellFormed(c), NEW k \in Keys, Found(c, k)
  PROVE  <<k, GetResult(c, k)>> \in Holding(c)
<1>1. At(c, k) \in 1 .. Len(c.list) /\ c.list[At(c, k)].key = k
  BY AtFacts
<1> QED BY <1>1, HoldingFacts DEF GetResult

\* Moving an entry to the front changes nothing of what the cache holds.
LEMMA MoveKeeps ==
  ASSUME NEW c \in Caches, WellFormed(c), NEW k \in Keys, Found(c, k),
         NEW q \in MovedToFront(c, k)
  PROVE  q \in Caches /\ WellFormed(q) /\ SameMode(c, q) /\ Holding(q) = Holding(c)
<1> DEFINE p == At(c, k)
<1>1. /\ q \in Caches /\ WellFormed(q) /\ SameMode(c, q)
      /\ Len(q.list) = Len(c.list)
      /\ q.list[1].key = k /\ q.list[1].data = c.list[p].data
      /\ \A j \in 1 .. Len(c.list) - 1 : q.list[j + 1] =
           IF j < p THEN c.list[j] ELSE c.list[j + 1]
  BY MoveFacts
<1>2. p \in 1 .. Len(c.list) /\ c.list[p].key = k /\ Len(c.list) \in Nat
  BY AtFacts, CacheFacts
<1> HIDE DEF p
<1>3. ASSUME NEW i \in 1 .. Len(c.list)
      PROVE  \E j \in 1 .. Len(c.list) :
               q.list[i].key = c.list[j].key /\ q.list[i].data = c.list[j].data
  <2>1. CASE i = 1
    BY <1>1, <1>2, <2>1
  <2>2. CASE i # 1
    <3>1. i - 1 \in 1 .. Len(c.list) - 1 /\ (i - 1) + 1 = i /\ i - 1 \in 1 .. Len(c.list)
      BY <1>2, <2>2
    <3>2. q.list[i] = c.list[i - 1] \/ q.list[i] = c.list[i]
      BY <1>1, <3>1
    <3> QED BY <3>1, <3>2
  <2> QED BY <2>1, <2>2
<1>4. ASSUME NEW i \in 1 .. Len(c.list)
      PROVE  \E j \in 1 .. Len(c.list) :
               q.list[j].key = c.list[i].key /\ q.list[j].data = c.list[i].data
  <2>1. CASE i = p
    BY <1>1, <1>2, <2>1
  <2>2. CASE i < p
    <3>1. i \in 1 .. Len(c.list) - 1 /\ i + 1 \in 1 .. Len(c.list)
      BY <1>2, <2>2
    <3>2. q.list[i + 1] = c.list[i]
      BY <1>1, <2>2, <3>1
    <3> QED BY <3>1, <3>2
  <2>3. CASE i > p
    <3>1. i - 1 \in 1 .. Len(c.list) - 1 /\ (i - 1) + 1 = i /\ ~(i - 1 < p)
      BY <1>2, <2>3
    <3>2. q.list[i] = c.list[i]
      BY <1>1, <3>1
    <3> QED BY <3>2
  <2> QED BY <1>2, <2>1, <2>2, <2>3
<1>5. /\ Holding(c) = {<<c.list[i].key, c.list[i].data>> : i \in 1 .. Len(c.list)}
      /\ Holding(q) = {<<q.list[i].key, q.list[i].data>> : i \in 1 .. Len(c.list)}
  BY <1>1, HoldingFacts
<1>6. Holding(q) \subseteq Holding(c)
  BY <1>3, <1>5
<1>7. Holding(c) \subseteq Holding(q)
  BY <1>4, <1>5
<1> QED BY <1>1, <1>6, <1>7

\* A lookup changes nothing of what the cache holds.
LEMMA GetKeeps ==
  ASSUME NEW c \in Caches, WellFormed(c), NEW k \in Keys, NEW q \in AfterGet(c, k)
  PROVE  q \in Caches /\ WellFormed(q) /\ SameMode(c, q) /\ Holding(q) = Holding(c)
<1>1. CASE Found(c, k) /\ ~c.sess_flag
  BY <1>1, MoveKeeps DEF AfterGet
<1>2. CASE ~(Found(c, k) /\ ~c.sess_flag)
  BY <1>2 DEF AfterGet, SameMode
<1> QED BY <1>1, <1>2

\* A value replaced in its node: no other key is touched.
LEMMA ReplaceKeeps ==
  ASSUME NEW c \in Caches, WellFormed(c), NEW k \in Keys, Found(c, k), NEW d \in Data
  PROVE  LET r == Replaced(c, k, d)
         IN  /\ r \in Caches /\ WellFormed(r) /\ SameMode(c, r) /\ Found(r, k)
             /\ Holding(r) \subseteq Holding(c) \cup {<<k, d>>}
             /\ \A e \in Holding(c) : e[1] # k => e \in Holding(r)
<1> DEFINE r == Replaced(c, k, d)
           p == At(c, k)
<1>1. /\ r \in Caches /\ WellFormed(r) /\ SameMode(c, r) /\ Found(r, k)
      /\ Len(r.list) = Len(c.list) /\ r.list[p].data = d
      /\ \A j \in 1 .. Len(c.list) : r.list[j].key = c.list[j].key
      /\ \A j \in 1 .. Len(c.list) : j # p => r.list[j] = c.list[j]
  BY ReplaceFacts
<1>2. p \in 1 .. Len(c.list) /\ c.list[p].key = k
  BY AtFacts
<1> HIDE DEF r, p
<1>3. /\ Holding(c) = {<<c.list[i].key, c.list[i].data>> : i \in 1 .. Len(c.list)}
      /\ Holding(r) = {<<r.list[i].key, r.list[i].data>> : i \in 1 .. Len(c.list)}
  BY <1>1, HoldingFacts
<1>4. ASSUME NEW i \in 1 .. Len(c.list)
      PROVE  <<r.list[i].key, r.list[i].data>> \in Holding(c) \cup {<<k, d>>}
  BY <1>1, <1>2, <1>3
<1>5. ASSUME NEW i \in 1 .. Len(c.list), c.list[i].key # k
      PROVE  <<c.list[i].key, c.list[i].data>> \in Holding(r)
  BY <1>1, <1>2, <1>3, <1>5
<1>6. Holding(r) \subseteq Holding(c) \cup {<<k, d>>}
  BY <1>3, <1>4
<1>7. \A e \in Holding(c) : e[1] # k => e \in Holding(r)
  <2> SUFFICES ASSUME NEW i \in 1 .. Len(c.list), c.list[i].key # k
               PROVE  <<c.list[i].key, c.list[i].data>> \in Holding(r)
    BY <1>3
  <2> QED BY <1>5
<1> QED BY <1>1, <1>6, <1>7 DEF r

\* SetCache adds its pair, takes away no other key's in a session, and puts
\* nothing else in.
LEMMA SetKeeps ==
  ASSUME NEW c \in Caches, WellFormed(c), NEW k \in Keys, NEW d \in Data,
         NEW q \in AfterSet(c, k, d)
  PROVE  /\ q \in Caches /\ WellFormed(q) /\ SameMode(c, q)
         /\ Holding(q) \subseteq Holding(c) \cup {<<k, d>>}
         /\ c.sess_flag => \A e \in Holding(c) : e[1] # k => e \in Holding(q)
<1>1. CASE Found(c, k)
  <2> DEFINE r == Replaced(c, k, d)
  <2>1. /\ r \in Caches /\ WellFormed(r) /\ SameMode(c, r) /\ Found(r, k)
        /\ Holding(r) \subseteq Holding(c) \cup {<<k, d>>}
        /\ \A e \in Holding(c) : e[1] # k => e \in Holding(r)
    BY <1>1, ReplaceKeeps
  <2>2. c.sess_flag => q = r
    BY <1>1 DEF AfterSet
  <2>3. ~c.sess_flag => q \in MovedToFront(r, k)
    BY <1>1 DEF AfterSet
  <2> HIDE DEF r
  <2>4. CASE c.sess_flag
    BY <2>1, <2>2, <2>4
  <2>5. CASE ~c.sess_flag
    <3>1. q \in Caches /\ WellFormed(q) /\ SameMode(r, q) /\ Holding(q) = Holding(r)
      BY <2>1, <2>3, <2>5, MoveKeeps
    <3> QED BY <2>1, <2>5, <3>1 DEF SameMode
  <2> QED BY <2>4, <2>5
<1>2. CASE ~Found(c, k)
  <2> DEFINE b == IF MustEvict(c) THEN PopBack(c) ELSE c
  <2>1. /\ b \in Caches /\ WellFormed(b) /\ SameMode(c, b) /\ ~Found(b, k)
        /\ Holding(b) \subseteq Holding(c)
        /\ c.sess_flag => b = c
    <3>1. CASE ~MustEvict(c)
      BY <1>2, <3>1 DEF SameMode
    <3>2. CASE MustEvict(c)
      <4>1. c.list # <<>> /\ ~c.sess_flag
        BY <3>2, CacheFacts DEF MustEvict
      <4>2. /\ b \in Caches /\ WellFormed(b) /\ SameMode(c, b)
            /\ Len(b.list) = Len(c.list) - 1
            /\ \A j \in 1 .. Len(c.list) - 1 : b.list[j] = c.list[j]
            /\ \A x \in Keys : ~Found(c, x) => ~Found(b, x)
        BY <3>2, <4>1, PopFacts
      <4> HIDE DEF b
      <4>3. /\ Holding(c) = {<<c.list[i].key, c.list[i].data>> : i \in 1 .. Len(c.list)}
            /\ Holding(b) = {<<b.list[i].key, b.list[i].data>> : i \in 1 .. Len(c.list) - 1}
        BY <4>2, HoldingFacts
      <4>4. Len(c.list) \in Nat
        BY CacheFacts
      <4>5. \A i \in 1 .. Len(c.list) - 1 :
              i \in 1 .. Len(c.list) /\ b.list[i] = c.list[i]
        BY <4>2, <4>4
      <4>6. Holding(b) \subseteq Holding(c)
        BY <4>3, <4>5
      <4> QED BY <1>2, <4>1, <4>2, <4>6
    <3> QED BY <3>1, <3>2
  <2>2. PICK n \in FreeNodes(b) : q = PushFront(b, n, k, d)
    BY <1>2 DEF AfterSet, PushedFront
  <2> HIDE DEF b
  <2>3. WellFormedBut(b, k)
    BY <2>1, NotFoundFacts
  <2>4. /\ q \in Caches /\ WellFormed(q) /\ SameMode(b, q)
        /\ Len(q.list) = Len(b.list) + 1
        /\ q.list[1].key = k /\ q.list[1].data = d
        /\ \A j \in 1 .. Len(b.list) : q.list[j + 1] = b.list[j]
    BY <2>1, <2>2, <2>3, PushFrontFacts
  <2>5. Len(b.list) \in Nat
    BY <2>1, CacheFacts
  <2>6. /\ Holding(b) = {<<b.list[i].key, b.list[i].data>> : i \in 1 .. Len(b.list)}
        /\ Holding(q) = {<<q.list[i].key, q.list[i].data>> : i \in 1 .. Len(b.list) + 1}
    BY <2>1, <2>4, HoldingFacts
  <2>7. ASSUME NEW i \in 1 .. Len(b.list) + 1
        PROVE  <<q.list[i].key, q.list[i].data>> \in Holding(b) \cup {<<k, d>>}
    <3>1. CASE i = 1
      BY <2>4, <3>1
    <3>2. CASE i # 1
      <4>1. i - 1 \in 1 .. Len(b.list) /\ (i - 1) + 1 = i
        BY <2>5, <3>2
      <4>2. q.list[i] = b.list[i - 1]
        BY <2>4, <4>1
      <4> QED BY <2>6, <4>1, <4>2
    <3> QED BY <3>1, <3>2
  <2>8. Holding(b) \subseteq Holding(q)
    <3>1. \A i \in 1 .. Len(b.list) : i + 1 \in 1 .. Len(b.list) + 1
      BY <2>5
    <3> QED BY <2>4, <2>6, <3>1
  <2>9. Holding(q) \subseteq Holding(b) \cup {<<k, d>>}
    BY <2>6, <2>7
  <2> QED BY <2>1, <2>4, <2>8, <2>9 DEF SameMode
<1> QED BY <1>1, <1>2
=============================================================================
