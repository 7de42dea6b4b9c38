---------------------------- MODULE SharderProofs ----------------------------
(***************************************************************************)
(* Theorems about ParallelFor for every number of calls, every size of the   *)
(* work and every way of cutting it that Split allows.                     *)
(***************************************************************************)
EXTENDS Sharder, FiniteSetTheorems, NaturalsInduction, WellFoundedInduction, TLAPS

\* The blocks that a unit of work is in.
Covering(blocks, u) == {b \in blocks : b[1] <= u /\ u < b[2]}

\* S has exactly one element.
One(S) == \E b : S = {b}

\* A set of naturals has a least element: the next cut after a unit.
LEMMA LeastElement ==
  ASSUME NEW S \in SUBSET Nat, S # {}
  PROVE  \E m \in S : \A x \in S : m <= x
  <1> DEFINE Below == OpToRel(<, Nat)
  <1>1. \E m \in S : \A x \in S : ~(<<x, m>> \in Below)
    <2> HIDE DEF Below
    <2>1. IsWellFoundedOn(Below, Nat)
      BY NatLessThanWellFounded DEF Below
    <2> QED BY <2>1, WFMin
  <1>2. \A x, m \in S : <<x, m>> \notin Below => m <= x
    BY DEF OpToRel
  <1> QED BY <1>1, <1>2

\* A bounded set of naturals has a greatest element: the last cut before a unit.
LEMMA GreatestElement ==
  ASSUME NEW n \in Nat, NEW S \in SUBSET (0 .. n), S # {}
  PROVE  \E m \in S : \A x \in S : x <= m
  <1> DEFINE R == {n - x : x \in S}
  <1>1. R \in SUBSET Nat /\ R # {}
    <2>1. \A x \in S : n - x \in Nat
      OBVIOUS
    <2> QED BY <2>1
  <1>2. PICK r \in R : \A x \in R : r <= x
    BY <1>1, LeastElement
  <1>3. PICK m \in S : r = n - m
    BY <1>2
  <1>4. \A x \in S : n - m <= n - x
    BY <1>2, <1>3
  <1>5. \A x \in S : x <= m
    BY <1>4
  <1> QED BY <1>5

\* Between its neighbouring cuts a unit is in one block of the range, whatever
\* the cuts.
LEMMA OneBlock ==
  ASSUME NEW total \in Nat, NEW cuts \in SUBSET (1 .. total - 1), NEW u \in 0 .. total - 1
  PROVE  One(Covering(Blocks(total, cuts), u))
  <1>1. PICK a \in {x \in {0} \cup cuts : x <= u} :
          \A x \in {x \in {0} \cup cuts : x <= u} : x <= a
    <2> DEFINE S == {x \in {0} \cup cuts : x <= u}
    <2>1. S \in SUBSET (0 .. total) /\ S # {}
      <3>1. \A x \in cuts : x \in 0 .. total OBVIOUS
      <3>2. 0 \in 0 .. total /\ 0 <= u OBVIOUS
      <3> QED BY <3>1, <3>2
    <2> HIDE DEF S
    <2>2. \E m \in S : \A x \in S : x <= m BY <2>1, GreatestElement
    <2> QED BY <2>2 DEF S
  <1>2. PICK z \in {x \in cuts \cup {total} : u < x} :
          \A x \in {x \in cuts \cup {total} : u < x} : z <= x
    <2> DEFINE S == {x \in cuts \cup {total} : u < x}
    <2>1. S \in SUBSET Nat /\ S # {}
      <3>1. \A x \in cuts : x \in Nat OBVIOUS
      <3>2. u < total OBVIOUS
      <3> QED BY <3>1, <3>2
    <2> HIDE DEF S
    <2>2. \E m \in S : \A x \in S : m <= x BY <2>1, LeastElement
    <2> QED BY <2>2 DEF S
  <1>3. <<a, z>> \in Blocks(total, cuts)
    BY <1>1, <1>2 DEF Blocks
  <1>4. ASSUME NEW x \in Blocks(total, cuts), x[1] <= u, u < x[2]
        PROVE  x = <<a, z>>
    <2>1. /\ x[1] \in {0} \cup cuts /\ x[2] \in cuts \cup {total} /\ x = <<x[1], x[2]>>
          /\ \A y \in cuts : ~(x[1] < y /\ y < x[2])
      BY DEF Blocks
    <2>2. x[1] = a
      BY <1>1, <1>4, <2>1
    <2>3. x[2] = z
      BY <1>2, <1>4, <2>1
    <2> QED BY <2>1, <2>2, <2>3
  <1>5. <<a, z>>[1] <= u /\ u < <<a, z>>[2]
    BY <1>1, <1>2
  <1>6. Covering(Blocks(total, cuts), u) = {<<a, z>>}
    BY <1>3, <1>4, <1>5 DEF Covering
  <1> QED BY <1>6 DEF One

\* Whatever Eigen or libaicpu_sharder choose, each unit is in one of the blocks
\* that ParallelFor hands out.
LEMMA SplitCovers ==
  ASSUME NEW total \in Nat, NEW most, NEW blocks \in Split(total, most)
  PROVE  /\ blocks \in SUBSET (Nat \X Nat)
         /\ \A u \in 0 .. total - 1 : One(Covering(blocks, u))
  <1>1. PICK cuts \in SUBSET (1 .. total - 1) : blocks = Blocks(total, cuts)
    BY DEF Split
  <1>2. {0} \cup cuts \subseteq Nat /\ cuts \cup {total} \subseteq Nat
    <2>1. \A x \in cuts : x \in Nat OBVIOUS
    <2> QED BY <2>1
  <1>3. blocks \in SUBSET (Nat \X Nat)
    BY <1>1, <1>2 DEF Blocks
  <1>4. \A u \in 0 .. total - 1 :
          One(Covering(Blocks(total, cuts), u))
    BY OneBlock
  <1> QED BY <1>1, <1>3, <1>4

-----------------------------------------------------------------------------
\* The types; count has the units of each call for its domain.
TypeOK ==
  /\ req \in [Call -> Requests]
  /\ pc \in [Call -> {"start", "instance", "pool", "device", "barrier", "done"}]
  /\ ret \in [Call -> {NULL, "OK", "INNER_ERROR", "NO_CPU", "CORES", "ONE_CPU"}]
  /\ pending \in [Call -> SUBSET (Nat \X Nat)]
  /\ DOMAIN count = Call /\ \A c \in Call : count[c] \in [Units(c) -> Nat]

\* What a call has done and has still to do.  Nothing is handed out before the
\* split, nor left after the barrier; in between, a unit either is done or is in
\* the one block that will do it.
CallInv(c) ==
  /\ pc[c] # "done" => ret[c] = NULL
  /\ pc[c] \in {"instance", "pool"} => req[c].device = "HOST"
  /\ pc[c] # "barrier" => pending[c] = {}
  /\ pc[c] \notin {"barrier", "done"} => \A u \in Units(c) : count[c][u] = 0
  /\ pc[c] = "barrier" =>
       \A u \in Units(c) : \/ count[c][u] = 1 /\ Covering(pending[c], u) = {}
                           \/ count[c][u] = 0 /\ One(Covering(pending[c], u))
  /\ pc[c] = "done" => \A u \in Units(c) : count[c][u] <= 1
  /\ ret[c] = "OK" =>
       \/ Done(c)
       \/ req[c].device = "HOST" /\ \A u \in Units(c) : count[c][u] = 0

IInv == TypeOK /\ \A c \in Call : CallInv(c)

\* What is known of a call depends on no other call.
LEMMA CallUnchanged ==
  ASSUME NEW c \in Call, CallInv(c), req' = req, pc'[c] = pc[c], ret'[c] = ret[c],
         pending'[c] = pending[c], count'[c] = count[c]
  PROVE  CallInv(c)'
  BY DEF CallInv, Covering, Done, Units

\* Before any call has begun, nothing is handed out and nothing is done.
LEMMA InitInv == Init => IInv
  <1> SUFFICES ASSUME Init PROVE IInv
    OBVIOUS
  <1>1. TypeOK
    BY DEF Init, TypeOK, Units
  <1>2. \A c \in Call : CallInv(c)
    BY RequestsAssumption DEF Init, CallInv
  <1> QED BY <1>1, <1>2 DEF IInv

\* A call whose parallelFor returns has had each of its units worked on once.
LEMMA BarrierDone ==
  ASSUME NEW c \in Call, CallInv(c), pc[c] = "barrier", pending[c] = {}
  PROVE  \A u \in Units(c) : count[c][u] = 1
  <1>1. \A u : ~One(Covering(pending[c], u))
    BY DEF One, Covering
  <1> QED BY <1>1 DEF CallInv

\* Every step on the thread of a call keeps the invariant: the early returns, the
\* split, and the return from parallelFor.
LEMMA StepInv ==
  ASSUME IInv, NEW c \in Call, Step(c)
  PROVE  IInv'
  <1> USE DEF Goto, Return, ReturnFrom, given, pool
  <1>0. TypeOK /\ CallInv(c)
    BY DEF IInv
  <1>1. req[c].total \in Nat
    BY <1>0, RequestsAssumption DEF TypeOK
  <1>6. ASSUME NEW most, NEW blocks \in Split(req[c].total, most)
        PROVE  /\ blocks \in SUBSET (Nat \X Nat)
               /\ \A u \in Units(c) : One(Covering(blocks, u))
    <2> DEFINE total == req[c].total
    <2>1. total \in Nat /\ blocks \in Split(total, most) /\ Units(c) = 0 .. total - 1
      BY <1>1, <1>6 DEF Units
    <2> HIDE DEF total
    <2>2. blocks \in SUBSET (Nat \X Nat)
      BY <2>1, SplitCovers
    <2>3. \A u \in 0 .. total - 1 : One(Covering(blocks, u))
      BY <2>1, SplitCovers
    <2> QED BY <2>1, <2>2, <2>3
  <1>2. /\ req' = req /\ count' = count
        /\ \E l \in {"instance", "pool", "device", "barrier", "done"} : pc' = [pc EXCEPT ![c] = l]
        /\ \/ ret' = ret
           \/ \E r \in {"OK", "INNER_ERROR", "NO_CPU", "CORES", "ONE_CPU"} :
                ret' = [ret EXCEPT ![c] = r]
        /\ \/ pending' = pending
           \/ \E S \in SUBSET (Nat \X Nat) : pending' = [pending EXCEPT ![c] = S]
    <2>1. CASE Dispatch(c)
      BY <2>1 DEF Dispatch
    <2>2. CASE GetInstance(c)
      BY <2>2 DEF GetInstance
    <2>3. CASE HostParallelFor(c)
      BY <1>6, <2>3 DEF HostParallelFor
    <2>4. CASE HostGetCPUNum(c)
      BY <2>4 DEF HostGetCPUNum
    <2>5. CASE DeviceParallelFor(c)
      BY <1>6, <2>5 DEF DeviceParallelFor
    <2>6. CASE DeviceGetCPUNum(c)
      BY <2>6 DEF DeviceGetCPUNum
    <2>7. CASE Barrier(c)
      BY <2>7 DEF Barrier
    <2> QED BY <2>1, <2>2, <2>3, <2>4, <2>5, <2>6, <2>7 DEF Step
  <1>3. TypeOK'
    BY <1>0, <1>2 DEF TypeOK, Units
  <1>4. ASSUME NEW d \in Call, d # c PROVE CallInv(d)'
    BY <1>0, <1>2, <1>4, CallUnchanged DEF IInv, TypeOK
  <1>7. ASSUME NEW most, NEW blocks \in Split(req[c].total, most),
               pending' = [pending EXCEPT ![c] = blocks], pc' = [pc EXCEPT ![c] = "barrier"],
               ret' = ret, count' = count, req' = req, pc[c] \in {"pool", "device"}
        PROVE  CallInv(c)'
    <2>1. /\ pc'[c] = "barrier" /\ pending'[c] = blocks /\ ret'[c] = NULL
          /\ \A u \in Units(c) : count[c][u] = 0
      BY <1>0, <1>7 DEF TypeOK, CallInv
    <2>2. \A u \in Units(c) : One(Covering(pending[c], u))'
      BY <1>6, <2>1
    <2>3. Units(c)' = Units(c)
      BY <1>7 DEF Units
    <2> QED BY <1>7, <2>1, <2>2, <2>3, RequestsAssumption DEF CallInv
  <1>5. CallInv(c)'
    <2>1. CASE Dispatch(c)
      BY <1>0, <2>1, RequestsAssumption DEF Dispatch, CallInv, TypeOK, Units
    <2>2. CASE GetInstance(c)
      BY <1>0, <2>2, RequestsAssumption DEF GetInstance, CallInv, TypeOK, Units
    <2>3. CASE HostParallelFor(c)
      <3>1. CASE req[c].total <= 0 \/ req[c].per <= 0
        <4>1. /\ pc' = [pc EXCEPT ![c] = "done"] /\ ret' = [ret EXCEPT ![c] = "OK"]
              /\ pending' = pending /\ count' = count /\ req' = req
          BY <2>3, <3>1 DEF HostParallelFor
        <4>2. pc[c] = "pool"
          BY <2>3 DEF HostParallelFor
        <4>3. /\ req[c].device = "HOST" /\ pending[c] = {}
              /\ \A u \in Units(c) : count[c][u] = 0
          BY <1>0, <4>2 DEF CallInv
        <4>4. pc'[c] = "done" /\ ret'[c] = "OK" /\ Units(c)' = Units(c)
          BY <1>0, <4>1 DEF TypeOK, Units
        <4> QED BY <4>1, <4>3, <4>4, RequestsAssumption DEF CallInv
      <3>2. CASE ~(req[c].total <= 0 \/ req[c].per <= 0)
        <4>1. PICK blocks \in Split(req[c].total, MaxShards(req[c].total, req[c].per)) :
                pending' = [pending EXCEPT ![c] = blocks]
          BY <2>3, <3>2 DEF HostParallelFor
        <4>2. /\ pc' = [pc EXCEPT ![c] = "barrier"] /\ pc[c] \in {"pool", "device"}
              /\ ret' = ret /\ count' = count /\ req' = req
          BY <2>3, <3>2 DEF HostParallelFor
        <4> QED BY <1>0, <1>7, <4>1, <4>2
      <3> QED BY <3>1, <3>2
    <2>4. CASE HostGetCPUNum(c)
      BY <1>0, <2>4, RequestsAssumption DEF HostGetCPUNum, CallInv, TypeOK, Units
    <2>5. CASE DeviceParallelFor(c)
      <3>1. PICK blocks \in Split(req[c].total, IF parallel_for_ THEN req[c].total ELSE 1) :
              pending' = [pending EXCEPT ![c] = blocks]
        BY <2>5 DEF DeviceParallelFor
      <3>2. /\ pc' = [pc EXCEPT ![c] = "barrier"] /\ pc[c] \in {"pool", "device"}
              /\ ret' = ret /\ count' = count /\ req' = req
        BY <2>5 DEF DeviceParallelFor
      <3> QED BY <1>0, <1>7, <3>1, <3>2
    <2>6. CASE DeviceGetCPUNum(c)
      BY <1>0, <2>6, RequestsAssumption DEF DeviceGetCPUNum, CallInv, TypeOK, Units
    <2>7. CASE Barrier(c)
      <3>1. \A u \in Units(c) : count[c][u] = 1
        BY <1>0, <2>7, BarrierDone DEF Barrier
      <3> QED BY <1>0, <2>7, <3>1, RequestsAssumption DEF Barrier, CallInv, TypeOK, Units, Done
    <2> QED BY <2>1, <2>2, <2>3, <2>4, <2>5, <2>6, <2>7 DEF Step
  <1> QED BY <1>3, <1>4, <1>5 DEF IInv

\* A block run by some thread keeps the invariant: its units leave the work that
\* is left and join the work that is done.
LEMMA WorkInv ==
  ASSUME IInv, NEW c \in Call, NEW block \in pending[c], RunBlock(c, block)
  PROVE  IInv'
  <1>0. TypeOK /\ CallInv(c)
    BY DEF IInv
  <1>1. /\ req' = req /\ pc' = pc /\ ret' = ret
        /\ pending' = [pending EXCEPT ![c] = @ \ {block}]
        /\ DOMAIN count' = Call
        /\ count'[c] = [u \in Units(c) |-> IF block[1] <= u /\ u < block[2]
                                           THEN count[c][u] + 1 ELSE count[c][u]]
        /\ \A d \in Call \ {c} : count'[d] = count[d]
    BY <1>0 DEF RunBlock, given, TypeOK
  <1>2. TypeOK'
    <2>1. \A d \in Call : count'[d] \in [Units(d) -> Nat]
      BY <1>0, <1>1 DEF TypeOK
    <2> QED BY <1>0, <1>1, <2>1 DEF TypeOK, Units
  <1>3. ASSUME NEW d \in Call, d # c PROVE CallInv(d)'
    BY <1>0, <1>1, <1>3, CallUnchanged DEF IInv, TypeOK
  <1>4. CallInv(c)'
    <2>1. pc[c] = "barrier"
      BY <1>0 DEF CallInv
    <2>2. ASSUME NEW u \in Units(c)
          PROVE  \/ count'[c][u] = 1 /\ Covering(pending[c], u)' = {}
                 \/ count'[c][u] = 0 /\ One(Covering(pending[c], u))'
      <3>1. Covering(pending[c], u)' = Covering(pending[c], u) \ {block}
        BY <1>0, <1>1 DEF Covering, TypeOK
      <3>2. CASE block[1] <= u /\ u < block[2]
        <4>1. block \in Covering(pending[c], u)
          BY <3>2 DEF Covering
        <4>2. count[c][u] = 0 /\ One(Covering(pending[c], u))
          BY <1>0, <2>1, <4>1 DEF CallInv
        <4>3. Covering(pending[c], u) = {block}
          BY <4>1, <4>2 DEF One
        <4> QED BY <1>1, <3>1, <3>2, <4>2, <4>3
      <3>3. CASE ~(block[1] <= u /\ u < block[2])
        <4>1. Covering(pending[c], u)' = Covering(pending[c], u)
          BY <3>1, <3>3 DEF Covering
        <4> QED BY <1>0, <1>1, <2>1, <3>3, <4>1 DEF CallInv
      <3> QED BY <3>2, <3>3
    <2>3. Units(c)' = Units(c)
      BY <1>1 DEF Units
    <2> QED BY <1>0, <1>1, <2>1, <2>2, <2>3, RequestsAssumption DEF CallInv
  <1> QED BY <1>2, <1>3, <1>4 DEF IInv


\* The invariant is inductive.
LEMMA NextInv == IInv /\ [Next]_vars => IInv'
  <1>1. CASE UNCHANGED vars
    <2>1. IInv => TypeOK'
      BY <1>1 DEF vars, IInv, TypeOK, Units
    <2>2. IInv => \A c \in Call : CallInv(c)'
      BY <1>1, CallUnchanged DEF vars, IInv
    <2> QED BY <2>1, <2>2 DEF IInv
  <1>2. CASE Next
    BY <1>2, StepInv, WorkInv DEF Next, Work
  <1> QED BY <1>1, <1>2

\* ParallelFor that returns OK has worked on every unit once or, on the host, on
\* none; no unit is worked on twice, whatever runs beside it.
THEOREM Safety == Spec => [](AllOrNothing /\ UnitOnce)
  <1>1. IInv => AllOrNothing
    BY DEF IInv, CallInv, AllOrNothing
  <1>2. IInv => UnitOnce
    <2> SUFFICES ASSUME IInv, NEW c \in Call, NEW u \in Units(c)
                 PROVE  count[c][u] + Cardinality(Covering(pending[c], u)) <= 1
      BY DEF UnitOnce, Covering
    <2>1. CallInv(c) /\ count[c][u] \in Nat
      BY DEF IInv, TypeOK
    <2>2. Cardinality({}) = 0 /\ \A b : Cardinality({b}) = 1
      BY FS_EmptySet, FS_Singleton
    <2>3. CASE pc[c] = "barrier"
      <3>1. CASE count[c][u] = 1 /\ Covering(pending[c], u) = {}
        BY <2>2, <3>1
      <3>2. CASE count[c][u] = 0 /\ One(Covering(pending[c], u))
        <4>1. PICK b : Covering(pending[c], u) = {b}
          BY <3>2 DEF One
        <4>2. Cardinality(Covering(pending[c], u)) = 1
          BY <2>2, <4>1
        <4> QED BY <3>2, <4>2
      <3>3. \/ count[c][u] = 1 /\ Covering(pending[c], u) = {}
            \/ count[c][u] = 0 /\ One(Covering(pending[c], u))
        BY <2>1, <2>3 DEF CallInv
      <3> QED BY <3>1, <3>2, <3>3
    <2>4. CASE pc[c] # "barrier"
      <3>1. Covering(pending[c], u) = {}
        BY <2>1, <2>4 DEF CallInv, Covering
      <3>2. count[c][u] <= 1
        BY <2>1, <2>4 DEF CallInv, IInv, TypeOK
      <3> QED BY <2>1, <2>2, <3>1, <3>2
    <2> QED BY <2>3, <2>4
  <1> QED BY InitInv, NextInv, <1>1, <1>2, PTL DEF Spec

\* Once a call has created the EigenThreadPool, a ParallelFor with a positive
\* size of unit that returns OK has done all of its work.
THEOREM PoolServesAll == Spec => PoolServes
  <1>1. IInv /\ [Next]_vars =>
          \A c \in Call :
            init_flag_ /\ ret[c] = NULL /\ ret'[c] = "OK" /\ req[c].per > 0 => Done(c)'
    <2> SUFFICES ASSUME IInv, [Next]_vars, NEW c \in Call, init_flag_,
                        ret[c] = NULL, ret'[c] = "OK", req[c].per > 0
                 PROVE  Done(c)'
      OBVIOUS
    <2>1. TypeOK /\ CallInv(c) /\ req[c].total \in Nat /\ req[c].per \in Int
      BY RequestsAssumption DEF IInv, TypeOK
    <2>2. ret'[c] # ret[c]
      BY RequestsAssumption
    <2>3. Step(c)
      <3>1. PICK d \in Call : Step(d) \/ Work(d)
        BY <2>2 DEF Next, vars
      <3>2. ~Work(d)
        BY <2>2 DEF Work, RunBlock
      <3>3. d = c
        BY <2>1, <2>2, <3>1, <3>2 DEF Step, Dispatch, GetInstance, HostParallelFor, HostGetCPUNum,
          DeviceParallelFor, DeviceGetCPUNum, Barrier, Goto, Return, ReturnFrom, TypeOK
      <3> QED BY <3>1, <3>2, <3>3
    <2>4. req' = req /\ count' = count
      BY <2>3 DEF Step, Dispatch, GetInstance, HostParallelFor, HostGetCPUNum,
        DeviceParallelFor, DeviceGetCPUNum, Barrier, given
    <2>5. CASE HostParallelFor(c)
      <3>1. req[c].total = 0
        BY <2>1, <2>2, <2>5 DEF HostParallelFor
      <3> QED BY <2>4, <3>1 DEF Done, Units
    <2>6. CASE Barrier(c)
      BY <2>1, <2>4, <2>6, BarrierDone DEF Barrier, Done, Units
    <2>7. /\ ~Dispatch(c) /\ ~GetInstance(c) /\ ~HostGetCPUNum(c)
          /\ ~DeviceParallelFor(c) /\ ~DeviceGetCPUNum(c)
      <3>1. "OK" \notin {"NO_CPU", "CORES", "ONE_CPU", "INNER_ERROR"}
        OBVIOUS
      <3> QED
        BY <2>1, <2>2, <3>1 DEF Dispatch, GetInstance, HostGetCPUNum, DeviceParallelFor,
          DeviceGetCPUNum, Goto, Return, ReturnFrom, TypeOK
    <2> QED BY <2>3, <2>5, <2>6, <2>7 DEF Step
  <1>2. IInv /\ [Next]_vars =>
          [\A c \in Call :
             init_flag_ /\ ret[c] = NULL /\ ret'[c] = "OK" /\ req[c].per > 0 => Done(c)']_vars
    BY <1>1
  <1> QED BY InitInv, NextInv, <1>2, PTL DEF Spec, PoolServes

=============================================================================
