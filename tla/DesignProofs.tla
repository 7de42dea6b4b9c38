---------------------------- MODULE DesignProofs ----------------------------
(***************************************************************************)
(* The sub-cases of msopst, for every definition file, every parser and     *)
(* every return of a fuzz function: a fuzz case takes its values from one   *)
(* call of its own function, and the sub-cases of a cross case are the      *)
(* combinations of its lists, each of them, with a tensor's values taken at *)
(* one place.  And the conversions of dim_conv.py, for tensors, cubes and   *)
(* buffers of every size: the block program puts every element in its cell. *)
(***************************************************************************)
EXTENDS Tools, FiniteSetTheorems, SequenceTheorems, NaturalsInduction,
        WellFoundedInduction, TLAPS

-----------------------------------------------------------------------------
(* The combinations of the lists of a tensor                               *)

\* A set of naturals has a least element.
LEMMA LeastElement ==
  ASSUME NEW S \in SUBSET Nat, S # {}
  PROVE  \E m \in S : \A x \in S : m <= x
  <1> DEFINE Below == OpToRel(<, Nat)
  <1>1. \E m \in S : \A x \in S : ~(<<x, m>> \in Below)
    <2> HIDE DEF Below
    <2>1. IsWellFoundedOn(Below, Nat)
      BY NatLessThanWellFounded DEF Below
    <2> QED BY <2>1, WFMin
  <1>2. \A x, m \in S : <<x, m>> \notin Below => m <= x
    BY DEF OpToRel
  <1> QED BY <1>1, <1>2

\* What holds of 0 and of j + 1 where it holds of j holds of every number: a set
\* of naturals that has both is Nat.
LEMMA AllNaturals ==
  ASSUME NEW S \in SUBSET Nat, 0 \in S, \A j \in S : j + 1 \in S
  PROVE  S = Nat
  <1> SUFFICES ASSUME Nat \ S # {} PROVE FALSE
    OBVIOUS
  <1>1. PICK m \in Nat \ S : \A x \in Nat \ S : m <= x
    BY LeastElement
  <1>2. m # 0 /\ m - 1 \in Nat
    BY <1>1
  <1>3. m - 1 \in S
    BY <1>1, <1>2
  <1> QED BY <1>1, <1>2, <1>3

\* Of the last keys, from the m-th on, the numbers of combinations that follow.
Counts(lens, m, f) ==
  f = [k \in m .. Len(lens) |-> IF k = Len(lens) THEN 1 ELSE lens[k + 1] * f[k + 1]]

\* One key more in front.
LEMMA CountsBefore ==
  ASSUME NEW lens, NEW m \in Nat, Len(lens) \in Nat, m < Len(lens), NEW g, Counts(lens, m + 1, g)
  PROVE  \E f : Counts(lens, m, f)
  <1>1. PICK n \in Nat : n = Len(lens)
    OBVIOUS
  <1>2. PICK first : first = lens[m + 1] * g[m + 1]
    OBVIOUS
  <1>3. PICK f : f = [k \in m .. n |-> IF k = m THEN first ELSE g[k]]
    OBVIOUS
  <1>4. \A k \in m + 1 .. n : g[k] = IF k = n THEN 1 ELSE lens[k + 1] * g[k + 1]
    BY <1>1 DEF Counts
  <1>5. f[m] = first /\ \A k \in m + 1 .. n : f[k] = g[k]
    BY <1>1, <1>3
  <1>6. f[m] = lens[m + 1] * f[m + 1]
    BY <1>1, <1>2, <1>5
  <1>7. ASSUME NEW k \in m .. n PROVE f[k] = IF k = n THEN 1 ELSE lens[k + 1] * f[k + 1]
    <2>1. CASE k = m BY <1>1, <1>6, <2>1
    <2>2. CASE k = n BY <1>1, <1>4, <1>5, <2>2
    <2>3. CASE k # m /\ k # n
      <3>1. k \in m + 1 .. n /\ k + 1 \in m + 1 .. n
        BY <1>1, <2>3
      <3>2. f[k] = g[k] /\ f[k + 1] = g[k + 1]
        BY <1>5, <3>1
      <3> QED BY <1>4, <2>3, <3>1, <3>2
    <2> QED BY <2>1, <2>2, <2>3
  <1>8. f = [k \in m .. n |-> f[k]]
    BY <1>3
  <1>9. f = [k \in m .. n |-> IF k = n THEN 1 ELSE lens[k + 1] * f[k + 1]]
    BY <1>7, <1>8
  <1> QED BY <1>1, <1>9 DEF Counts

\* There are such numbers for every list: from its end to its head.
LEMMA CountsExist ==
  ASSUME NEW lens, Len(lens) \in Nat \ {0}
  PROVE  \E f : Counts(lens, 1, f)
  <1> DEFINE n == Len(lens)
             S == {j \in Nat : j < n => \E f : Counts(lens, n - j, f)}
  <1>1. 0 \in S
    <2>1. PICK f : f = [k \in n .. n |-> 1]
      OBVIOUS
    <2>2. \A k \in n .. n : k = n /\ f[k] = IF k = n THEN 1 ELSE lens[k + 1] * f[k + 1]
      BY <2>1
    <2>3. f = [k \in n .. n |-> f[k]]
      BY <2>1
    <2>4. f = [k \in n .. n |-> IF k = n THEN 1 ELSE lens[k + 1] * f[k + 1]]
      BY <2>2, <2>3
    <2> QED BY <2>4 DEF Counts
  <1>2. ASSUME NEW j \in S, j + 1 < n
        PROVE  \E f : Counts(lens, n - (j + 1), f)
    <2>1. PICK m \in Nat : m = n - (j + 1) /\ m < n /\ m + 1 = n - j
      <3>1. j \in Nat /\ n \in Nat OBVIOUS
      <3> QED BY ONLY <1>2, <3>1
    <2>2. PICK g : Counts(lens, m + 1, g)
      BY <1>2, <2>1
    <2> QED BY <2>1, <2>2, CountsBefore
  <1>3. S = Nat
    <2> HIDE DEF n
    <2>1. \A j \in S : j + 1 \in S
      BY <1>2
    <2> HIDE DEF S
    <2>2. S \in SUBSET Nat BY DEF S
    <2> QED BY <1>1, <2>1, <2>2, AllNaturals
  <1>4. n - 1 \in S /\ n - 1 < n /\ n - (n - 1) = 1
    BY <1>3
  <1> QED BY <1>4

\* So that after, which chooses them, has its defining equation.
LEMMA AfterEquation ==
  ASSUME NEW lens, Len(lens) \in Nat \ {0}
  PROVE  LET f == Des!after(lens) IN
         \A k \in 1 .. Len(lens) : f[k] = IF k = Len(lens) THEN 1 ELSE lens[k + 1] * f[k + 1]
  <1> DEFINE f == Des!after(lens)
  <1>1. Counts(lens, 1, f)
    BY CountsExist DEF Counts, Des!after
  <1> HIDE DEF f
  <1> QED BY <1>1 DEF Counts, f

\* None of them is zero where no list is empty.
LEMMA AfterPositive ==
  ASSUME NEW lens, Len(lens) \in Nat \ {0}, \A k \in 1 .. Len(lens) : lens[k] \in Nat \ {0}
  PROVE  \A k \in 1 .. Len(lens) : Des!after(lens)[k] \in Nat \ {0}
  <1>1. PICK n \in Nat : n = Len(lens)
    OBVIOUS
  <1>2. PICK f : f = Des!after(lens)
    OBVIOUS
  <1>3. \A k \in 1 .. n : f[k] = IF k = n THEN 1 ELSE lens[k + 1] * f[k + 1]
    BY <1>1, <1>2, AfterEquation
  <1> DEFINE S == {j \in Nat : j < n => f[n - j] \in Nat \ {0}}
  <1>4. 0 \in S
    BY <1>1, <1>3
  <1>5. ASSUME NEW j \in S PROVE j + 1 \in S
    <2> SUFFICES ASSUME j + 1 < n PROVE f[n - (j + 1)] \in Nat \ {0}
      OBVIOUS
    <2>1. PICK k \in 1 .. n - 1 : k = n - (j + 1) /\ k + 1 = n - j
      <3>1. j \in Nat /\ n \in Nat OBVIOUS
      <3> QED BY ONLY <3>1, j + 1 < n
    <2>2. f[k + 1] \in Nat \ {0} /\ lens[k + 1] \in Nat \ {0} /\ f[k] = lens[k + 1] * f[k + 1]
      <3>1. f[n - j] \in Nat \ {0} OBVIOUS
      <3>2. k \in 1 .. n /\ k + 1 \in 1 .. n /\ k # n BY ONLY <2>1, n \in Nat
      <3> QED BY ONLY <1>1, <1>3, <2>1, <3>1, <3>2, \A i \in 1 .. Len(lens) : lens[i] \in Nat \ {0}
    <2>3. \A a, b \in Nat \ {0} : a * b \in Nat \ {0}
      OBVIOUS
    <2> QED BY ONLY <2>1, <2>2, <2>3
  <1>6. S = Nat
    <2> HIDE DEF S
    <2>1. S \in SUBSET Nat BY DEF S
    <2> QED BY <1>4, <1>5, <2>1, AllNaturals
  <1>7. ASSUME NEW k \in 1 .. n PROVE f[k] \in Nat \ {0}
    <2>1. n - k \in Nat /\ n - k < n /\ n - (n - k) = k
      BY ONLY n \in Nat, k \in 1 .. n
    <2>2. n - k \in S
      BY ONLY <1>6, <2>1
    <2> QED BY <2>1, <2>2
  <1> QED BY <1>1, <1>2, <1>7

\* Lists of one element make no combinations.
LEMMA AfterOne ==
  ASSUME NEW lens, Len(lens) \in Nat \ {0}, NEW m \in 1 .. Len(lens),
         \A k \in m + 1 .. Len(lens) : lens[k] = 1
  PROVE  Des!after(lens)[m] = 1
  <1>1. PICK n \in Nat : n = Len(lens)
    OBVIOUS
  <1>2. PICK f : f = Des!after(lens)
    OBVIOUS
  <1>3. \A k \in 1 .. n : f[k] = IF k = n THEN 1 ELSE lens[k + 1] * f[k + 1]
    BY <1>1, <1>2, AfterEquation
  <1> DEFINE S == {j \in Nat : j <= n - m => f[n - j] = 1}
  <1>4. 0 \in S
    BY <1>1, <1>3
  <1>5. ASSUME NEW j \in S PROVE j + 1 \in S
    <2> SUFFICES ASSUME j + 1 <= n - m PROVE f[n - (j + 1)] = 1
      OBVIOUS
    <2>1. PICK k \in m .. n - 1 : k = n - (j + 1) /\ k + 1 = n - j
      BY <1>1
    <2>2. f[k + 1] = 1 /\ lens[k + 1] = 1 /\ f[k] = lens[k + 1] * f[k + 1]
      BY <1>1, <1>3, <2>1
    <2> QED BY <2>1, <2>2
  <1>6. S = Nat
    <2> HIDE DEF S
    <2>1. S \in SUBSET Nat BY DEF S
    <2> QED BY <1>4, <1>5, <2>1, AllNaturals
  <1>7. n - m \in Nat /\ n - (n - m) = m
    BY ONLY <1>1, n \in Nat, m \in 1 .. Len(lens)
  <1>8. n - m \in S
    BY ONLY <1>6, <1>7
  <1> QED BY <1>1, <1>2, <1>7, <1>8

\* A case to be combined: its tensors as the file has them, and what is accepted.
OfCase(d, isInput, ms) ==
  /\ \A k \in {"format", "shape", "type", "data_distribute", "value_range"} :
       Des!IsList(d[k]) => /\ d[k] \in Seq({d[k][i] : i \in 1 .. Len(d[k])})
                           /\ Len(d[k]) <= MaxAlternatives
  /\ Des!make_desc_valid(d, isInput, ms)

\* The keys that every combination has, in the order that they vary, and the
\* others that it may have.
First(ms) == IF ms THEN <<"type", "shape">> ELSE <<"format", "shape", "type">>
Rest == {"data_distribute", "value_range", "shape_range", "value", "is_const"}

\* A list of keys of a tensor that starts with them.
Starts(s, ms, one) ==
  /\ s \in Seq({"format", "shape", "type"} \cup Rest)
  /\ Len(First(ms)) <= Len(s)
  /\ \A i \in 1 .. Len(First(ms)) : s[i] = First(ms)[i]
  /\ \A i \in Len(First(ms)) + 1 .. Len(s) : s[i] \in Rest \cap DOMAIN one

\* It still does with others at its end.
LEMMA Lengthened ==
  ASSUME NEW ms \in BOOLEAN, NEW one, NEW s, Starts(s, ms, one), NEW w \in Seq(Rest \cap DOMAIN one)
  PROVE  Starts(s \o w, ms, one)
  <1> DEFINE Keys == {"format", "shape", "type"} \cup Rest
             n == Len(First(ms))
  <1>1. s \in Seq(Keys) /\ w \in Seq(Keys) /\ n \in Nat /\ n <= Len(s)
    BY DEF Starts, First
  <1>2. \A i \in 1 .. n : s[i] = First(ms)[i]
    BY DEF Starts
  <1>3. \A i \in n + 1 .. Len(s) : s[i] \in Rest \cap DOMAIN one
    BY DEF Starts
  <1> HIDE DEF n, Keys
  <1>4. /\ s \o w \in Seq(Keys) /\ Len(s \o w) = Len(s) + Len(w) /\ Len(s) \in Nat /\ Len(w) \in Nat
        /\ \A i \in 1 .. Len(s) + Len(w) : (s \o w)[i] = IF i <= Len(s) THEN s[i] ELSE w[i - Len(s)]
    BY ONLY <1>1
  <1>5. \A i \in 1 .. n : (s \o w)[i] = First(ms)[i]
    BY ONLY <1>1, <1>2, <1>4
  <1>6. ASSUME NEW i \in n + 1 .. Len(s \o w) PROVE (s \o w)[i] \in Rest \cap DOMAIN one
    <2>1. CASE i <= Len(s)
      BY <1>1, <1>3, <1>4, <2>1
    <2>2. CASE i > Len(s)
      <3>1. i - Len(s) \in 1 .. Len(w) /\ (s \o w)[i] = w[i - Len(s)]
        BY ONLY <1>1, <1>4, <2>2, i \in n + 1 .. Len(s \o w)
      <3> QED BY ONLY <3>1, w \in Seq(Rest \cap DOMAIN one)
    <2> QED BY ONLY <1>1, <1>4, <2>1, <2>2, i \in n + 1 .. Len(s \o w)
  <1>7. n <= Len(s \o w)
    BY ONLY <1>1, <1>4
  <1> QED BY <1>4, <1>5, <1>6, <1>7 DEF Starts, n, Keys

\* The keys of a tensor's combinations.
LEMMA KeysStart ==
  ASSUME NEW ms \in BOOLEAN, NEW isInput \in BOOLEAN, NEW one,
         isInput => {"data_distribute", "value_range"} \subseteq DOMAIN one
  PROVE  Starts(Des!add_new_key_to_cross_list(one, Des!CrossList(isInput, ms)), ms, one)
  <1>1. Starts(First(ms), ms, one)
    <2>1. CASE ms BY <2>1 DEF Starts, First
    <2>2. CASE ~ms BY <2>2 DEF Starts, First
    <2> QED BY <2>1, <2>2
  <1> DEFINE Only(k) == IF k \in DOMAIN one THEN <<k>> ELSE <<>>
             range == IF isInput THEN <<"data_distribute", "value_range">> ELSE <<>>
  <1>2. range \in Seq(Rest \cap DOMAIN one)
    <2>1. CASE isInput
      <3>1. "data_distribute" \in Rest \cap DOMAIN one /\ "value_range" \in Rest \cap DOMAIN one
        BY <2>1 DEF Rest
      <3>2. range = <<"data_distribute", "value_range">>
        BY <2>1
      <3> HIDE DEF range
      <3> QED BY ONLY <3>1, <3>2
    <2>2. CASE ~isInput
      BY <2>2
    <2> QED BY <2>1, <2>2
  <1>3. ASSUME NEW k \in Rest PROVE Only(k) \in Seq(Rest \cap DOMAIN one)
    <2>1. CASE k \in DOMAIN one
      <3>1. k \in Rest \cap DOMAIN one /\ Only(k) = <<k>>
        BY <2>1
      <3> HIDE DEF Only
      <3> QED BY ONLY <3>1
    <2>2. CASE k \notin DOMAIN one
      BY <2>2
    <2> QED BY <2>1, <2>2
  <1>4. Des!add_new_key_to_cross_list(one, Des!CrossList(isInput, ms))
          = (((First(ms) \o range) \o Only("shape_range")) \o Only("value")) \o Only("is_const")
    BY DEF Des!add_new_key_to_cross_list, Des!CrossList, First
  <1> HIDE DEF Only, range
  <1>5. Starts(First(ms) \o range, ms, one)
    BY <1>1, <1>2, Lengthened
  <1>6. Starts((First(ms) \o range) \o Only("shape_range"), ms, one)
    BY <1>3, <1>5, Lengthened DEF Rest
  <1>7. Starts(((First(ms) \o range) \o Only("shape_range")) \o Only("value"), ms, one)
    BY <1>3, <1>6, Lengthened DEF Rest
  <1>8. Starts((((First(ms) \o range) \o Only("shape_range")) \o Only("value")) \o Only("is_const"), ms, one)
    BY <1>3, <1>7, Lengthened DEF Rest
  <1> QED BY <1>4, <1>8

\* The tensor lists one distribution and one range.
OneOf(d) == Len(Des!get_data_distribute_list(d)) = 1 /\ Len(Des!get_value_range_list(d)) = 1

SingleRest(d, isInput) == ~isInput \/ OneOf(d)

\* One list of shapes, with [] as one shape.
LEMMA ShapesOf ==
  ASSUME NEW f, f \in Seq({f[i] : i \in 1 .. Len(f)}), Len(f) <= MaxAlternatives
  PROVE  /\ Des!list_list(f) \in Seq({Des!list_list(f)[i] : i \in 1 .. Len(Des!list_list(f))})
         /\ Len(Des!list_list(f)) \in 1 .. MaxAlternatives
  <1>0. MaxAlternatives \in Nat \ {0} /\ Len(f) \in Nat
    <2>1. MaxAlternatives \in Nat \ {0} BY DesAssumption, Zenon
    <2> QED BY ONLY <2>1, f \in Seq({f[i] : i \in 1 .. Len(f)})
  <1>1. CASE f = <<>>
    <2>1. Des!list_list(f) = <<SCALAR>>
      BY <1>1 DEF Des!list_list
    <2> QED BY <1>0, <2>1
  <1>2. CASE f # <<>>
    <2>1. Des!list_list(f) = f
      BY <1>2 DEF Des!list_list
    <2>2. Len(f) # 0
      BY <1>2
    <2> QED BY <1>0, <2>1, <2>2
  <1> QED BY <1>1, <1>2

\* The lists of formats, shapes and types are those of the description, and none
\* is empty or too long.
LEMMA FirstLists ==
  ASSUME NEW d, NEW isInput \in BOOLEAN, NEW ms \in BOOLEAN, OfCase(d, isInput, ms),
         NEW k \in {"format", "shape", "type"}, k = "format" => ~ms
  PROVE  LET one == Des!make_desc(d, isInput, ms) IN
         /\ k \in DOMAIN one
         /\ one[k] = IF k = "shape" THEN Des!list_list(d[k]) ELSE d[k]
         /\ Len(one[k]) \in 1 .. MaxAlternatives
  <1> DEFINE one == Des!make_desc(d, isInput, ms)
             basic == Des!one_desc(d, isInput, ms)
  <1>1. k \in DOMAIN basic /\ basic[k] = Des!Alternatives(d, k)
    BY DEF Des!one_desc, Des!BasicKeys
  <1>2. k \in DOMAIN one /\ one[k] = Des!Alternatives(d, k)
    <2> HIDE DEF basic
    <2>1. CASE isInput
      <3>1. one = [q \in DOMAIN basic \cup Des!ValueKeys(d) |-> Des!Alternatives(d, q)]
        BY <2>1 DEF Des!make_desc, Des!deal_with_value, basic
      <3> HIDE DEF one
      <3> QED BY <1>1, <3>1
    <2>2. CASE ~isInput
      <3>1. one = basic
        BY <2>2 DEF Des!make_desc, basic
      <3> QED BY <1>1, <3>1
    <2> QED BY <2>1, <2>2
  <1>3. Des!Alternatives(d, k) = IF k = "shape" THEN Des!list_list(d[k]) ELSE d[k]
    BY DEF Des!Alternatives
  <1>4. MaxAlternatives \in Nat
    BY DesAssumption
  <1>5. Des!IsList(d[k]) => /\ d[k] \in Seq({d[k][i] : i \in 1 .. Len(d[k])})
                            /\ Len(d[k]) <= MaxAlternatives
    BY DEF OfCase
  <1>6. CASE k = "shape"
    <2>1. Des!IsList(d[k])
      BY <1>6 DEF OfCase, Des!make_desc_valid, Des!check_shape_valid, Des!check_list_list_valid
    <2> QED BY <1>2, <1>3, <1>5, <1>6, <2>1, ShapesOf
  <1>7. CASE k # "shape"
    <2>1. Des!IsList(d[k]) /\ d[k] # <<>>
      BY <1>7 DEF OfCase, Des!make_desc_valid, Des!check_list_str_valid
    <2>2. Len(d[k]) \in 1 .. MaxAlternatives
      <3>1. PICK l : l = d[k]
        OBVIOUS
      <3>2. l \in Seq({l[i] : i \in 1 .. Len(l)}) /\ Len(l) <= MaxAlternatives /\ l # <<>>
        BY <1>5, <2>1, <3>1
      <3> QED BY ONLY <1>4, <3>1, <3>2
    <2> QED BY <1>2, <1>3, <1>7, <2>2
  <1> QED BY <1>6, <1>7

\* The other keys that may be combined have a list each that is not empty, and of
\* one element if the tensor has one distribution and one range.
LEMMA RestLists ==
  ASSUME NEW d, NEW isInput \in BOOLEAN, NEW ms \in BOOLEAN, OfCase(d, isInput, ms),
         NEW k \in Rest \cap DOMAIN Des!make_desc(d, isInput, ms)
  PROVE  LET one == Des!make_desc(d, isInput, ms) IN
         Len(one[k]) \in Nat \ {0} /\ (SingleRest(d, isInput) => Len(one[k]) = 1)
  <1> DEFINE one == Des!make_desc(d, isInput, ms)
             basic == Des!one_desc(d, isInput, ms)
  <1>1. /\ \A q \in DOMAIN basic : basic[q] = Des!Alternatives(d, q)
        /\ k \in DOMAIN basic => k = "shape_range" \/ isInput
        /\ k \in DOMAIN basic => k \notin {"value", "is_const"}
    BY DEF Des!one_desc, Des!BasicKeys, Rest
  <1>2. /\ one[k] = Des!Alternatives(d, k)
        /\ k = "shape_range" \/ isInput
        /\ k = "is_const" => Des!given(d.is_const)
    <2> HIDE DEF basic
    <2>1. CASE isInput
      <3>1. one = [q \in DOMAIN basic \cup Des!ValueKeys(d) |-> Des!Alternatives(d, q)]
        BY <2>1 DEF Des!make_desc, Des!deal_with_value, basic
      <3> HIDE DEF one
      <3>2. k \in DOMAIN basic \cup Des!ValueKeys(d) /\ one[k] = Des!Alternatives(d, k)
        BY <3>1 DEF one
      <3> QED BY <1>1, <2>1, <3>2 DEF Des!ValueKeys
    <2>2. CASE ~isInput
      <3>1. one = basic
        BY <2>2 DEF Des!make_desc, basic
      <3> QED BY <1>1, <2>2, <3>1
    <2> QED BY <2>1, <2>2
  <1>3. CASE k \in {"value", "shape_range"}
    <2>1. one[k] = <<d[k]>>
      BY <1>2, <1>3 DEF Des!Alternatives
    <2> HIDE DEF one
    <2> QED BY <2>1 DEF one
  <1>4. CASE k = "is_const"
    <2>1. one[k] = d.is_const /\ isInput
      BY <1>2, <1>4 DEF Des!Alternatives
    <2>2. d.is_const \in {<<TRUE>>, <<FALSE>>}
      BY <1>2, <1>4, <2>1 DEF OfCase, Des!make_desc_valid, Des!check_is_const, Des!given
    <2>3. PICK l : l = d.is_const
      OBVIOUS
    <2>4. l = <<TRUE>> \/ l = <<FALSE>>
      BY ONLY <2>2, <2>3
    <2>5. Len(l) = 1
      <3>1. CASE l = <<TRUE>> BY ONLY <3>1
      <3>2. CASE l = <<FALSE>> BY ONLY <3>2
      <3> QED BY ONLY <2>4, <3>1, <3>2
    <2>6. one[k] = l
      BY <2>1, <2>3
    <2> HIDE DEF one
    <2>7. Len(one[k]) = 1
      BY ONLY <2>5, <2>6, Zenon
    <2>8. Len(one[k]) \in Nat \ {0}
      BY ONLY <2>7
    <2> QED BY <2>7, <2>8 DEF one
  <1>5. CASE k = "data_distribute"
    <2>1. one[k] = Des!get_data_distribute_list(d) /\ isInput
      BY <1>2, <1>5 DEF Des!Alternatives
    <2>2. CASE Des!Reads(d, "data_distribute")
      <3>1. Des!check_list_str_valid(d.data_distribute)
        BY <2>1, <2>2 DEF OfCase, Des!make_desc_valid
      <3>2. PICK l : l = d.data_distribute
        OBVIOUS
      <3>3. l \in Seq({l[i] : i \in 1 .. Len(l)}) /\ l # <<>>
        BY <3>1, <3>2 DEF OfCase, Des!check_list_str_valid
      <3>4. Len(l) \in Nat \ {0}
        BY ONLY <3>3
      <3>5. one[k] = l
        BY <2>1, <2>2, <3>2 DEF Des!get_data_distribute_list
      <3> HIDE DEF one
      <3> QED BY <2>1, <3>4, <3>5 DEF one, SingleRest, OneOf
    <2>3. CASE ~Des!Reads(d, "data_distribute")
      <3>1. one[k] = <<UNIFORM>>
        BY <2>1, <2>3 DEF Des!get_data_distribute_list
      <3> HIDE DEF one
      <3> QED BY <3>1 DEF one
    <2> QED BY <2>2, <2>3
  <1>6. CASE k = "value_range"
    <2>1. one[k] = Des!get_value_range_list(d) /\ isInput
      BY <1>2, <1>6 DEF Des!Alternatives
    <2>2. CASE Des!Reads(d, "value_range")
      <3>1. Des!check_range_value_valid(d.value_range)
        BY <2>1, <2>2 DEF OfCase, Des!make_desc_valid
      <3>2. PICK l : l = d.value_range
        OBVIOUS
      <3>3. l \in Seq({l[i] : i \in 1 .. Len(l)}) /\ Len(l) <= MaxAlternatives
        BY <3>1, <3>2 DEF OfCase, Des!check_range_value_valid, Des!check_list_list_valid
      <3>4. Len(Des!list_list(l)) \in Nat \ {0}
        <4>1. Len(Des!list_list(l)) \in 1 .. MaxAlternatives
          BY <3>3, ShapesOf
        <4> QED BY ONLY <4>1
      <3>5. one[k] = Des!list_list(l)
        BY <2>1, <2>2, <3>2 DEF Des!get_value_range_list
      <3> HIDE DEF one
      <3> QED BY <2>1, <3>4, <3>5 DEF one, SingleRest, OneOf
    <2>3. CASE ~Des!Reads(d, "value_range")
      <3>1. one[k] = <<RANGE>>
        BY <2>1, <2>3 DEF Des!get_value_range_list
      <3> HIDE DEF one
      <3> QED BY <3>1 DEF one
    <2> QED BY <2>2, <2>3
  <1> QED BY <1>3, <1>4, <1>5, <1>6 DEF Rest

\* The combinations as positions in each list.
LEMMA Positions ==
  ASSUME NEW lens, Len(lens) \in Nat \ {0}, \A k \in 1 .. Len(lens) : lens[k] \in Nat \ {0}
  PROVE  LET f == Des!after(lens) IN
         /\ DOMAIN Des!product(lens) = 1 .. lens[1] * f[1] /\ lens[1] * f[1] \in Nat
         /\ \A c \in 1 .. lens[1] * f[1] : \A k \in 1 .. Len(lens) :
              /\ Des!product(lens)[c][k] = (((c - 1) \div f[k]) % lens[k]) + 1
              /\ Des!product(lens)[c][k] \in 1 .. lens[k]
  <1>1. PICK f : f = Des!after(lens)
    OBVIOUS
  <1>2. \A k \in 1 .. Len(lens) : f[k] \in Nat \ {0}
    BY <1>1, AfterPositive
  <1>3. lens[1] \in Nat \ {0} /\ f[1] \in Nat \ {0}
    BY <1>2
  <1>4. lens[1] * f[1] \in Nat
    BY ONLY <1>3
  <1>5. PICK N \in Nat : N = lens[1] * f[1]
    BY <1>4
  <1>6. Des!product(lens) = [c \in 1 .. N |-> [k \in 1 .. Len(lens) |-> (((c - 1) \div f[k]) % lens[k]) + 1]]
    BY <1>1, <1>5 DEF Des!product
  <1>7. ASSUME NEW c \in 1 .. N, NEW k \in 1 .. Len(lens)
        PROVE  (((c - 1) \div f[k]) % lens[k]) + 1 \in 1 .. lens[k]
    <2>1. PICK a \in Nat \ {0}, l \in Nat \ {0} : a = f[k] /\ l = lens[k]
      BY <1>2
    <2>2. PICK q \in Int : q = (c - 1) \div a
      <3>1. c - 1 \in Int OBVIOUS
      <3> QED BY ONLY <3>1, a \in Nat \ {0}
    <2>3. q % l \in 0 .. l - 1
      BY ONLY q \in Int, l \in Nat \ {0}
    <2>4. (q % l) + 1 \in 1 .. l
      BY ONLY <2>3, l \in Nat \ {0}
    <2> QED BY ONLY <2>1, <2>2, <2>4
  <1>8. ASSUME NEW c \in 1 .. N, NEW k \in 1 .. Len(lens)
        PROVE  Des!product(lens)[c][k] = (((c - 1) \div f[k]) % lens[k]) + 1
    BY <1>6
  <1> QED BY <1>1, <1>4, <1>5, <1>6, <1>7, <1>8

\* A factor of at least one makes no product smaller.
LEMMA FactorsGrow ==
  ASSUME NEW a \in Nat, NEW b \in Nat, NEW c \in Nat, b <= c
  PROVE  a * b <= a * c /\ a * b \in Nat /\ a * c \in Nat
  <1>1. a * (c - b) >= 0 BY SMT
  <1>2. a * c = a * b + a * (c - b) BY SMT
  <1>3. a * b \in Nat /\ a * c \in Nat OBVIOUS
  <1> QED BY <1>1, <1>2, <1>3

\* Where the first keys are three.
LEMMA ProductOfThree ==
  ASSUME NEW lens, Len(lens) \in Nat, Len(lens) >= 3, \A k \in 1 .. Len(lens) : lens[k] \in Nat \ {0}
  PROVE  LET f == Des!after(lens)
             N == lens[1] * f[1]
             ones == \A k \in 4 .. Len(lens) : lens[k] = 1
         IN  /\ lens[1] * (lens[2] * lens[3]) <= N
             /\ ones => /\ N = lens[1] * (lens[2] * lens[3])
                        /\ f[1] = lens[2] * lens[3] /\ f[2] = lens[3] /\ f[3] = 1
  <1>1. PICK f : f = Des!after(lens)
    OBVIOUS
  <1>2. f[1] = lens[2] * f[2] /\ f[2] = lens[3] * f[3]
    BY <1>1, AfterEquation
  <1>3. \A k \in 1 .. 3 : f[k] \in Nat \ {0} /\ lens[k] \in Nat \ {0}
    BY <1>1, AfterPositive
  <1>4. PICK l1 \in Nat, l2 \in Nat, l3 \in Nat, a \in Nat :
          l1 = lens[1] /\ l2 = lens[2] /\ l3 = lens[3] /\ a = f[3] /\ a >= 1
    BY <1>3
  <1>5. l3 * 1 <= l3 * a /\ l3 * a \in Nat /\ l3 * 1 = l3
    BY ONLY FactorsGrow, l3 \in Nat, a \in Nat, <1>4
  <1>6. l2 * l3 <= l2 * (l3 * a) /\ l2 * l3 \in Nat /\ l2 * (l3 * a) \in Nat
    BY ONLY FactorsGrow, l2 \in Nat, l3 \in Nat, <1>5
  <1>7. l1 * (l2 * l3) <= l1 * (l2 * (l3 * a))
    BY ONLY FactorsGrow, l1 \in Nat, <1>6
  <1>8. lens[1] * (lens[2] * lens[3]) <= lens[1] * f[1]
    BY ONLY <1>2, <1>4, <1>7
  <1>9. ASSUME \A k \in 4 .. Len(lens) : lens[k] = 1
        PROVE  f[1] = lens[2] * lens[3] /\ f[2] = lens[3] /\ f[3] = 1
    <2>1. f[3] = 1
      BY <1>1, <1>9, AfterOne
    <2>2. f[2] = l3 * 1
      BY ONLY <1>2, <1>4, <2>1
    <2> QED BY ONLY <1>2, <1>4, <1>5, <2>1, <2>2
  <1> QED BY <1>1, <1>8, <1>9, Zenon

\* And where they are two.
LEMMA ProductOfTwo ==
  ASSUME NEW lens, Len(lens) \in Nat, Len(lens) >= 2, \A k \in 1 .. Len(lens) : lens[k] \in Nat \ {0}
  PROVE  LET f == Des!after(lens)
             N == lens[1] * f[1]
             ones == \A k \in 3 .. Len(lens) : lens[k] = 1
         IN  /\ lens[1] * lens[2] <= N
             /\ ones => N = lens[1] * lens[2] /\ f[1] = lens[2] /\ f[2] = 1
  <1>1. PICK f : f = Des!after(lens)
    OBVIOUS
  <1>2. f[1] = lens[2] * f[2]
    BY <1>1, AfterEquation
  <1>3. \A k \in 1 .. 2 : f[k] \in Nat \ {0} /\ lens[k] \in Nat \ {0}
    BY <1>1, AfterPositive
  <1>4. PICK l1 \in Nat, l2 \in Nat, a \in Nat : l1 = lens[1] /\ l2 = lens[2] /\ a = f[2] /\ a >= 1
    BY <1>3
  <1>5. l2 * 1 <= l2 * a /\ l2 * a \in Nat /\ l2 * 1 = l2
    BY ONLY FactorsGrow, l2 \in Nat, a \in Nat, <1>4
  <1>6. l1 * l2 <= l1 * (l2 * a)
    BY ONLY FactorsGrow, l1 \in Nat, l2 \in Nat, <1>5
  <1>7. lens[1] * lens[2] <= lens[1] * f[1]
    BY ONLY <1>2, <1>4, <1>6
  <1>8. ASSUME \A k \in 3 .. Len(lens) : lens[k] = 1
        PROVE  f[1] = lens[2] /\ f[2] = 1
    <2>1. f[2] = 1
      BY <1>1, <1>8, AfterOne
    <2> QED BY ONLY <1>2, <1>4, <1>5, <2>1
  <1> QED BY <1>1, <1>7, <1>8, Zenon

\* A product of the numbers of formats, shapes and types, in the order that they
\* vary, and the positions of the c-th combination of them.
Size(ms, one) ==
  IF ms THEN Len(one["type"]) * Len(one["shape"])
  ELSE Len(one["format"]) * (Len(one["shape"]) * Len(one["type"]))

At(c, skip, l) == (((c - 1) \div skip) % l) + 1

Place(ms, one, c) ==
  [k \in {"format", "shape", "type"} |->
     CASE k = "format" -> IF ms THEN 1 ELSE At(c, Len(one["shape"]) * Len(one["type"]), Len(one["format"]))
       [] k = "shape" -> At(c, IF ms THEN 1 ELSE Len(one["type"]), Len(one["shape"]))
       [] k = "type" -> At(c, IF ms THEN Len(one["shape"]) ELSE 1, Len(one["type"]))]

\* Keys of a tensor none of whose lists is empty; and those after the first ones
\* have one alternative.
Fit(keys, ms, one) ==
  Starts(keys, ms, one) /\ \A i \in 1 .. Len(keys) : Len(one[keys[i]]) \in Nat \ {0}

Flat(keys, ms, one) ==
  \A i \in Len(First(ms)) + 1 .. Len(keys) : Len(one[keys[i]]) = 1

\* The keys of the combinations of a tensor and the lengths of their lists.
LEMMA KeysOfTensor ==
  ASSUME NEW d, NEW isInput \in BOOLEAN, NEW ms \in BOOLEAN, OfCase(d, isInput, ms),
         NEW one, one = Des!make_desc(d, isInput, ms),
         NEW keys, keys = Des!add_new_key_to_cross_list(one, Des!CrossList(isInput, ms))
  PROVE  Fit(keys, ms, one) /\ (SingleRest(d, isInput) => Flat(keys, ms, one))
  <1> DEFINE n == Len(First(ms))
  <1>1. isInput => {"data_distribute", "value_range"} \subseteq DOMAIN one
    <2> SUFFICES ASSUME isInput PROVE {"data_distribute", "value_range"} \subseteq DOMAIN one
      OBVIOUS
    <2>1. {"data_distribute", "value_range"} \subseteq DOMAIN Des!one_desc(d, isInput, ms)
      BY DEF Des!one_desc, Des!BasicKeys
    <2> QED BY <2>1 DEF Des!make_desc, Des!deal_with_value
  <1>2. Starts(keys, ms, one)
    BY <1>1, KeysStart
  <1>3. n \in Nat /\ Len(keys) \in Nat
    BY <1>2 DEF Starts, First
  <1>4. \A i \in 1 .. n : keys[i] \in {"format", "shape", "type"} /\ (keys[i] = "format" => ~ms)
    BY <1>2 DEF Starts, First
  <1> HIDE DEF n
  <1>5. ASSUME NEW i \in 1 .. Len(keys)
        PROVE  Len(one[keys[i]]) \in Nat \ {0} /\ (i \in n + 1 .. Len(keys) /\ (SingleRest(d, isInput)) => Len(one[keys[i]]) = 1)
    <2>1. CASE i \in 1 .. n
      <3>1. PICK k \in {"format", "shape", "type"} : k = keys[i] /\ (k = "format" => ~ms)
        BY <1>4, <2>1
      <3>2. Len(one[k]) \in 1 .. MaxAlternatives
        BY <3>1, FirstLists
      <3>3. Len(one[k]) \in Nat \ {0} /\ i \notin n + 1 .. Len(keys)
        BY ONLY <1>3, <2>1, <3>2
      <3> QED BY ONLY <3>1, <3>3
    <2>2. CASE i \in n + 1 .. Len(keys)
      <3>1. PICK k \in Rest \cap DOMAIN one : k = keys[i]
        BY <1>2, <2>2 DEF Starts, n
      <3>2. k \in Rest \cap DOMAIN Des!make_desc(d, isInput, ms)
        OBVIOUS
      <3>3. /\ Len(Des!make_desc(d, isInput, ms)[k]) \in Nat \ {0}
            /\ SingleRest(d, isInput) => Len(Des!make_desc(d, isInput, ms)[k]) = 1
        BY <3>2, RestLists
      <3>4. Len(one[k]) \in Nat \ {0} /\ (SingleRest(d, isInput) => Len(one[k]) = 1)
        BY <3>3
      <3> QED BY ONLY <3>1, <3>4
    <2> QED BY ONLY <1>3, <2>1, <2>2, i \in 1 .. Len(keys)
  <1>6. \A i \in n + 1 .. Len(keys) : i \in 1 .. Len(keys)
    BY ONLY <1>3
  <1>7. SingleRest(d, isInput) => \A i \in n + 1 .. Len(keys) : Len(one[keys[i]]) = 1
    BY ONLY <1>5, <1>6
  <1> QED BY <1>2, <1>5, <1>7 DEF n, Fit, Flat

\* What is done to a combination afterwards leaves its format, shape and type, or
\* makes an optional tensor of it.
LEMMA Adjusted ==
  ASSUME NEW p, NEW one, {"shape", "type"} \subseteq DOMAIN p
  PROVE  LET r == Des!set_typical_shape_in_cur_params(Des!check_cur_params_undefined(p), one) IN
         Des!Optional(r) \/ \A k \in {"format", "shape", "type"} \cap DOMAIN r : k \in DOMAIN p /\ r[k] = p[k]
  <1> DEFINE q == Des!check_cur_params_undefined(p)
             r == Des!set_typical_shape_in_cur_params(q, one)
  <1>1. /\ {"shape", "type"} \subseteq DOMAIN q
        /\ q.type = UNDEFINED \/ q = p
    BY DEF Des!check_cur_params_undefined
  <1> HIDE DEF q
  <1>2. "type" \in DOMAIN r /\ \A k \in {"format", "shape", "type"} \cap DOMAIN r : k \in DOMAIN q /\ r[k] = q[k]
    <2>1. CASE q.shape \notin Des!Dynamic
      BY <1>1, <2>1 DEF Des!set_typical_shape_in_cur_params
    <2>2. CASE q.shape \in Des!Dynamic
      BY <1>1, <2>2 DEF Des!set_typical_shape_in_cur_params
    <2> QED BY <2>1, <2>2
  <1> HIDE DEF r
  <1>3. r.type = q.type
    BY <1>2
  <1> QED BY <1>1, <1>2, <1>3 DEF Des!Optional, q, r

\* Where each of the first keys is in a list that starts with them; 0 for the
\* format that a MindSpore tensor does not have.
Index(ms, k) == IF ms THEN CASE k = "type" -> 1 [] k = "shape" -> 2 [] k = "format" -> 0
                ELSE CASE k = "format" -> 1 [] k = "shape" -> 2 [] k = "type" -> 3

\* They are there, and nowhere else.
LEMMA IndexOf ==
  ASSUME NEW ms \in BOOLEAN, NEW one, NEW keys, Starts(keys, ms, one), NEW k \in {"format", "shape", "type"}
  PROVE  /\ \A i \in 1 .. Len(keys) : keys[i] = k <=> i = Index(ms, k)
         /\ (k = "format" => ~ms) => Index(ms, k) \in 1 .. Len(keys)
  <1>1. /\ Len(keys) \in Nat /\ Len(First(ms)) \in Nat /\ Len(First(ms)) <= Len(keys)
        /\ \A i \in 1 .. Len(First(ms)) : keys[i] = First(ms)[i]
        /\ \A i \in Len(First(ms)) + 1 .. Len(keys) : keys[i] \in Rest
    BY DEF Starts, First
  <1>2. k \notin Rest
    BY DEF Rest
  <1>3. CASE ms
    <2>1. Len(First(ms)) = 2 /\ First(ms)[1] = "type" /\ First(ms)[2] = "shape"
      BY <1>3 DEF First
    <2>2. Index(ms, k) = CASE k = "type" -> 1 [] k = "shape" -> 2 [] k = "format" -> 0
      BY <1>3 DEF Index
    <2>3. \A i \in 1 .. Len(keys) : i = 1 \/ i = 2 \/ i \in 3 .. Len(keys)
      BY ONLY <1>1
    <2>4. /\ keys[1] = "type" /\ keys[2] = "shape" /\ 1 \in 1 .. Len(keys) /\ 2 \in 1 .. Len(keys)
          /\ \A i \in 3 .. Len(keys) : keys[i] # k
      BY ONLY <1>1, <1>2, <2>1
    <2>5. CASE k = "format"
      <3>1. \A i \in 1 .. Len(keys) : keys[i] # k
        BY ONLY <2>3, <2>4, <2>5
      <3>2. Index(ms, k) = 0
        BY <2>2, <2>5
      <3>3. \A i \in 1 .. Len(keys) : keys[i] = k <=> i = Index(ms, k)
        BY ONLY <3>1, <3>2
      <3> QED BY <1>3, <2>5, <3>2, <3>3
    <2>6. CASE k = "shape"
      <3>1. \A i \in 1 .. Len(keys) : keys[i] = k <=> i = 2
        BY ONLY <2>3, <2>4, <2>6
      <3> QED BY <2>1, <2>2, <2>4, <2>6, <3>1
    <2>7. CASE k = "type"
      <3>1. \A i \in 1 .. Len(keys) : keys[i] = k <=> i = 1
        BY ONLY <2>3, <2>4, <2>7
      <3> QED BY <2>1, <2>2, <2>4, <2>7, <3>1
    <2> QED BY <2>5, <2>6, <2>7
  <1>4. CASE ~ms
    <2>1. Len(First(ms)) = 3 /\ First(ms)[1] = "format" /\ First(ms)[2] = "shape" /\ First(ms)[3] = "type"
      BY <1>4 DEF First
    <2>2. Index(ms, k) = CASE k = "format" -> 1 [] k = "shape" -> 2 [] k = "type" -> 3
      BY <1>4 DEF Index
    <2>3. \A i \in 1 .. Len(keys) : i = 1 \/ i = 2 \/ i = 3 \/ i \in 4 .. Len(keys)
      BY ONLY <1>1
    <2> QED BY <1>1, <1>2, <1>4, <2>1, <2>2, <2>3
  <1> QED BY <1>3, <1>4

\* N combinations of positions in the lists of these keys; and there are no more
\* of them than of formats, shapes and types, each at its place.
Counted(combos, N, keys, ms, one) ==
  /\ DOMAIN combos = 1 .. N /\ N \in Nat /\ Size(ms, one) <= N
  /\ \A c \in 1 .. N : \A i \in 1 .. Len(keys) : combos[c][i] \in 1 .. Len(one[keys[i]])

AtPlaces(combos, N, ms, one) ==
  /\ N = Size(ms, one)
  /\ \A c \in 1 .. N : \A k \in {"format", "shape", "type"} :
       (k = "format" => ~ms) => combos[c][Index(ms, k)] = Place(ms, one, c)[k]

\* How many combinations there are, and which positions they have.
LEMMA SizeAndPlace ==
  ASSUME NEW ms \in BOOLEAN, NEW one, NEW keys, Fit(keys, ms, one),
         NEW lens, lens = [i \in 1 .. Len(keys) |-> Len(one[keys[i]])],
         NEW N, N = lens[1] * Des!after(lens)[1], NEW combos, combos = Des!product(lens)
  PROVE  Counted(combos, N, keys, ms, one) /\ (Flat(keys, ms, one) => AtPlaces(combos, N, ms, one))
  <1>1. /\ Len(keys) \in Nat /\ Len(First(ms)) <= Len(keys) /\ Len(lens) = Len(keys)
        /\ \A i \in 1 .. Len(First(ms)) : keys[i] = First(ms)[i]
    BY DEF Fit, Starts
  <1>2. \A i \in 1 .. Len(lens) : lens[i] = Len(one[keys[i]]) /\ lens[i] \in Nat \ {0}
    BY <1>1 DEF Fit
  <1>3. PICK f : f = Des!after(lens)
    OBVIOUS
  <1>4. N = lens[1] * f[1]
    BY <1>3
  <1>5. Len(lens) \in Nat \ {0}
    BY <1>1 DEF First
  <1>6. /\ DOMAIN combos = 1 .. N /\ N \in Nat
        /\ \A c \in 1 .. N : \A i \in 1 .. Len(lens) :
             /\ combos[c][i] = At(c, f[i], lens[i])
             /\ combos[c][i] \in 1 .. lens[i]
    <2>1. /\ DOMAIN Des!product(lens) = 1 .. lens[1] * Des!after(lens)[1] /\ lens[1] * Des!after(lens)[1] \in Nat
          /\ \A c \in 1 .. lens[1] * Des!after(lens)[1] : \A i \in 1 .. Len(lens) :
               /\ Des!product(lens)[c][i] = (((c - 1) \div Des!after(lens)[i]) % lens[i]) + 1
               /\ Des!product(lens)[c][i] \in 1 .. lens[i]
      <3>1. \A i \in 1 .. Len(lens) : lens[i] \in Nat \ {0}
        BY <1>2
      <3> QED BY ONLY <1>5, <3>1, Positions, Zenon
    <2>2. combos = Des!product(lens)
      OBVIOUS
    <2> QED BY ONLY <1>3, <1>4, <2>1, <2>2, Zenon DEF At
  <1>7. \A c \in 1 .. N : \A i \in 1 .. Len(keys) : combos[c][i] \in 1 .. Len(one[keys[i]])
    BY ONLY <1>1, <1>2, <1>6
  <1>8. CASE ms
    <2>1. keys[1] = "type" /\ keys[2] = "shape" /\ Len(lens) >= 2 /\ Len(First(ms)) = 2
      BY <1>1, <1>8 DEF First
    <2>2. lens[1] = Len(one["type"]) /\ lens[2] = Len(one["shape"])
      BY <1>1, <1>2, <2>1
    <2>3. Size(ms, one) = lens[1] * lens[2]
      BY <1>8, <2>2 DEF Size
    <2>4. /\ lens[1] * lens[2] <= N
          /\ (\A i \in 3 .. Len(lens) : lens[i] = 1) =>
               N = lens[1] * lens[2] /\ f[1] = lens[2] /\ f[2] = 1
      <3>1. /\ lens[1] * lens[2] <= lens[1] * f[1]
            /\ (\A i \in 3 .. Len(lens) : lens[i] = 1) =>
                 lens[1] * f[1] = lens[1] * lens[2] /\ f[1] = lens[2] /\ f[2] = 1
        BY <1>1, <1>2, <1>3, <2>1, ProductOfTwo
      <3> QED BY ONLY <1>4, <3>1
    <2>5. ASSUME \A i \in 3 .. Len(keys) : Len(one[keys[i]]) = 1,
                 NEW c \in 1 .. N, NEW k \in {"shape", "type"}
          PROVE  combos[c][Index(ms, k)] = Place(ms, one, c)[k]
      <3>1. f[1] = lens[2] /\ f[2] = 1
        BY <1>1, <1>2, <2>4, <2>5
      <3>2. Place(ms, one, c)[k] = IF k = "type" THEN At(c, lens[2], lens[1]) ELSE At(c, 1, lens[2])
        BY <1>8, <2>2 DEF Place
      <3>3. combos[c][1] = At(c, f[1], lens[1]) /\ combos[c][2] = At(c, f[2], lens[2])
        <4>1. 1 \in 1 .. Len(lens) /\ 2 \in 1 .. Len(lens)
          BY <1>1, <2>1
        <4> QED BY ONLY <1>6, <4>1, c \in 1 .. N, Zenon
      <3>4. Index(ms, k) = IF k = "type" THEN 1 ELSE 2
        BY <1>8 DEF Index
      <3> QED BY <3>1, <3>2, <3>3, <3>4
    <2>6. (\A i \in 3 .. Len(keys) : Len(one[keys[i]]) = 1) => N = lens[1] * lens[2]
      BY <1>1, <1>2, <2>4
    <2>7. Size(ms, one) <= N /\ Len(First(ms)) + 1 = 3
      BY ONLY <2>1, <2>3, <2>4
    <2> QED BY ONLY <1>3, <1>6, <1>8, <1>7, <2>3, <2>5, <2>6, <2>7 DEF Counted, Flat, AtPlaces
  <1>9. CASE ~ms
    <2>1. keys[1] = "format" /\ keys[2] = "shape" /\ keys[3] = "type" /\ Len(lens) >= 3 /\ Len(First(ms)) = 3
      BY <1>1, <1>9 DEF First
    <2>2. lens[1] = Len(one["format"]) /\ lens[2] = Len(one["shape"]) /\ lens[3] = Len(one["type"])
      BY <1>1, <1>2, <2>1
    <2>3. Size(ms, one) = lens[1] * (lens[2] * lens[3])
      BY <1>9, <2>2 DEF Size
    <2>4. /\ lens[1] * (lens[2] * lens[3]) <= N
          /\ (\A i \in 4 .. Len(lens) : lens[i] = 1) =>
               /\ N = lens[1] * (lens[2] * lens[3])
               /\ f[1] = lens[2] * lens[3] /\ f[2] = lens[3] /\ f[3] = 1
      <3>1. /\ lens[1] * (lens[2] * lens[3]) <= lens[1] * f[1]
            /\ (\A i \in 4 .. Len(lens) : lens[i] = 1) =>
                 /\ lens[1] * f[1] = lens[1] * (lens[2] * lens[3])
                 /\ f[1] = lens[2] * lens[3] /\ f[2] = lens[3] /\ f[3] = 1
        BY <1>1, <1>2, <1>3, <2>1, ProductOfThree
      <3> QED BY ONLY <1>4, <3>1
    <2>5. ASSUME \A i \in 4 .. Len(keys) : Len(one[keys[i]]) = 1,
                 NEW c \in 1 .. N, NEW k \in {"format", "shape", "type"}
          PROVE  combos[c][Index(ms, k)] = Place(ms, one, c)[k]
      <3>1. f[1] = lens[2] * lens[3] /\ f[2] = lens[3] /\ f[3] = 1
        BY <1>1, <1>2, <2>4, <2>5
      <3>2. Place(ms, one, c)[k] = CASE k = "format" -> At(c, lens[2] * lens[3], lens[1])
                                     [] k = "shape" -> At(c, lens[3], lens[2])
                                     [] k = "type" -> At(c, 1, lens[3])
        BY <1>9, <2>2 DEF Place
      <3>3. /\ combos[c][1] = At(c, f[1], lens[1]) /\ combos[c][2] = At(c, f[2], lens[2])
            /\ combos[c][3] = At(c, f[3], lens[3])
        <4>1. 1 \in 1 .. Len(lens) /\ 2 \in 1 .. Len(lens) /\ 3 \in 1 .. Len(lens)
          BY <1>1, <2>1
        <4> QED BY ONLY <1>6, <4>1, c \in 1 .. N, Zenon
      <3>4. Index(ms, k) = CASE k = "format" -> 1 [] k = "shape" -> 2 [] k = "type" -> 3
        BY <1>9 DEF Index
      <3> QED BY <3>1, <3>2, <3>3, <3>4
    <2>6. (\A i \in 4 .. Len(keys) : Len(one[keys[i]]) = 1) => N = lens[1] * (lens[2] * lens[3])
      BY <1>1, <1>2, <2>4
    <2>7. Size(ms, one) <= N /\ Len(First(ms)) + 1 = 4
      BY ONLY <2>1, <2>3, <2>4
    <2> QED BY ONLY <1>3, <1>6, <1>9, <1>7, <2>3, <2>5, <2>6, <2>7 DEF Counted, Flat, AtPlaces
  <1> QED BY <1>8, <1>9

\* The combinations cs of a tensor d with the lists one: no fewer than those of
\* its formats, shapes and types, and each at its place if there are no others.
CombosOf(cs, d, isInput, ms, one) ==
  /\ DOMAIN cs = 1 .. Len(cs) /\ Len(cs) \in Nat /\ Size(ms, one) <= Len(cs)
  /\ SingleRest(d, isInput) =>
       /\ Len(cs) = Size(ms, one)
       /\ \A c \in 1 .. Len(cs) : Des!Optional(cs[c]) \/ Des!TakenAt(cs[c], d, Place(ms, one, c))

\* Those that cross_tensor makes: undefined tensors and typical shapes change no
\* format, shape or type of the others.
LEMMA TensorCases ==
  ASSUME NEW d, NEW isInput \in BOOLEAN, NEW ms \in BOOLEAN, OfCase(d, isInput, ms),
         NEW one, one = Des!make_desc(d, isInput, ms)
  PROVE  CombosOf(Des!cross_tensor(one, isInput, ms), d, isInput, ms, one)
  <1>1. PICK keys : keys = Des!add_new_key_to_cross_list(one, Des!CrossList(isInput, ms))
    OBVIOUS
  <1>2. Fit(keys, ms, one) /\ (SingleRest(d, isInput) => Flat(keys, ms, one))
    BY <1>1, KeysOfTensor
  <1>3. PICK lens : lens = [i \in 1 .. Len(keys) |-> Len(one[keys[i]])]
    OBVIOUS
  <1>4. PICK N : N = lens[1] * Des!after(lens)[1]
    OBVIOUS
  <1>5. PICK combos : combos = Des!product(lens)
    OBVIOUS
  <1>6. Counted(combos, N, keys, ms, one) /\ (Flat(keys, ms, one) => AtPlaces(combos, N, ms, one))
    BY ONLY <1>2, <1>3, <1>4, <1>5, ms \in BOOLEAN, SizeAndPlace
  <1>7. SingleRest(d, isInput) => AtPlaces(combos, N, ms, one)
    BY <1>2, <1>6
  <1>8. Len(combos) = N
    BY ONLY <1>6 DEF Counted
  <1> DEFINE Params(c) ==
        [k \in Des!ToSet(keys) \cup ({"ori_format", "ori_shape"} \cap DOMAIN one) |->
           one[k][combos[c][CHOOSE i \in 1 .. Len(keys) : keys[i] = Des!combine_ori_field_to_cross(k)]]]
             Made(c) == Des!set_typical_shape_in_cur_params(Des!check_cur_params_undefined(Params(c)), one)
             cs == Des!cross_tensor(one, isInput, ms)
  <1>9. cs = [c \in 1 .. N |-> Made(c)]
    BY <1>1, <1>3, <1>5, <1>8 DEF Des!cross_tensor
  <1>10. DOMAIN Params(1) = Des!ToSet(keys) \cup ({"ori_format", "ori_shape"} \cap DOMAIN one)
    OBVIOUS
  <1>11. ASSUME NEW c \in 1 .. N, SingleRest(d, isInput)
         PROVE  Des!Optional(Made(c)) \/ Des!TakenAt(Made(c), d, Place(ms, one, c))
    <2>1. PICK p : p = Params(c)
      OBVIOUS
    <2>2. PICK r : r = Made(c)
      OBVIOUS
    <2>3. DOMAIN keys = 1 .. Len(keys) /\ Len(keys) \in Nat
      BY <1>2 DEF Fit, Starts
    <2>4. ASSUME NEW k \in {"format", "shape", "type"}
          PROVE  /\ k \in DOMAIN p => (k = "format" => ~ms)
                 /\ (k = "format" => ~ms) =>
                      /\ k \in DOMAIN p /\ p[k] = one[k][Place(ms, one, c)[k]]
                      /\ Place(ms, one, c)[k] \in 1 .. Len(one[k])
      <3>1. k \in DOMAIN p <=> \E i \in 1 .. Len(keys) : keys[i] = k
        BY <2>1, <2>3 DEF Des!ToSet
      <3>2. Des!combine_ori_field_to_cross(k) = k
        BY DEF Des!combine_ori_field_to_cross
      <3>3. /\ \A i \in 1 .. Len(keys) : keys[i] = k <=> i = Index(ms, k)
            /\ (k = "format" => ~ms) => Index(ms, k) \in 1 .. Len(keys)
        BY <1>2, IndexOf DEF Fit
      <3>4. CASE ms /\ k = "format"
        <4>1. Index(ms, k) = 0
          BY <3>4 DEF Index
        <4>2. \A i \in 1 .. Len(keys) : keys[i] # k
          BY ONLY <3>3, <4>1
        <4> QED BY ONLY <3>1, <3>4, <4>2
      <3>5. CASE k = "format" => ~ms
        <4>1. /\ Index(ms, k) \in 1 .. Len(keys)
              /\ \A i \in 1 .. Len(keys) : keys[i] = k <=> i = Index(ms, k)
          BY ONLY <3>5, <3>3
        <4>2. (CHOOSE i \in 1 .. Len(keys) : keys[i] = k) = Index(ms, k)
          BY ONLY <4>1
        <4>3. k \in DOMAIN p /\ p[k] = one[k][combos[c][Index(ms, k)]]
          BY <2>1, <3>1, <3>2, <4>1, <4>2
        <4>4. combos[c][Index(ms, k)] = Place(ms, one, c)[k]
          BY <1>7, <1>11, <3>5 DEF AtPlaces
        <4>5. combos[c][Index(ms, k)] \in 1 .. Len(one[k])
          BY <1>6, <4>1 DEF Counted
        <4> QED BY ONLY <3>5, <4>3, <4>4, <4>5
      <3> QED BY <3>4, <3>5
    <2>5. Des!Optional(r) \/ \A k \in {"format", "shape", "type"} \cap DOMAIN r : k \in DOMAIN p /\ r[k] = p[k]
      <3>1. "shape" \in DOMAIN p /\ "type" \in DOMAIN p
        BY <2>4
      <3> HIDE DEF Params
      <3> QED BY <2>1, <2>2, <3>1, Adjusted
    <2>6. ASSUME ~Des!Optional(r), NEW k \in {"format", "shape", "type"} \cap DOMAIN r
          PROVE  LET l == IF k = "shape" THEN Des!list_list(d[k]) ELSE d[k]
                 IN  Place(ms, one, c)[k] \in 1 .. Len(l) /\ r[k] = l[Place(ms, one, c)[k]]
      <3>1. k \in DOMAIN p /\ r[k] = p[k]
        BY <2>5, <2>6
      <3>2. k = "format" => ~ms
        BY <2>4, <3>1
      <3>3. r[k] = one[k][Place(ms, one, c)[k]] /\ Place(ms, one, c)[k] \in 1 .. Len(one[k])
        BY <2>4, <3>1, <3>2
      <3>4. one[k] = IF k = "shape" THEN Des!list_list(d[k]) ELSE d[k]
        BY <3>2, FirstLists
      <3> QED BY ONLY <3>3, <3>4
    <2>7. Des!Optional(r) \/ Des!TakenAt(r, d, Place(ms, one, c))
      BY ONLY <2>6, Zenon DEF Des!TakenAt
    <2> QED BY ONLY <2>2, <2>7
  <1> HIDE DEF Made, Params, cs
  <1>12. DOMAIN cs = 1 .. N /\ Len(cs) = N /\ \A c \in 1 .. N : cs[c] = Made(c)
    BY ONLY <1>6, <1>9 DEF Counted
  <1>13. SingleRest(d, isInput) =>
          /\ Len(cs) = Size(ms, one)
          /\ \A c \in 1 .. Len(cs) : Des!Optional(cs[c]) \/ Des!TakenAt(cs[c], d, Place(ms, one, c))
    BY ONLY <1>7, <1>11, <1>12 DEF AtPlaces
  <1> QED BY ONLY <1>6, <1>12, <1>13 DEF cs, Counted, CombosOf

\* A position is one of the list's.
LEMMA AtRange ==
  ASSUME NEW c \in Nat \ {0}, NEW skip \in Nat \ {0}, NEW l \in Nat \ {0}
  PROVE  At(c, skip, l) \in 1 .. l
  <1>1. PICK q \in Int : q = (c - 1) \div skip
    <2>1. c - 1 \in Int OBVIOUS
    <2> QED BY ONLY <2>1, skip \in Nat \ {0}
  <1>2. q % l \in 0 .. l - 1
    BY ONLY q \in Int, l \in Nat \ {0}
  <1>3. (q % l) + 1 \in 1 .. l
    BY ONLY <1>2, l \in Nat \ {0}
  <1> QED BY ONLY <1>1, <1>3 DEF At

\* And the positions of a combination are within the bound.
LEMMA PlaceRange ==
  ASSUME NEW ms \in BOOLEAN, NEW one, NEW c \in Nat \ {0},
         \A k \in {"format", "shape", "type"} : (k = "format" => ~ms) => Len(one[k]) \in 1 .. MaxAlternatives
  PROVE  Place(ms, one, c) \in [{"format", "shape", "type"} -> 1 .. MaxAlternatives]
  <1>1. MaxAlternatives \in Nat \ {0}
    BY DesAssumption, Zenon
  <1>2. ASSUME NEW skip \in Nat \ {0}, NEW l \in 1 .. MaxAlternatives PROVE At(c, skip, l) \in 1 .. MaxAlternatives
    <2>1. l \in Nat \ {0}
      BY <1>1
    <2>2. At(c, skip, l) \in 1 .. l
      BY <2>1, AtRange
    <2> QED BY ONLY <1>1, <2>2, l \in 1 .. MaxAlternatives
  <1>3. PICK t \in 1 .. MaxAlternatives, s \in 1 .. MaxAlternatives : t = Len(one["type"]) /\ s = Len(one["shape"])
    OBVIOUS
  <1>4. s \in Nat \ {0} /\ t \in Nat \ {0} /\ 1 \in Nat \ {0} /\ 1 \in 1 .. MaxAlternatives
    BY ONLY <1>1, s \in 1 .. MaxAlternatives, t \in 1 .. MaxAlternatives
  <1>5. s * t \in Nat \ {0}
    <2>1. \A a, b \in Nat \ {0} : a * b \in Nat \ {0}
      OBVIOUS
    <2> QED BY ONLY <1>4, <2>1
  <1>6. ASSUME NEW k \in {"format", "shape", "type"} PROVE Place(ms, one, c)[k] \in 1 .. MaxAlternatives
    <2>1. CASE k = "format"
      <3>1. CASE ms
        BY <1>4, <2>1, <3>1 DEF Place
      <3>2. CASE ~ms
        <4>1. PICK f \in 1 .. MaxAlternatives : f = Len(one["format"])
          BY <3>2
        <4>2. Place(ms, one, c)[k] = At(c, s * t, f)
          BY <1>3, <2>1, <3>2, <4>1 DEF Place
        <4> QED BY <1>2, <1>5, <4>2
      <3> QED BY <3>1, <3>2
    <2>2. CASE k = "shape"
      <3>1. Place(ms, one, c)[k] = At(c, IF ms THEN 1 ELSE t, s)
        BY <1>3, <2>2 DEF Place
      <3>2. (IF ms THEN 1 ELSE t) \in Nat \ {0}
        BY <1>4
      <3> QED BY ONLY <1>2, <3>1, <3>2, s \in 1 .. MaxAlternatives
    <2>3. CASE k = "type"
      <3>1. Place(ms, one, c)[k] = At(c, IF ms THEN s ELSE 1, t)
        BY <1>3, <2>3 DEF Place
      <3>2. (IF ms THEN s ELSE 1) \in Nat \ {0}
        BY <1>4
      <3> QED BY ONLY <1>2, <3>1, <3>2, t \in 1 .. MaxAlternatives
    <2> QED BY <2>1, <2>2, <2>3
  <1>7. Place(ms, one, c) = [k \in {"format", "shape", "type"} |-> Place(ms, one, c)[k]]
    BY DEF Place
  <1> QED BY ONLY <1>6, <1>7

\* Tensors whose lists are of the same length have their combinations in the same
\* order.
SameLengths(ms, one, two) ==
  \A k \in {"format", "shape", "type"} : (k = "format" => ~ms) => Len(one[k]) = Len(two[k])

\* The place depends on these lengths alone.
LEMMA SamePlace ==
  ASSUME NEW ms \in BOOLEAN, NEW one, NEW two, SameLengths(ms, one, two)
  PROVE  Size(ms, one) = Size(ms, two) /\ \A c : Place(ms, one, c) = Place(ms, two, c)
  <1>1. CASE ms
    BY <1>1 DEF SameLengths, Size, Place
  <1>2. CASE ~ms
    BY <1>2 DEF SameLengths, Size, Place
  <1> QED BY <1>1, <1>2


\* The lists and the combinations of the case that the program is at.
InLists == Des!MakeList(Des!obj.inputs, TRUE)
OutLists == Des!MakeList(Des!obj.outputs, FALSE)

\* The case at hand has been accepted as far as its lists.
AcceptedCase ==
  /\ Des!obj.ms \in BOOLEAN
  /\ \A ds \in {Des!obj.inputs, Des!obj.outputs} : ds \in Seq({ds[i] : i \in 1 .. Len(ds)})
  /\ Des!obj.outputs # <<>>
  /\ \A i \in 1 .. Len(Des!obj.inputs) : OfCase(Des!obj.inputs[i], TRUE, Des!obj.ms)
  /\ \A i \in 1 .. Len(Des!obj.outputs) : OfCase(Des!obj.outputs[i], FALSE, Des!obj.ms)

\* Where a case has inputs, all lists have the lengths of the first input's.
LEMMA AllLists ==
  ASSUME AcceptedCase, Des!check_value_number_valid(InLists, OutLists), Len(Des!obj.inputs) > 0
  PROVE  /\ \A i \in 1 .. Len(Des!obj.inputs) : SameLengths(Des!obj.ms, InLists[1], InLists[i])
         /\ \A i \in 1 .. Len(Des!obj.outputs) : SameLengths(Des!obj.ms, InLists[1], OutLists[i])
  <1>1. PICK ins, outs, ms : ins = InLists /\ outs = OutLists /\ ms = Des!obj.ms
    OBVIOUS
  <1>2. PICK n \in Nat, m \in Nat : n = Len(Des!obj.inputs) /\ m = Len(Des!obj.outputs) /\ n > 0
    BY DEF AcceptedCase
  <1>3. /\ ins = [i \in 1 .. n |-> ins[i]] /\ outs = [i \in 1 .. m |-> outs[i]]
        /\ ins[1] = Des!make_desc(Des!obj.inputs[1], TRUE, ms)
    <2>1. /\ ins = [i \in 1 .. n |-> Des!make_desc(Des!obj.inputs[i], TRUE, Des!obj.ms)]
          /\ outs = [i \in 1 .. m |-> Des!make_desc(Des!obj.outputs[i], FALSE, Des!obj.ms)]
      BY <1>1, <1>2, Zenon DEF InLists, OutLists, Des!MakeList
    <2>2. 1 \in 1 .. n
      BY ONLY <1>2, n \in Nat
    <2> QED BY ONLY <1>1, <2>1, <2>2
  <1>4. /\ \A i \in 1 .. n + m : (ins \o outs)[i] = IF i <= n THEN ins[i] ELSE outs[i - n]
        /\ Len(ins \o outs) = n + m /\ Len(ins) = n
    <2> DEFINE S == {ins[i] : i \in 1 .. n} \cup {outs[i] : i \in 1 .. m}
    <2>1. ins \in Seq(S) /\ Len(ins) = n
      BY ONLY <1>3, n \in Nat
    <2>2. outs \in Seq(S) /\ Len(outs) = m
      BY ONLY <1>3, m \in Nat
    <2> HIDE DEF S
    <2>3. /\ ins \o outs \in Seq(S) /\ Len(ins \o outs) = n + m
          /\ \A i \in 1 .. n + m : (ins \o outs)[i] = IF i <= n THEN ins[i] ELSE outs[i - n]
      BY ONLY <2>1, <2>2, n \in Nat, m \in Nat
    <2> QED BY ONLY <2>1, <2>3
  <1>5. ins # <<>>
    BY <1>2, <1>4
  <1>6. ASSUME NEW k \in {"format", "shape", "type"}, k = "format" => ~ms
        PROVE  \A i \in 1 .. n + m : Len((ins \o outs)[i][k]) = Len(ins[1][k])
    <2>1. ms \in BOOLEAN /\ OfCase(Des!obj.inputs[1], TRUE, ms)
      <3>1. 1 \in 1 .. Len(Des!obj.inputs)
        BY ONLY <1>2, n \in Nat
      <3>2. Des!obj.ms \in BOOLEAN /\ OfCase(Des!obj.inputs[1], TRUE, Des!obj.ms)
        BY <3>1, Zenon DEF AcceptedCase
      <3> QED BY ONLY <1>1, <3>2
    <2>2. k \in DOMAIN ins[1]
      <3>1. k \in DOMAIN Des!make_desc(Des!obj.inputs[1], TRUE, ms)
        BY <1>6, <2>1, FirstLists
      <3> QED BY ONLY <1>3, <3>1
    <2>3. Des!check_value_number_valid(ins, outs)
      BY ONLY <1>1, Des!check_value_number_valid(InLists, OutLists)
    <2> QED BY ONLY <1>4, <1>5, <2>2, <2>3, k \in {"format", "shape", "type"} DEF Des!check_value_number_valid
  <1>7. ASSUME NEW i \in 1 .. n PROVE SameLengths(ms, ins[1], ins[i])
    <2>1. i \in 1 .. n + m /\ (ins \o outs)[i] = ins[i]
      BY ONLY <1>4, i \in 1 .. n, n \in Nat, m \in Nat
    <2> QED BY ONLY <1>6, <2>1 DEF SameLengths
  <1>8. ASSUME NEW i \in 1 .. m PROVE SameLengths(ms, ins[1], outs[i])
    <2>1. n + i \in 1 .. n + m /\ (ins \o outs)[n + i] = outs[i]
      BY ONLY <1>4, i \in 1 .. m, n \in Nat, m \in Nat
    <2> QED BY ONLY <1>6, <2>1 DEF SameLengths
  <1> QED BY ONLY <1>1, <1>2, <1>7, <1>8

InCases == Des!CrossAll(InLists, TRUE)
OutCases == Des!CrossAll(OutLists, FALSE)

\* The combinations of every tensor of the case.
LEMMA CaseTensors ==
  ASSUME AcceptedCase
  PROVE  /\ Len(Des!obj.inputs) \in Nat /\ Len(Des!obj.outputs) \in Nat \ {0}
         /\ Len(InCases) = Len(Des!obj.inputs) /\ Len(OutCases) = Len(Des!obj.outputs)
         /\ \A i \in 1 .. Len(Des!obj.inputs) :
              CombosOf(InCases[i], Des!obj.inputs[i], TRUE, Des!obj.ms, InLists[i])
         /\ \A i \in 1 .. Len(Des!obj.outputs) :
              CombosOf(OutCases[i], Des!obj.outputs[i], FALSE, Des!obj.ms, OutLists[i])
  <1>1. PICK n \in Nat, m \in Nat : n = Len(Des!obj.inputs) /\ m = Len(Des!obj.outputs)
    BY DEF AcceptedCase
  <1>2. m # 0
    <2>1. PICK os : os = Des!obj.outputs
      OBVIOUS
    <2>2. os \in Seq({os[i] : i \in 1 .. Len(os)}) /\ os # <<>>
      BY <2>1 DEF AcceptedCase
    <2> QED BY ONLY <1>1, <2>1, <2>2
  <1>3. PICK ms, is, os : ms \in BOOLEAN /\ ms = Des!obj.ms /\ is = Des!obj.inputs /\ os = Des!obj.outputs
    BY Zenon DEF AcceptedCase
  <1>4. PICK ins, outs : ins = InLists /\ outs = OutLists
    OBVIOUS
  <1>5. /\ ins = [i \in 1 .. n |-> Des!make_desc(is[i], TRUE, ms)]
        /\ outs = [i \in 1 .. m |-> Des!make_desc(os[i], FALSE, ms)]
    BY <1>1, <1>3, <1>4, Zenon DEF InLists, OutLists, Des!MakeList
  <1>6. Len(ins) = n /\ Len(outs) = m
    BY ONLY <1>5, n \in Nat, m \in Nat
  <1>7. /\ InCases = [i \in 1 .. n |-> Des!cross_tensor(ins[i], TRUE, ms)]
        /\ OutCases = [i \in 1 .. m |-> Des!cross_tensor(outs[i], FALSE, ms)]
    BY <1>3, <1>4, <1>6, Zenon DEF InCases, OutCases, Des!CrossAll
  <1>8. /\ \A i \in 1 .. n : OfCase(is[i], TRUE, ms)
        /\ \A i \in 1 .. m : OfCase(os[i], FALSE, ms)
    BY <1>1, <1>3, Zenon DEF AcceptedCase
  <1>9. ASSUME NEW i \in 1 .. n PROVE CombosOf(InCases[i], is[i], TRUE, ms, ins[i])
    <2>1. ins[i] = Des!make_desc(is[i], TRUE, ms) /\ InCases[i] = Des!cross_tensor(ins[i], TRUE, ms)
      BY ONLY <1>5, <1>7, i \in 1 .. n
    <2>2. CombosOf(Des!cross_tensor(ins[i], TRUE, ms), is[i], TRUE, ms, ins[i])
      BY ONLY <1>3, <1>8, <2>1, i \in 1 .. n, TensorCases
    <2> QED BY ONLY <2>1, <2>2
  <1>10. ASSUME NEW i \in 1 .. m PROVE CombosOf(OutCases[i], os[i], FALSE, ms, outs[i])
    <2>1. outs[i] = Des!make_desc(os[i], FALSE, ms) /\ OutCases[i] = Des!cross_tensor(outs[i], FALSE, ms)
      BY ONLY <1>5, <1>7, i \in 1 .. m
    <2>2. CombosOf(Des!cross_tensor(outs[i], FALSE, ms), os[i], FALSE, ms, outs[i])
      BY ONLY <1>3, <1>8, <2>1, i \in 1 .. m, TensorCases
    <2> QED BY ONLY <2>1, <2>2
  <1>11. Len(InCases) = n /\ Len(OutCases) = m
    BY ONLY <1>7, n \in Nat, m \in Nat
  <1> QED BY ONLY <1>1, <1>2, <1>3, <1>4, <1>9, <1>10, <1>11

\* All outputs have the same number of combinations, and no more than there are
\* sub-cases.
LEMMA EnoughCases ==
  ASSUME AcceptedCase, Des!check_value_number_valid(InLists, OutLists), Des!get_count_valid(InCases, OutCases)
  PROVE  /\ \A i \in 1 .. Len(OutCases) : Len(OutCases[i]) = Len(OutCases[1])
         /\ Len(OutCases[1]) <= Des!get_count(InCases, OutCases)
         /\ Len(OutCases[1]) \in Nat /\ Des!get_count(InCases, OutCases) \in Nat
  <1>1. PICK n \in Nat, m \in Nat \ {0} : n = Len(Des!obj.inputs) /\ m = Len(Des!obj.outputs)
    BY CaseTensors
  <1>2. /\ Len(InCases) = n /\ Len(OutCases) = m
        /\ \A i \in 1 .. n : CombosOf(InCases[i], Des!obj.inputs[i], TRUE, Des!obj.ms, InLists[i])
        /\ \A i \in 1 .. m : CombosOf(OutCases[i], Des!obj.outputs[i], FALSE, Des!obj.ms, OutLists[i])
    BY <1>1, CaseTensors
  <1>3. /\ \A i \in 1 .. m : Len(OutCases[i]) \in Nat /\ Len(OutCases[i]) = Size(Des!obj.ms, OutLists[i])
        /\ \A i \in 1 .. n : Len(InCases[i]) \in Nat /\ Size(Des!obj.ms, InLists[i]) <= Len(InCases[i])
    BY ONLY <1>2 DEF CombosOf, SingleRest
  <1>4. 1 \in 1 .. m
    BY ONLY m \in Nat \ {0}
  <1>5. CASE n > 1
    <2>1. \A i \in 1 .. m : SameLengths(Des!obj.ms, InLists[1], OutLists[i])
      BY <1>1, <1>5, AllLists
    <2>2. \A i \in 1 .. m : Size(Des!obj.ms, InLists[1]) = Size(Des!obj.ms, OutLists[i])
      BY <2>1, SamePlace DEF AcceptedCase
    <2>3. 1 \in 1 .. n /\ Des!get_count(InCases, OutCases) = Len(InCases[1])
      BY <1>2, <1>5 DEF Des!get_count
    <2> QED BY ONLY <1>2, <1>3, <1>4, <2>2, <2>3
  <1>6. CASE ~(n > 1)
    <2>1. Des!SameLength(OutCases) /\ Des!get_count(InCases, OutCases) = Len(OutCases[1])
      BY ONLY <1>2, <1>6, Des!get_count_valid(InCases, OutCases) DEF Des!get_count_valid, Des!get_count
    <2> QED BY ONLY <1>2, <1>3, <1>4, <2>1 DEF Des!SameLength
  <1> QED BY <1>5, <1>6

\* What a sub-case that is a combination has to have.
PairedDescs(ins, outs, o) ==
  \E pos \in [{"format", "shape", "type"} -> 1 .. MaxAlternatives] :
    /\ \A i \in 1 .. Len(o.inputs) : Des!Optional(ins[i]) \/ Des!TakenAt(ins[i], o.inputs[i], pos)
    /\ \A i \in 1 .. Len(o.outputs) : Des!Optional(outs[i]) \/ Des!TakenAt(outs[i], o.outputs[i], pos)

\* The c-th combinations of all tensors are at the same place, and there are as
\* many of them as sub-cases.
LEMMA SameCombination ==
  ASSUME AcceptedCase, Des!check_value_number_valid(InLists, OutLists), Des!get_count_valid(InCases, OutCases),
         Len(Des!obj.inputs) > 0, Des!OneDistribution(Des!obj)
  PROVE  /\ Des!get_count(InCases, OutCases) = Len(OutCases[1])
         /\ \A ins, outs : \A c \in 1 .. Len(OutCases[1]) :
              /\ \A i \in 1 .. Len(Des!obj.inputs) : ins[i] = InCases[i][c]
              /\ \A i \in 1 .. Len(Des!obj.outputs) : outs[i] = OutCases[i][c]
              => PairedDescs(ins, outs, Des!obj)
  <1>1. PICK n \in Nat, m \in Nat \ {0} : n = Len(Des!obj.inputs) /\ m = Len(Des!obj.outputs) /\ n > 0
    BY CaseTensors
  <1>2. PICK ms \in BOOLEAN : ms = Des!obj.ms
    BY Zenon DEF AcceptedCase
  <1>3. /\ Len(InCases) = n /\ Len(OutCases) = m
        /\ \A i \in 1 .. n : CombosOf(InCases[i], Des!obj.inputs[i], TRUE, ms, InLists[i])
        /\ \A i \in 1 .. m : CombosOf(OutCases[i], Des!obj.outputs[i], FALSE, ms, OutLists[i])
    BY <1>1, <1>2, CaseTensors
  <1>4. ASSUME NEW i \in 1 .. n PROVE SingleRest(Des!obj.inputs[i], TRUE)
    <2>1. PICK is : is = Des!obj.inputs
      OBVIOUS
    <2>2. is[i] \in Des!ToSet(is)
      BY <1>1, <2>1 DEF AcceptedCase, Des!ToSet
    <2>3. OneOf(is[i])
      BY <2>1, <2>2, Zenon DEF Des!OneDistribution, OneOf
    <2> QED BY ONLY <2>1, <2>3 DEF SingleRest
  <1>5. /\ \A i \in 1 .. n : SameLengths(ms, InLists[1], InLists[i])
        /\ \A i \in 1 .. m : SameLengths(ms, InLists[1], OutLists[i])
    BY <1>1, <1>2, AllLists
  <1>6. PICK one, N : one = InLists[1] /\ N = Size(ms, one)
    OBVIOUS
  <1>7. /\ \A i \in 1 .. n : Size(ms, InLists[i]) = N /\ \A c : Place(ms, InLists[i], c) = Place(ms, one, c)
        /\ \A i \in 1 .. m : Size(ms, OutLists[i]) = N /\ \A c : Place(ms, OutLists[i], c) = Place(ms, one, c)
    BY ONLY <1>5, <1>6, ms \in BOOLEAN, SamePlace
  <1>8. /\ \A i \in 1 .. n :
             /\ Len(InCases[i]) = N /\ N \in Nat
             /\ \A c \in 1 .. N :
                  Des!Optional(InCases[i][c]) \/ Des!TakenAt(InCases[i][c], Des!obj.inputs[i], Place(ms, one, c))
        /\ \A i \in 1 .. m :
             /\ Len(OutCases[i]) = N /\ N \in Nat
             /\ \A c \in 1 .. N :
                  Des!Optional(OutCases[i][c]) \/ Des!TakenAt(OutCases[i][c], Des!obj.outputs[i], Place(ms, one, c))
    BY ONLY <1>3, <1>4, <1>7 DEF CombosOf, SingleRest
  <1>9. 1 \in 1 .. n /\ 1 \in 1 .. m
    BY ONLY <1>1, n \in Nat, m \in Nat \ {0}
  <1>10. Des!get_count(InCases, OutCases) = N /\ Len(OutCases[1]) = N /\ N \in Nat
    BY ONLY <1>8, <1>9 DEF Des!get_count
  <1>11. ASSUME NEW c \in 1 .. N PROVE Place(ms, one, c) \in [{"format", "shape", "type"} -> 1 .. MaxAlternatives]
    <2>1. OfCase(Des!obj.inputs[1], TRUE, ms)
      BY <1>1, <1>2, <1>9, Zenon DEF AcceptedCase
    <2>2. one = Des!make_desc(Des!obj.inputs[1], TRUE, ms)
      BY <1>1, <1>2, <1>6, <1>9 DEF InLists, Des!MakeList
    <2>3. \A k \in {"format", "shape", "type"} : (k = "format" => ~ms) => Len(one[k]) \in 1 .. MaxAlternatives
      BY <2>1, <2>2, FirstLists
    <2>4. c \in Nat \ {0}
      BY ONLY <1>10, c \in 1 .. N
    <2> QED BY ONLY <2>3, <2>4, ms \in BOOLEAN, PlaceRange
  <1>12. ASSUME NEW c \in 1 .. N, NEW ins, NEW outs,
                \A i \in 1 .. n : ins[i] = InCases[i][c], \A i \in 1 .. m : outs[i] = OutCases[i][c]
         PROVE  PairedDescs(ins, outs, Des!obj)
    <2>1. PICK pos \in [{"format", "shape", "type"} -> 1 .. MaxAlternatives] : pos = Place(ms, one, c)
      BY <1>11
    <2>2. /\ \A i \in 1 .. n : Des!Optional(ins[i]) \/ Des!TakenAt(ins[i], Des!obj.inputs[i], pos)
          /\ \A i \in 1 .. m : Des!Optional(outs[i]) \/ Des!TakenAt(outs[i], Des!obj.outputs[i], pos)
      BY ONLY <1>8, <1>12, <2>1
    <2> QED BY ONLY <1>1, <2>2, Zenon DEF PairedDescs
  <1> QED BY ONLY <1>1, <1>10, <1>12

-----------------------------------------------------------------------------
(* The design of sub-cases                                                  *)

\* The keys of a tensor that a fuzz function decides.
Decided(ms) == {"type", "shape"} \cup (IF ms THEN {} ELSE {"format"})

\* The descriptions ds are those of the file, os, with what a dict says in place
\* of "fuzz", and no "fuzz" is left.
ReplacedBy(ds, os, dict, ms) ==
  /\ Len(ds) = Len(os)
  /\ \A i \in 1 .. Len(os) : \A k \in Decided(ms) :
       /\ k \in DOMAIN ds[i] /\ Des!IsList(ds[i][k])
       /\ os[i][k] = FUZZ => ds[i][k] = Des!FuzzValue(dict, k)

\* What a sub-case of a fuzz case has to have.
OwnCall(c) ==
  LET o == Des!ObjOf(c) IN
  Des!ParserOf(o) = "fuzz" =>
    \E dict \in c.dicts :
      /\ \A i \in 1 .. Len(o.inputs) : Des!TakesFrom(c.input_desc[i], o.inputs[i], dict)
      /\ \A i \in 1 .. Len(o.outputs) : Des!TakesFrom(c.output_desc[i], o.outputs[i], dict)

\* What a sub-case that is a combination has to have.
OwnCombination(c) ==
  LET o == Des!ObjOf(c) IN
  Des!ParserOf(o) = "cross" /\ o.inputs # <<>> /\ Des!OneDistribution(o) =>
    PairedDescs(c.input_desc, c.output_desc, o)

\* A call's dicts are the last returned; either none of them has been used, or
\* the first has replaced what there was to replace.
DictsInv ==
  pc = "dicts" =>
    /\ returned # <<>> /\ returned \in Seq(FuzzReturns)
    /\ \/ /\ sub.dicts = returned[Len(returned)]
          /\ sub.inputs = Des!obj.inputs /\ sub.outputs = Des!obj.outputs
       \/ \E dict \in Des!ToSet(returned[Len(returned)]) :
            /\ ReplacedBy(sub.inputs, Des!obj.inputs, dict, Des!obj.ms)
            /\ ReplacedBy(sub.outputs, Des!obj.outputs, dict, Des!obj.ms)

\* Where the program is in the files, and that the object it is at is of the
\* kind that this place of the program is for.
PlaceInv ==
  /\ json_path_list \in DesignInputs /\ file \in Nat \ {0} /\ at \in Nat
  /\ pc \in {"next", "object", "cross", "tensors", "cases", "fuzz", "loop", "dicts"} =>
       file \in 1 .. Len(json_path_list)
  /\ pc \in {"object", "cross", "tensors", "cases", "fuzz", "loop", "dicts"} =>
       at \in 1 .. Len(json_path_list[file].objs)
  /\ pc \in {"cross", "tensors", "cases"} => Des!ParserOf(Des!obj) = "cross" /\ ~Des!obj.compile_flag
  /\ pc \in {"fuzz", "loop", "dicts"} => Des!ParserOf(Des!obj) = "fuzz" /\ ~Des!obj.compile_flag
  /\ returned \in Seq(FuzzReturns)
  /\ sub = [f \in DOMAIN Des!NoSub |-> sub[f]]

\* Every sub-case made so far is of a call of its own, or a combination that takes
\* the same position everywhere.
CasesInv ==
  /\ total_case_list = [i \in 1 .. Len(total_case_list) |-> total_case_list[i]]
  /\ Len(total_case_list) \in Nat
  /\ \A i \in 1 .. Len(total_case_list) : OwnCall(total_case_list[i]) /\ OwnCombination(total_case_list[i])

\* The c-th combination of the i-th output is in a sub-case of the case at hand.
InSubCase(i, c) == \E sc \in Des!CasesOf(file, at) : sc.output_desc[i] = OutCases[i][c]

\* The combinations of the tensors, of which as many have been put in sub-cases
\* as the index says.
Combining ==
  /\ AcceptedCase /\ Des!check_value_number_valid(InLists, OutLists)
  /\ Des!get_count_valid(InCases, OutCases)
  /\ sub.inputs = InCases /\ sub.outputs = OutCases
  /\ sub.count = Des!get_count(InCases, OutCases) /\ sub.index \in 0 .. sub.count
  /\ \A i \in 1 .. Len(OutCases) : \A c \in 1 .. Len(OutCases[i]) : c <= sub.index => InSubCase(i, c)

\* What the lists of a case to be combined are, and that they are empty where
\* there is none.
CrossInv ==
  /\ pc \in {"check", "load", "object", "cross", "tensors", "fuzz", "loop", "dicts"} =>
       sub.count = 0 /\ sub.index = 0
  /\ pc = "tensors" => AcceptedCase /\ sub.inputs = InLists /\ sub.outputs = OutLists
  /\ pc = "cases" => Combining
  /\ pc = "next" => sub.index = sub.count /\ (sub.count # 0 => Combining)

DesInv == PlaceInv /\ DictsInv /\ CasesInv /\ CrossInv

\* The value that replaces "fuzz" is the dict's, and nothing else is changed.
LEMMA FuzzedKey ==
  ASSUME NEW d, NEW dict, NEW isInput \in BOOLEAN, NEW ms \in BOOLEAN, NEW k \in Decided(ms), k \in DOMAIN d
  PROVE  /\ k \in DOMAIN Des!fuzzed(d, dict, isInput, ms)
         /\ Des!fuzzed(d, dict, isInput, ms)[k] = IF d[k] = FUZZ THEN Des!FuzzValue(dict, k) ELSE d[k]
  <1> DEFINE e == Des!replace_fuzz_param(d, dict, Des!FuzzKeys(d, isInput, ms))
  <1>1. k \in Des!FuzzKeys(d, isInput, ms)
    BY DEF Decided, Des!FuzzKeys
  <1>2. k \in DOMAIN e /\ e[k] = IF d[k] = FUZZ THEN Des!FuzzValue(dict, k) ELSE d[k]
    BY <1>1 DEF Des!replace_fuzz_param
  <1>3. k \notin Des!TypicalKeys(e, ms)
    BY DEF Decided, Des!TypicalKeys
  <1> HIDE DEF e
  <1>4. /\ k \in DOMAIN Des!replace_fuzz_param(e, dict, Des!TypicalKeys(e, ms))
        /\ Des!replace_fuzz_param(e, dict, Des!TypicalKeys(e, ms))[k] = e[k]
    BY <1>2, <1>3 DEF Des!replace_fuzz_param
  <1> QED BY <1>2, <1>4 DEF Des!fuzzed, e

\* A description that is accepted has lists in these keys, of one element but for
\* the shape.
LEMMA AcceptedKeys ==
  ASSUME NEW d, NEW dict, NEW isInput \in BOOLEAN, NEW ms \in BOOLEAN,
         Des!make_desc_fuzz_valid(d, dict, isInput, ms), NEW k \in Decided(ms)
  PROVE  /\ Des!IsList(Des!fuzzed(d, dict, isInput, ms)[k])
         /\ k # "shape" => Len(Des!fuzzed(d, dict, isInput, ms)[k]) = 1
  <1> DEFINE e == Des!fuzzed(d, dict, isInput, ms)
  <1>1. Des!check_fuzz_value_valid(e.type) /\ Des!check_fuzz_shape_valid(e.shape)
    BY DEF Des!make_desc_fuzz_valid
  <1>2. ~ms => Des!check_fuzz_value_valid(e.format)
    BY DEF Des!make_desc_fuzz_valid
  <1> HIDE DEF e
  <1>3. CASE k = "type" BY <1>1, <1>3 DEF Des!check_fuzz_value_valid, e
  <1>4. CASE k = "shape" BY <1>1, <1>4 DEF Des!check_fuzz_shape_valid, e
  <1>5. CASE k = "format"
    <2>1. ~ms BY <1>5 DEF Decided
    <2> QED BY <1>2, <1>5, <2>1 DEF Des!check_fuzz_value_valid, e
  <1> QED BY <1>3, <1>4, <1>5 DEF Decided

\* What a description of it takes from the dict.
LEMMA DescTakes ==
  ASSUME NEW e, NEW o, NEW dict, NEW isInput \in BOOLEAN, NEW ms \in BOOLEAN,
         \A k \in Decided(ms) : /\ o[k] = FUZZ => e[k] = Des!FuzzValue(dict, k)
                                /\ k # "shape" => Len(e[k]) = 1
  PROVE  Des!TakesFrom(Des!make_desc_fuzz(e, isInput, ms), o, dict)
  <1> DEFINE r == Des!make_desc_fuzz(e, isInput, ms)
  <1> SUFFICES ASSUME NEW k \in {"format", "shape", "type"} \cap DOMAIN r, o[k] = FUZZ
               PROVE  r[k] = Head(Des!list_list(Des!FuzzValue(dict, k)))
    BY DEF Des!TakesFrom
  <1>1. k \in Decided(ms) /\ r[k] = Head(Des!Alternatives(e, k))
    BY DEF Des!make_desc_fuzz, Des!BasicKeys, Des!ValueKeys, Des!TypicalKeys, Decided
  <1>2. e[k] = Des!FuzzValue(dict, k)
    BY <1>1
  <1>3. Des!Alternatives(e, k) = IF k = "shape" THEN Des!list_list(e[k]) ELSE e[k]
    BY DEF Des!Alternatives
  <1>4. k # "shape" => Des!list_list(e[k]) = e[k]
    BY <1>1 DEF Des!list_list
  <1> QED BY <1>1, <1>2, <1>3, <1>4

\* A list of descriptions after a dict: it has what the first dict says, and so
\* have the tensors of the sub-case.
LEMMA ListReplaced ==
  ASSUME NEW ds, NEW os, NEW dict, NEW first, NEW isInput \in BOOLEAN, NEW ms \in BOOLEAN, NEW new,
         Len(os) \in Nat, \A i \in 1 .. Len(os) : Decided(ms) \subseteq DOMAIN os[i],
         (ds = os /\ first = dict) \/ ReplacedBy(ds, os, first, ms),
         \A i \in 1 .. Len(ds) : Des!make_desc_fuzz_valid(ds[i], dict, isInput, ms),
         new = [i \in 1 .. Len(ds) |-> Des!fuzzed(ds[i], dict, isInput, ms)]
  PROVE  /\ ReplacedBy(new, os, first, ms)
         /\ \A i \in 1 .. Len(os) :
              Des!TakesFrom([j \in 1 .. Len(new) |-> Des!make_desc_fuzz(new[j], isInput, ms)][i], os[i], first)
  <1>1. Len(ds) = Len(os)
    BY DEF ReplacedBy
  <1>2. Len(new) = Len(os)
    BY <1>1
  <1>3. ASSUME NEW i \in 1 .. Len(os), NEW k \in Decided(ms)
        PROVE  /\ k \in DOMAIN new[i] /\ Des!IsList(new[i][k])
               /\ os[i][k] = FUZZ => new[i][k] = Des!FuzzValue(first, k)
               /\ k # "shape" => Len(new[i][k]) = 1
    <2>1. new[i] = Des!fuzzed(ds[i], dict, isInput, ms) /\ Des!make_desc_fuzz_valid(ds[i], dict, isInput, ms)
      BY <1>1
    <2>2. k \in DOMAIN ds[i]
      BY DEF ReplacedBy
    <2>3. k \in DOMAIN new[i] /\ new[i][k] = IF ds[i][k] = FUZZ THEN Des!FuzzValue(dict, k) ELSE ds[i][k]
      BY <2>1, <2>2, FuzzedKey
    <2>4. Des!IsList(new[i][k]) /\ (k # "shape" => Len(new[i][k]) = 1)
      BY <2>1, AcceptedKeys
    <2>5. CASE ds = os /\ first = dict
      BY <2>3, <2>4, <2>5
    <2>6. CASE ReplacedBy(ds, os, first, ms)
      <3>1. Des!IsList(ds[i][k]) /\ (os[i][k] = FUZZ => ds[i][k] = Des!FuzzValue(first, k))
        BY <2>6 DEF ReplacedBy
      <3>2. ds[i][k] # FUZZ
        BY <3>1 DEF Des!IsList
      <3> QED BY <2>3, <2>4, <3>1, <3>2
    <2> QED BY <2>5, <2>6
  <1>4. ReplacedBy(new, os, first, ms)
    BY <1>2, <1>3 DEF ReplacedBy
  <1>5. ASSUME NEW i \in 1 .. Len(os)
        PROVE  Des!TakesFrom([j \in 1 .. Len(new) |-> Des!make_desc_fuzz(new[j], isInput, ms)][i], os[i], first)
    <2>1. [j \in 1 .. Len(new) |-> Des!make_desc_fuzz(new[j], isInput, ms)][i] = Des!make_desc_fuzz(new[i], isInput, ms)
      BY <1>2
    <2>2. \A k \in Decided(ms) :
            /\ os[i][k] = FUZZ => new[i][k] = Des!FuzzValue(first, k)
            /\ k # "shape" => Len(new[i][k]) = 1
      BY <1>3
    <2>3. PICK e, o : e = new[i] /\ o = os[i]
      OBVIOUS
    <2>4. Des!TakesFrom(Des!make_desc_fuzz(e, isInput, ms), o, first)
      <3>1. \A k \in Decided(ms) :
              /\ o[k] = FUZZ => e[k] = Des!FuzzValue(first, k)
              /\ k # "shape" => Len(e[k]) = 1
        BY <2>2, <2>3
      <3> QED BY <3>1, DescTakes
    <2> QED BY <2>1, <2>3, <2>4
  <1> QED BY <1>4, <1>5

\* The tensors of a fuzz case in a file.
LEMMA FuzzObject ==
  ASSUME DesInv, pc \in {"fuzz", "loop", "dicts"}
  PROVE  /\ Des!obj.ms \in BOOLEAN
         /\ \A ds \in {Des!obj.inputs, Des!obj.outputs} :
              Len(ds) \in Nat /\ \A k \in 1 .. Len(ds) : Decided(Des!obj.ms) \subseteq DOMAIN ds[k]
  <1>1. Des!ParserOf(Des!obj) = "fuzz" /\ ~Des!obj.compile_flag
    BY DEF DesInv, PlaceInv
  <1>2. /\ json_path_list \in DesignInputs /\ file \in 1 .. Len(json_path_list)
        /\ at \in 1 .. Len(json_path_list[file].objs)
    BY DEF DesInv, PlaceInv
  <1> DEFINE o == json_path_list[file].objs[at]
  <1>3. Des!obj = o
    BY DEF Des!obj
  <1>4. ~o.compile_flag /\ Des!ParserOf(o) = "fuzz" =>
          /\ o.ms \in BOOLEAN
          /\ \A ds \in {o.inputs, o.outputs} :
               Len(ds) \in Nat /\ \A k \in 1 .. Len(ds) : {"format", "shape", "type"} \subseteq DOMAIN ds[k]
    BY <1>2, DesAssumption
  <1> HIDE DEF o
  <1> QED BY <1>1, <1>3, <1>4 DEF Decided

\* One sub-case more.
LEMMA CaseAdded ==
  ASSUME CasesInv, NEW c, OwnCall(c), OwnCombination(c), total_case_list' = Append(total_case_list, c), UNCHANGED json_path_list
  PROVE  CasesInv'
  <1> DEFINE S == {total_case_list[i] : i \in 1 .. Len(total_case_list)} \cup {c}
  <1>1. total_case_list \in Seq(S)
    BY DEF CasesInv
  <1>2. c \in S
    OBVIOUS
  <1> HIDE DEF S
  <1>3. /\ total_case_list' \in Seq(S) /\ Len(total_case_list') = Len(total_case_list) + 1
        /\ \A i \in 1 .. Len(total_case_list') :
             total_case_list'[i] = IF i = Len(total_case_list) + 1 THEN c ELSE total_case_list[i]
    BY <1>1, <1>2
  <1>4. ASSUME NEW i \in 1 .. Len(total_case_list') PROVE (OwnCall(total_case_list[i]) /\ OwnCombination(total_case_list[i]))'
    <2>1. CASE i = Len(total_case_list) + 1
      <3>1. total_case_list'[i] = c
        BY <1>3, <2>1, SMTT(30)
      <3> QED BY <3>1 DEF OwnCall, OwnCombination, Des!ObjOf
    <2>2. CASE i # Len(total_case_list) + 1
      <3>1. total_case_list'[i] = total_case_list[i] /\ OwnCall(total_case_list[i]) /\ OwnCombination(total_case_list[i])
        BY <1>1, <1>3, <2>2 DEF CasesInv
      <3> QED BY <3>1, Zenon DEF OwnCall, OwnCombination, Des!ObjOf
    <2> QED BY <2>1, <2>2, SMTT(30)
  <1>5. \A i \in 1 .. Len(total_case_list') : (OwnCall(total_case_list[i]) /\ OwnCombination(total_case_list[i]))'
    BY ONLY <1>4
  <1>6. total_case_list' = [i \in 1 .. Len(total_case_list') |-> total_case_list'[i]]
    BY ONLY <1>3
  <1>7. Len(total_case_list') \in Nat
    BY ONLY <1>3
  <1> QED BY <1>5, <1>6, <1>7, Zenon DEF CasesInv

\* And no sub-case more.
LEMMA CasesKept ==
  CasesInv /\ UNCHANGED <<json_path_list, total_case_list>> => CasesInv'
  <1> SUFFICES ASSUME CasesInv, UNCHANGED <<json_path_list, total_case_list>> PROVE CasesInv'
    BY SMTT(30)
  <1>1. \A i \in 1 .. Len(total_case_list) : (OwnCall(total_case_list[i]) /\ OwnCombination(total_case_list[i]))'
    BY Zenon DEF CasesInv, OwnCall, OwnCombination, Des!ObjOf
  <1> QED BY <1>1, Zenon DEF CasesInv

\* The invariant holds where a run of the design starts.
LEMMA DesInit == Des!Init => DesInv
  <1> SUFFICES ASSUME Des!Init PROVE DesInv
    OBVIOUS
  <1>1. PlaceInv
    BY DEF Des!Init, PlaceInv, Des!NoSub
  <1>2. DictsInv
    BY DEF Des!Init, DictsInv
  <1>3. CasesInv
    BY SMTT(30) DEF Des!Init, CasesInv
  <1>4. CrossInv
    BY DEF Des!Init, CrossInv, Des!NoSub
  <1> QED BY <1>1, <1>2, <1>3, <1>4 DEF DesInv

\* Every step keeps the place of the program.
LEMMA PlaceNext == PlaceInv /\ Des!Next => PlaceInv'
  <1> SUFFICES ASSUME PlaceInv, Des!Next PROVE PlaceInv'
    OBVIOUS
  <1> USE DEF PlaceInv, Des!given_to, Des!progress, Des!shared, Des!Goto, Des!Raise, Des!obj, Des!ParserOf
  <1>0. /\ Len(json_path_list) \in Nat
        /\ \A f \in 1 .. Len(json_path_list) : Len(json_path_list[f].objs) \in Nat
    BY DesAssumption
  <1>1. CASE Des!CheckArgumentValid BY <1>1 DEF Des!CheckArgumentValid
  <1>2. CASE Des!LoadJsonFile BY <1>0, <1>2 DEF Des!LoadJsonFile
  <1>3. CASE Des!NextObject
    <2>1. sub' = [f \in DOMAIN Des!NoSub |-> sub'[f]] /\ returned' \in Seq(FuzzReturns)
      BY <1>3 DEF Des!NextObject, Des!NoSub
    <2>2. /\ file' \in Nat \ {0} /\ at' \in Nat /\ json_path_list' = json_path_list
          /\ \/ pc' = "object" /\ file' \in 1 .. Len(json_path_list) /\ at' \in 1 .. Len(json_path_list[file'].objs)
             \/ pc' = "load"
      BY <1>0, <1>3 DEF Des!NextObject
    <2> QED BY <2>1, <2>2
  <1>4. CASE Des!Finish BY <1>4 DEF Des!Finish
  <1>5. CASE Des!CompileFlag BY <1>5 DEF Des!CompileFlag
  <1>6. CASE Des!StartCase BY <1>6 DEF Des!StartCase
  <1>7. CASE Des!Cross BY <1>7 DEF Des!Cross, Des!NoSub
  <1>8. CASE Des!CrossTensor BY <1>8 DEF Des!CrossTensor, Des!NoSub
  <1>9. CASE Des!SubCase BY <1>9 DEF Des!SubCase, Des!NoSub
  <1>10. CASE Des!CrossEnds BY <1>10 DEF Des!CrossEnds
  <1>11. CASE Des!Fuzz BY <1>11 DEF Des!Fuzz, Des!NoSub
  <1>12. CASE Des!FuzzCall
    <2>1. returned' = returned \/ \E dicts \in FuzzReturns : returned' = Append(returned, dicts)
      BY <1>12 DEF Des!FuzzCall
    <2>2. returned' \in Seq(FuzzReturns)
      BY ONLY returned \in Seq(FuzzReturns), <2>1
    <2> QED BY <1>12, <2>2 DEF Des!FuzzCall, Des!NoSub
  <1>13. CASE Des!FuzzCase BY <1>13 DEF Des!FuzzCase, Des!NoSub
  <1>14. CASE Des!DictsEnd BY <1>14 DEF Des!DictsEnd
  <1>15. CASE Des!FuzzEnds BY <1>15 DEF Des!FuzzEnds
  <1> QED
    BY <1>1, <1>2, <1>3, <1>4, <1>5, <1>6, <1>7, <1>8, <1>9, <1>10, <1>11, <1>12, <1>13, <1>14, <1>15
      DEF Des!Next

\* A sub-case of a fuzz case, and the lists that the next dict meets.
LEMMA FuzzStep == ASSUME DesInv, Des!FuzzCase PROVE DictsInv' /\ CasesInv'
  <1> DEFINE dict == Head(sub.dicts)
             ins == [i \in 1 .. Len(sub.inputs) |-> Des!fuzzed(sub.inputs[i], dict, TRUE, Des!obj.ms)]
             outs == [i \in 1 .. Len(sub.outputs) |-> Des!fuzzed(sub.outputs[i], dict, FALSE, Des!obj.ms)]
             last == returned[Len(returned)]
             MadeIns == [i \in 1 .. Len(ins) |-> Des!make_desc_fuzz(ins[i], TRUE, Des!obj.ms)]
             MadeOuts == [i \in 1 .. Len(outs) |-> Des!make_desc_fuzz(outs[i], FALSE, Des!obj.ms)]
  <1>0. pc = "dicts" /\ sub.dicts # <<>> /\ DictsInv /\ CasesInv /\ PlaceInv
    BY DEF DesInv, Des!FuzzCase
  <1>1. Des!obj' = Des!obj /\ returned' = returned /\ json_path_list' = json_path_list
    BY DEF Des!FuzzCase, Des!given_to, Des!progress, Des!obj
  <1>2. CASE pc' = "raised"
    <2>1. total_case_list' = total_case_list
      BY <1>0, <1>2 DEF Des!FuzzCase, Des!Raise, Des!Goto
    <2> QED BY <1>0, <1>1, <1>2, <2>1, CasesKept DEF DictsInv
  <1>3. CASE pc' # "raised"
    <2>1. /\ \A i \in 1 .. Len(ins) : Des!make_desc_fuzz_valid(sub.inputs[i], dict, TRUE, Des!obj.ms)
          /\ \A i \in 1 .. Len(outs) : Des!make_desc_fuzz_valid(sub.outputs[i], dict, FALSE, Des!obj.ms)
          /\ sub' = [sub EXCEPT !.dicts = Tail(@), !.inputs = ins, !.outputs = outs,
                                !.attr = Des!FuzzedAttr(sub.attr, dict), !.case_idx = Des!NextIdx]
      BY <1>3 DEF Des!FuzzCase, Des!Raise, Des!Goto
    <2>2. sub'.inputs = ins /\ sub'.outputs = outs /\ pc' = "dicts"
      <3>1. pc' = "dicts"
        BY <1>3 DEF Des!FuzzCase, Des!Raise, Des!Goto
      <3> HIDE DEF ins, outs, dict
      <3> QED BY <1>0, <2>1, <3>1 DEF PlaceInv, Des!NoSub
    <2>3. PICK c : /\ total_case_list' = Append(total_case_list, c)
                   /\ c.src = <<file, at>> /\ c.dicts = Des!ToSet(last)
                   /\ c.input_desc = MadeIns /\ c.output_desc = MadeOuts
      <3>1. Des!add_case_to_total_case(Des!obj.case_name \o <<"fuzz", "case">>, MadeIns, MadeOuts,
                                       Des!FuzzedAttr(sub.attr, dict), Des!ToSet(last))
        BY <1>3 DEF Des!FuzzCase, Des!Raise, Des!Goto, Des!Last
      <3> HIDE DEF MadeIns, MadeOuts, last, dict
      <3> QED BY <3>1 DEF Des!add_case_to_total_case
    <2>4. /\ last \in FuzzReturns /\ last \in Seq(UNION {{ds[i] : i \in 1 .. Len(ds)} : ds \in FuzzReturns})
          /\ sub.dicts = last => dict \in Des!ToSet(last)
      <3>1. FuzzReturns \subseteq Seq(UNION {{ds[i] : i \in 1 .. Len(ds)} : ds \in FuzzReturns})
        BY DesAssumption, Zenon
      <3> QED BY <1>0, <3>1 DEF DictsInv, Des!ToSet
    <2>5. PICK first \in Des!ToSet(last) :
            /\ \/ sub.inputs = Des!obj.inputs /\ first = dict
               \/ ReplacedBy(sub.inputs, Des!obj.inputs, first, Des!obj.ms)
            /\ \/ sub.outputs = Des!obj.outputs /\ first = dict
               \/ ReplacedBy(sub.outputs, Des!obj.outputs, first, Des!obj.ms)
      <3> HIDE DEF dict
      <3> QED BY <1>0, <2>4 DEF DictsInv
    <2>6. /\ Des!obj.ms \in BOOLEAN
          /\ Len(Des!obj.inputs) \in Nat /\ Len(Des!obj.outputs) \in Nat
          /\ \A i \in 1 .. Len(Des!obj.inputs) : Decided(Des!obj.ms) \subseteq DOMAIN Des!obj.inputs[i]
          /\ \A i \in 1 .. Len(Des!obj.outputs) : Decided(Des!obj.ms) \subseteq DOMAIN Des!obj.outputs[i]
      BY <1>0, FuzzObject
    <2>7. /\ Len(sub.inputs) \in Nat /\ Len(ins) = Len(sub.inputs)
          /\ Len(sub.outputs) \in Nat /\ Len(outs) = Len(sub.outputs)
      BY <2>5, <2>6 DEF ReplacedBy
    <2>8. /\ ReplacedBy(ins, Des!obj.inputs, first, Des!obj.ms)
          /\ \A i \in 1 .. Len(Des!obj.inputs) : Des!TakesFrom(MadeIns[i], Des!obj.inputs[i], first)
      BY <2>1, <2>5, <2>6, <2>7, ListReplaced
    <2>9. /\ ReplacedBy(outs, Des!obj.outputs, first, Des!obj.ms)
          /\ \A i \in 1 .. Len(Des!obj.outputs) : Des!TakesFrom(MadeOuts[i], Des!obj.outputs[i], first)
      BY <2>1, <2>5, <2>6, <2>7, ListReplaced
    <2>10. DictsInv'
      <3> HIDE DEF ins, outs, dict
      <3> QED BY <1>0, <1>1, <2>2, <2>5, <2>8, <2>9 DEF DictsInv
    <2>11. OwnCall(c)
      <3> HIDE DEF MadeIns, MadeOuts
      <3>1. Des!ObjOf(c) = Des!obj
        BY <2>3 DEF Des!ObjOf, Des!obj
      <3> QED BY <2>3, <2>5, <2>8, <2>9, <3>1 DEF OwnCall
    <2>12. OwnCombination(c)
      <3>1. Des!ObjOf(c) = Des!obj
        BY <2>3 DEF Des!ObjOf, Des!obj
      <3> QED BY <1>0, <3>1 DEF PlaceInv, OwnCombination
    <2> QED BY <1>0, <1>1, <2>3, <2>10, <2>11, <2>12, CaseAdded
  <1> QED BY <1>2, <1>3

\* A step that stays at an object leaves its lists and combinations alone.
LEMMA SameObject ==
  ASSUME Des!obj' = Des!obj
  PROVE  /\ AcceptedCase' <=> AcceptedCase
         /\ InLists' = InLists /\ OutLists' = OutLists /\ InCases' = InCases /\ OutCases' = OutCases
  <1>1. AcceptedCase' <=> AcceptedCase
    BY Zenon DEF AcceptedCase
  <1>2. InLists' = InLists /\ OutLists' = OutLists
    BY Zenon DEF InLists, OutLists, Des!MakeList
  <1>3. InCases' = InCases /\ OutCases' = OutCases
    BY <1>2, Zenon DEF InCases, OutCases, Des!CrossAll
  <1> QED BY <1>1, <1>2, <1>3

\* What the file has of a case to be combined.
LEMMA CrossObject ==
  ASSUME DesInv, pc = "cross", Des!DescListsValid(Des!obj)
  PROVE  AcceptedCase
  <1>1. /\ json_path_list \in DesignInputs /\ file \in 1 .. Len(json_path_list)
        /\ at \in 1 .. Len(json_path_list[file].objs)
        /\ Des!ParserOf(Des!obj) = "cross" /\ ~Des!obj.compile_flag
    BY DEF DesInv, PlaceInv
  <1> DEFINE List(l) == l \in Seq({l[i] : i \in 1 .. Len(l)})
             Alternatives == {"format", "shape", "type", "data_distribute", "value_range"}
             Short(f) == Des!IsList(f) => List(f) /\ Len(f) <= MaxAlternatives
             o == json_path_list[file].objs[at]
  <1>2. o = Des!obj
    BY DEF Des!obj
  <1>3. ~o.compile_flag /\ Des!ParserOf(o) = "cross" =>
          /\ o.ms \in BOOLEAN
          /\ \A ds \in {o.inputs, o.outputs} :
               List(ds) /\ \A j \in 1 .. Len(ds) : \A k \in Alternatives : Short(ds[j][k])
    BY <1>1, DesAssumption
  <1> HIDE DEF List, Alternatives, Short, o
  <1>4. /\ Des!obj.ms \in BOOLEAN
        /\ \A ds \in {Des!obj.inputs, Des!obj.outputs} :
             List(ds) /\ \A j \in 1 .. Len(ds) : \A k \in Alternatives : Short(ds[j][k])
    BY <1>1, <1>2, <1>3
  <1>5. /\ Des!obj.outputs # <<>>
        /\ \A i \in 1 .. Len(Des!obj.inputs) : Des!make_desc_valid(Des!obj.inputs[i], TRUE, Des!obj.ms)
        /\ \A i \in 1 .. Len(Des!obj.outputs) : Des!make_desc_valid(Des!obj.outputs[i], FALSE, Des!obj.ms)
    BY DEF Des!DescListsValid
  <1>6. ASSUME NEW d, NEW isInput \in BOOLEAN, \A k \in Alternatives : Short(d[k]),
               Des!make_desc_valid(d, isInput, Des!obj.ms)
        PROVE  OfCase(d, isInput, Des!obj.ms)
    BY ONLY <1>6 DEF OfCase, Alternatives, Short, List
  <1>7. /\ \A i \in 1 .. Len(Des!obj.inputs) : OfCase(Des!obj.inputs[i], TRUE, Des!obj.ms)
        /\ \A i \in 1 .. Len(Des!obj.outputs) : OfCase(Des!obj.outputs[i], FALSE, Des!obj.ms)
    BY ONLY <1>4, <1>5, <1>6
  <1> QED BY ONLY <1>4, <1>5, <1>7 DEF AcceptedCase, List

\* A sub-case more: it is at the end of the list, and those before it are kept.
LEMMA LastAdded ==
  ASSUME CasesInv, NEW c, total_case_list' = Append(total_case_list, c), UNCHANGED <<file, at>>
  PROVE  /\ \A x \in Des!CasesOf(file, at) : x \in Des!CasesOf(file, at)'
         /\ c.src = <<file, at>> => c \in Des!CasesOf(file, at)'
  <1> DEFINE S == {total_case_list[i] : i \in 1 .. Len(total_case_list)} \cup {c}
  <1>1. total_case_list \in Seq(S) /\ c \in S
    BY DEF CasesInv
  <1> HIDE DEF S
  <1>2. /\ DOMAIN total_case_list = 1 .. Len(total_case_list) /\ Len(total_case_list) \in Nat
        /\ DOMAIN total_case_list' = 1 .. Len(total_case_list) + 1
        /\ \A i \in 1 .. Len(total_case_list) : total_case_list'[i] = total_case_list[i]
        /\ total_case_list'[Len(total_case_list) + 1] = c
    BY <1>1
  <1>3. \A i \in DOMAIN total_case_list : i \in DOMAIN total_case_list' /\ total_case_list'[i] = total_case_list[i]
    BY ONLY <1>2
  <1>4. Len(total_case_list) + 1 \in DOMAIN total_case_list'
    BY ONLY <1>2
  <1>5. /\ \A x \in Des!ToSet(total_case_list) : x \in Des!ToSet(total_case_list')
        /\ c \in Des!ToSet(total_case_list')
    BY ONLY <1>2, <1>3, <1>4 DEF Des!ToSet
  <1> QED BY <1>5 DEF Des!CasesOf

\* CrossTensor: every combination is still to be put in a sub-case.
LEMMA TensorStep == ASSUME DesInv, Des!CrossTensor PROVE CrossInv'
  <1>1. /\ pc = "tensors" /\ Des!obj' = Des!obj /\ AcceptedCase
        /\ sub.inputs = InLists /\ sub.outputs = OutLists /\ sub.index = 0
        /\ sub = [f \in DOMAIN Des!NoSub |-> sub[f]]
    BY DEF DesInv, CrossInv, PlaceInv, Des!CrossTensor, Des!given_to, Des!progress, Des!obj
  <1>2. /\ AcceptedCase' <=> AcceptedCase
        /\ InLists' = InLists /\ OutLists' = OutLists /\ InCases' = InCases /\ OutCases' = OutCases
    BY <1>1, SameObject
  <1>3. /\ Des!CrossAll(sub.inputs, TRUE) = InCases /\ Des!CrossAll(sub.outputs, FALSE) = OutCases
    BY <1>1, Zenon DEF InCases, OutCases
  <1>4. CASE pc' = "raised"
    BY <1>4 DEF CrossInv
  <1>5. CASE pc' # "raised"
    <2>1. /\ pc' = "cases" /\ Des!check_value_number_valid(InLists, OutLists)
          /\ Des!get_count_valid(InCases, OutCases)
          /\ sub' = [sub EXCEPT !.inputs = InCases, !.outputs = OutCases,
                                !.count = Des!get_count(InCases, OutCases)]
      BY <1>1, <1>3, <1>5 DEF Des!CrossTensor, Des!Raise, Des!Goto
    <2>2. PICK ins, outs, count : ins = InCases /\ outs = OutCases /\ count = Des!get_count(InCases, OutCases)
      OBVIOUS
    <2>3. sub'.inputs = ins /\ sub'.outputs = outs /\ sub'.count = count /\ sub'.index = 0
      BY ONLY <1>1, <2>1, <2>2 DEF Des!NoSub
    <2>4. Des!get_count(InCases, OutCases) \in Nat /\ Len(OutCases[1]) \in Nat
      BY <1>1, <2>1, EnoughCases
    <2>5. Combining'
      <3>1. sub'.index \in 0 .. sub'.count
        BY ONLY <2>2, <2>3, <2>4
      <3>2. ASSUME NEW i \in 1 .. Len(OutCases), NEW c \in 1 .. Len(OutCases[i]) PROVE ~(c <= sub'.index)
        BY ONLY <2>3, c \in 1 .. Len(OutCases[i])
      <3> QED BY ONLY <1>1, <1>2, <2>1, <2>2, <2>3, <3>1, <3>2 DEF Combining
    <2> QED BY ONLY <2>1, <2>5 DEF CrossInv
  <1> QED BY <1>4, <1>5

\* SubCase: the next combination of every output is in the sub-case that is made,
\* and of the inputs where they have one distribution.
LEMMA SubCaseStep == ASSUME DesInv, Des!SubCase PROVE CrossInv' /\ CasesInv'
  <1>1. /\ pc = "cases" /\ Des!obj' = Des!obj /\ UNCHANGED <<json_path_list, file, at>>
        /\ Combining /\ CasesInv /\ sub = [f \in DOMAIN Des!NoSub |-> sub[f]]
        /\ Des!ParserOf(Des!obj) = "cross"
    BY DEF DesInv, CrossInv, PlaceInv, Des!SubCase, Des!given_to, Des!progress, Des!obj
  <1>2. /\ AcceptedCase' <=> AcceptedCase
        /\ InLists' = InLists /\ OutLists' = OutLists /\ InCases' = InCases /\ OutCases' = OutCases
    BY <1>1, SameObject
  <1>3. CASE pc' = "crashed"
    <2>1. total_case_list' = total_case_list
      BY <1>1, <1>3 DEF Des!SubCase
    <2> QED BY <1>1, <1>3, <2>1, CasesKept DEF CrossInv
  <1>4. CASE pc' # "crashed"
    <2> DEFINE o == Des!OutputIndex(sub.index) + 1
               ins == Des!append_input_desc_to_case(sub.index + 1)
               outs == [x \in 1 .. Len(sub.outputs) |-> sub.outputs[x][o]]
    <2>1. /\ sub.index < sub.count /\ pc' = pc
          /\ Des!add_case_to_total_case(Des!CrossPrefix, ins, outs, sub.attr, {})
          /\ sub' = [sub EXCEPT !.index = sub.index + 1, !.case_idx = Des!NextIdx]
      BY <1>4 DEF Des!SubCase, Des!Goto
    <2>2. PICK c : /\ total_case_list' = Append(total_case_list, c) /\ c.src = <<file, at>>
                   /\ c.input_desc = ins /\ c.output_desc = outs
      <3> HIDE DEF ins, outs
      <3> QED BY <2>1 DEF Des!add_case_to_total_case
    <2>3. /\ AcceptedCase /\ Des!check_value_number_valid(InLists, OutLists)
          /\ Des!get_count_valid(InCases, OutCases)
          /\ sub.inputs = InCases /\ sub.outputs = OutCases /\ sub.count = Des!get_count(InCases, OutCases)
      BY <1>1 DEF Combining
    <2>4. /\ Len(OutCases[1]) \in Nat /\ Des!get_count(InCases, OutCases) \in Nat
          /\ \A i \in 1 .. Len(OutCases) : Len(OutCases[i]) = Len(OutCases[1])
      BY <2>3, EnoughCases
    <2>5. /\ Len(Des!obj.inputs) \in Nat
          /\ Len(InCases) = Len(Des!obj.inputs) /\ Len(OutCases) = Len(Des!obj.outputs)
      BY <2>3, CaseTensors
    <2>6. PICK k \in Nat, N \in Nat :
            /\ k = sub.index /\ N = Len(OutCases[1])
            /\ k < Des!get_count(InCases, OutCases) /\ k + 1 \in 0 .. Des!get_count(InCases, OutCases)
      <3>1. sub.index \in 0 .. sub.count
        BY <1>1 DEF Combining
      <3> QED BY ONLY <2>1, <2>3, <2>4, <3>1
    <2>7. k < N => o = k + 1
      BY <2>3, <2>6 DEF Des!OutputIndex
    <2>8. /\ \A i \in 1 .. Len(Des!obj.inputs) : c.input_desc[i] = InCases[i][k + 1]
          /\ \A i \in 1 .. Len(OutCases) : c.output_desc[i] = OutCases[i][o]
      <3>1. /\ ins = [x \in 1 .. Len(InCases) |-> InCases[x][k + 1]]
            /\ outs = [x \in 1 .. Len(OutCases) |-> OutCases[x][o]]
        BY <2>3, <2>6 DEF Des!append_input_desc_to_case
      <3> HIDE DEF o, ins, outs
      <3> QED BY ONLY <2>2, <2>5, <3>1
    <2> HIDE DEF o, ins, outs
    <2>9. OwnCombination(c)
      <3>1. Des!ObjOf(c) = Des!obj
        BY <2>2 DEF Des!ObjOf, Des!obj
      <3> SUFFICES ASSUME Des!obj.inputs # <<>>, Des!OneDistribution(Des!obj)
                   PROVE  PairedDescs(c.input_desc, c.output_desc, Des!obj)
        BY <3>1 DEF OwnCombination
      <3>2. Len(Des!obj.inputs) > 0
        <4>1. PICK is : is = Des!obj.inputs /\ is \in Seq({is[i] : i \in 1 .. Len(is)})
          BY <2>3 DEF AcceptedCase
        <4>2. is # <<>>
          BY <4>1
        <4> QED BY ONLY <4>1, <4>2
      <3>3. /\ Des!get_count(InCases, OutCases) = N
            /\ \A i, j : \A n \in 1 .. N :
                 /\ \A x \in 1 .. Len(Des!obj.inputs) : i[x] = InCases[x][n]
                 /\ \A x \in 1 .. Len(Des!obj.outputs) : j[x] = OutCases[x][n]
                 => PairedDescs(i, j, Des!obj)
        BY <2>3, <2>6, <3>2, SameCombination
      <3>4. k + 1 \in 1 .. N /\ o = k + 1
        BY ONLY <2>6, <2>7, <3>3
      <3> QED BY ONLY <2>5, <2>8, <3>3, <3>4
    <2>10. OwnCall(c)
      <3>1. Des!ObjOf(c) = Des!obj
        BY <2>2 DEF Des!ObjOf, Des!obj
      <3> QED BY <1>1, <3>1 DEF OwnCall
    <2>11. CasesInv'
      BY <1>1, <2>2, <2>9, <2>10, CaseAdded
    <2>12. sub'.index = k + 1 /\ sub'.inputs = sub.inputs /\ sub'.outputs = sub.outputs /\ sub'.count = sub.count
      BY <1>1, <2>1, <2>6 DEF Des!NoSub
    <2>13. ASSUME NEW i \in 1 .. Len(OutCases), NEW n \in 1 .. Len(OutCases[i]), n <= k + 1
           PROVE  InSubCase(i, n)'
      <3>1. Len(OutCases[i]) = N
        BY <2>4, <2>6
      <3>2. n \in 1 .. N
        BY <3>1
      <3>3. CASE n <= k
        <4>1. PICK x \in Des!CasesOf(file, at) : x.output_desc[i] = OutCases[i][n]
          BY <1>1, <2>6, <3>3 DEF Combining, InSubCase
        <4>2. x \in Des!CasesOf(file, at)'
          BY <1>1, <2>2, LastAdded
        <4> QED BY <1>2, <4>1, <4>2 DEF InSubCase
      <3>4. CASE ~(n <= k)
        <4>1. n = k + 1 /\ k < N
          BY ONLY <2>13, <3>2, <3>4, k \in Nat, N \in Nat
        <4>2. c \in Des!CasesOf(file, at)' /\ c.output_desc[i] = OutCases[i][n]
          <5>1. c \in Des!CasesOf(file, at)'
            BY <1>1, <2>2, LastAdded
          <5>2. c.output_desc[i] = OutCases[i][o] /\ o = n
            BY <2>7, <2>8, <4>1
          <5> QED BY <5>1, <5>2
        <4> QED BY <1>2, <4>2 DEF InSubCase
      <3> QED BY <3>3, <3>4
    <2>14. Combining'
      <3>1. /\ \A i \in 1 .. Len(OutCases') : \A n \in 1 .. Len(OutCases'[i]) : n <= sub'.index => InSubCase(i, n)'
        BY ONLY <1>2, <2>12, <2>13
      <3>2. sub'.index \in 0 .. sub'.count
        BY ONLY <2>3, <2>6, <2>12
      <3>3. /\ sub'.inputs = InCases' /\ sub'.outputs = OutCases'
            /\ sub'.count = Des!get_count(InCases, OutCases)'
            /\ Des!check_value_number_valid(InLists, OutLists)' /\ Des!get_count_valid(InCases, OutCases)'
            /\ AcceptedCase'
        BY <1>2, <2>3, <2>12
      <3> QED BY ONLY <3>1, <3>2, <3>3 DEF Combining
    <2>15. CrossInv'
      BY ONLY <1>1, <2>1, <2>14 DEF CrossInv
    <2> QED BY <2>11, <2>15
  <1> QED BY <1>3, <1>4

\* The end of a case, whose sub-cases are complete, and the other steps, which
\* have no lists.
LEMMA CrossStep ==
  ASSUME DesInv, Des!Next, ~Des!CrossTensor, ~Des!SubCase
  PROVE  CrossInv'
  <1>1. /\ sub = [f \in DOMAIN Des!NoSub |-> sub[f]] /\ CrossInv
    BY DEF DesInv, PlaceInv
  <1>2. CASE Des!CrossEnds
    <2>1. /\ Des!obj' = Des!obj /\ UNCHANGED <<file, at, total_case_list, sub>> /\ pc = "cases" /\ pc' = "next"
          /\ sub.index = sub.count
      BY <1>2 DEF Des!CrossEnds, Des!given_to, Des!progress, Des!obj, Des!Goto
    <2>2. Combining'
      <3>1. Combining
        BY <1>1, <2>1 DEF CrossInv
      <3>2. /\ AcceptedCase' <=> AcceptedCase
            /\ InLists' = InLists /\ OutLists' = OutLists /\ InCases' = InCases /\ OutCases' = OutCases
        BY <2>1, SameObject
      <3>3. Des!CasesOf(file, at)' = Des!CasesOf(file, at)
        BY <2>1 DEF Des!CasesOf
      <3> QED BY ONLY <2>1, <3>1, <3>2, <3>3 DEF Combining, InSubCase
    <2> QED BY <2>1, <2>2 DEF CrossInv
  <1>3. CASE Des!Cross
    <2>1. Des!obj' = Des!obj /\ pc = "cross" /\ sub.count = 0 /\ sub.index = 0
      BY <1>1, <1>3 DEF Des!Cross, Des!given_to, Des!progress, Des!obj, CrossInv
    <2>2. CASE pc' = "raised"
      BY <2>2 DEF CrossInv
    <2>3. CASE pc' # "raised"
      <3>1. /\ pc' = "tensors" /\ Des!DescListsValid(Des!obj)
            /\ \E multi : sub' = [sub EXCEPT !.multi = multi, !.inputs = InLists, !.outputs = OutLists,
                                             !.attr = Des!obj.attr]
        BY <1>3, <2>3 DEF Des!Cross, Des!Raise, Des!Goto, InLists, OutLists
      <3>2. PICK ins, outs : ins = InLists /\ outs = OutLists
        OBVIOUS
      <3>3. sub'.inputs = ins /\ sub'.outputs = outs /\ sub'.count = 0 /\ sub'.index = 0
        BY ONLY <1>1, <2>1, <3>1, <3>2 DEF Des!NoSub
      <3>4. AcceptedCase
        BY <2>1, <3>1, CrossObject
      <3> QED BY <2>1, <3>1, <3>2, <3>3, <3>4, SameObject DEF CrossInv
    <2> QED BY <2>2, <2>3
  <1>4. CASE Des!NextObject
    BY <1>4 DEF Des!NextObject, Des!NoSub, Des!Goto, CrossInv
  <1>5. CASE \/ Des!CheckArgumentValid \/ Des!LoadJsonFile \/ Des!Finish \/ Des!CompileFlag \/ Des!StartCase
             \/ Des!Fuzz \/ Des!FuzzCall \/ Des!FuzzCase \/ Des!DictsEnd \/ Des!FuzzEnds
    <2>1. pc \in {"check", "load", "object", "cross", "tensors", "fuzz", "loop", "dicts"}
      BY <1>5 DEF Des!CheckArgumentValid, Des!LoadJsonFile, Des!Finish, Des!CompileFlag, Des!StartCase,
           Des!Fuzz, Des!FuzzCall, Des!FuzzCase, Des!DictsEnd, Des!FuzzEnds
    <2>2. pc' \notin {"tensors", "cases"}
      BY <1>5 DEF Des!CheckArgumentValid, Des!LoadJsonFile, Des!Finish, Des!CompileFlag, Des!StartCase,
           Des!Fuzz, Des!FuzzCall, Des!FuzzCase, Des!DictsEnd, Des!FuzzEnds, Des!Goto, Des!Raise, Des!ParserOf
    <2>3. sub'.count = sub.count /\ sub'.index = sub.index
      <3>1. CASE \/ Des!CheckArgumentValid \/ Des!LoadJsonFile \/ Des!Finish \/ Des!CompileFlag
                 \/ Des!StartCase \/ Des!DictsEnd \/ Des!FuzzEnds
        BY <3>1 DEF Des!CheckArgumentValid, Des!LoadJsonFile, Des!Finish, Des!CompileFlag, Des!StartCase,
             Des!DictsEnd, Des!FuzzEnds
      <3>2. CASE Des!Fuzz
        BY <1>1, <3>2 DEF Des!Fuzz, Des!NoSub
      <3>3. CASE Des!FuzzCall
        BY <1>1, <3>3 DEF Des!FuzzCall, Des!NoSub
      <3>4. CASE Des!FuzzCase
        BY <1>1, <3>4 DEF Des!FuzzCase, Des!NoSub
      <3> QED BY <1>5, <3>1, <3>2, <3>3, <3>4
    <2> QED BY <1>1, <2>1, <2>2, <2>3 DEF CrossInv
  <1> QED BY <1>2, <1>3, <1>4, <1>5 DEF Des!Next

\* Every step keeps the sub-cases and the dicts as they have to be.
LEMMA DesNext == DesInv /\ Des!Next => DesInv'
  <1> SUFFICES ASSUME DesInv, Des!Next PROVE DesInv'
    OBVIOUS
  <1>1. PlaceInv /\ DictsInv /\ CasesInv /\ PlaceInv'
    BY PlaceNext DEF DesInv
  <1>2. CASE Des!SubCase
    <2>1. DictsInv'
      BY <1>2 DEF Des!SubCase, Des!Goto, DictsInv
    <2> QED BY <1>1, <1>2, <2>1, SubCaseStep DEF DesInv
  <1>3. CASE Des!CrossTensor
    <2>1. UNCHANGED <<json_path_list, total_case_list>> /\ pc' # "dicts"
      BY <1>3 DEF Des!CrossTensor, Des!given_to, Des!Goto, Des!Raise
    <2> QED BY <1>1, <1>3, <2>1, TensorStep, CasesKept DEF DesInv, DictsInv
  <1>4. CASE ~Des!SubCase /\ ~Des!CrossTensor
    <2>1. CrossInv'
      BY <1>4, CrossStep
    <2>2. CASE Des!FuzzCase
      BY <1>1, <2>1, <2>2, FuzzStep DEF DesInv
    <2>3. CASE Des!FuzzCall
      <3>1. UNCHANGED <<json_path_list, total_case_list>> /\ Des!obj' = Des!obj
        BY <2>3 DEF Des!FuzzCall, Des!given_to, Des!progress, Des!obj
      <3>2. CASE pc' = "raised"
        BY <1>1, <2>1, <3>1, <3>2, CasesKept DEF DesInv, DictsInv
      <3>3. CASE pc' # "raised"
        <4>1. PICK dicts \in FuzzReturns :
                /\ sub' = [sub EXCEPT !.loops = @ - 1, !.dicts = dicts, !.inputs = Des!obj.inputs,
                                      !.outputs = Des!obj.outputs, !.attr = Des!obj.attr]
                /\ returned' = Append(returned, dicts)
          BY <2>3, <3>3 DEF Des!FuzzCall, Des!Raise, Des!Goto, Des!OriJson
        <4>2. sub'.dicts = dicts /\ sub'.inputs = Des!obj.inputs /\ sub'.outputs = Des!obj.outputs
          BY <1>1, <4>1 DEF PlaceInv, Des!NoSub
        <4>3. returned' # <<>> /\ returned' \in Seq(FuzzReturns) /\ returned'[Len(returned')] = dicts
          <5>1. returned \in Seq(FuzzReturns) /\ returned' = Append(returned, dicts)
            BY <1>1, <4>1 DEF PlaceInv
          <5> QED BY ONLY <5>1, dicts \in FuzzReturns
        <4>4. DictsInv'
          BY <3>1, <4>2, <4>3 DEF DictsInv
        <4> QED BY <1>1, <2>1, <3>1, <4>4, CasesKept DEF DesInv
      <3> QED BY <3>2, <3>3
    <2>4. CASE \/ Des!CheckArgumentValid \/ Des!LoadJsonFile \/ Des!NextObject \/ Des!Finish
               \/ Des!CompileFlag \/ Des!StartCase \/ Des!Cross \/ Des!CrossEnds
               \/ Des!Fuzz \/ Des!DictsEnd \/ Des!FuzzEnds
      <3>1. UNCHANGED <<json_path_list, total_case_list>> /\ pc' # "dicts"
        BY <2>4 DEF Des!CheckArgumentValid, Des!LoadJsonFile, Des!NextObject, Des!Finish, Des!CompileFlag,
             Des!StartCase, Des!Cross, Des!CrossEnds, Des!Fuzz, Des!DictsEnd, Des!FuzzEnds,
             Des!given_to, Des!Goto, Des!Raise, Des!ParserOf
      <3> QED BY <1>1, <2>1, <3>1, CasesKept DEF DesInv, DictsInv
    <2> QED BY <1>4, <2>2, <2>3, <2>4 DEF Des!Next
  <1> QED BY <1>2, <1>3, <1>4

\* The invariant implies the properties of the sub-cases themselves.
LEMMA CasesHold == DesInv => Des!FuzzOwnCall /\ Des!Paired
  <1> SUFFICES ASSUME DesInv PROVE Des!FuzzOwnCall /\ Des!Paired
    OBVIOUS
  <1>1. \A c \in Des!ToSet(total_case_list) : OwnCall(c) /\ OwnCombination(c)
    BY DEF DesInv, CasesInv, Des!ToSet
  <1>2. Des!FuzzOwnCall
    BY <1>1 DEF OwnCall, Des!FuzzOwnCall
  <1>3. Des!Paired
    BY <1>1, Zenon DEF OwnCombination, PairedDescs, Des!Paired
  <1> QED BY <1>2, <1>3

\* And that of what a case leaves behind.
LEMMA CombinationsHold == DesInv => Des!EveryCombination
  <1> SUFFICES ASSUME DesInv, pc = "next", sub.count > 0,
                      NEW i \in 1 .. Len(Des!obj.outputs), NEW r \in Des!ToSet(sub.outputs[i])
               PROVE  \E c \in Des!CasesOf(file, at) : c.output_desc[i] = r
    BY DEF Des!EveryCombination
  <1>1. Combining /\ sub.index = sub.count
    BY DEF DesInv, CrossInv
  <1>2. /\ AcceptedCase /\ Des!check_value_number_valid(InLists, OutLists)
        /\ Des!get_count_valid(InCases, OutCases)
        /\ sub.outputs = OutCases /\ sub.count = Des!get_count(InCases, OutCases)
    BY <1>1 DEF Combining
  <1>3. /\ Len(OutCases) = Len(Des!obj.outputs) /\ DOMAIN OutCases[i] = 1 .. Len(OutCases[i])
    BY <1>2, CaseTensors DEF CombosOf
  <1>4. PICK c \in 1 .. Len(OutCases[i]) : r = OutCases[i][c]
    BY <1>2, <1>3 DEF Des!ToSet
  <1>5. c <= sub.index
    BY <1>1, <1>2, <1>3, EnoughCases
  <1> QED BY <1>1, <1>3, <1>4, <1>5 DEF Combining, InSubCase

\* A step of Tools, taken by this program or by another.
LEMMA DesStep ==
  ASSUME program = "design" => DesInv, [Next]_vars
  PROVE  (program = "design" => DesInv)'
  <1>1. CASE UNCHANGED vars
    <2>1. program' = program /\ UNCHANGED <<json_path_list, file, at, pc, sub, returned, total_case_list>>
      BY <1>1, Zenon DEF vars, shared, ownDes
    <2>2. Des!obj' = Des!obj
      BY <2>1, Zenon DEF Des!obj
    <2>3. CASE program = "design"
      <3>1. PlaceInv' /\ DictsInv'
        BY <2>1, <2>2, <2>3 DEF DesInv, PlaceInv, DictsInv
      <3>2. CasesInv'
        BY <2>1, <2>3, CasesKept DEF DesInv
      <3>3. Combining' <=> Combining
        <4>1. Des!CasesOf(file, at)' = Des!CasesOf(file, at)
          BY <2>1 DEF Des!CasesOf
        <4> QED BY <2>1, <2>2, <4>1, SameObject DEF Combining, InSubCase
      <3>4. CrossInv'
        BY <2>1, <2>2, <2>3, <3>3, SameObject DEF DesInv, CrossInv
      <3> QED BY <3>1, <3>2, <3>4 DEF DesInv
    <2> QED BY <2>1, <2>3
  <1>2. CASE Next
    BY <1>2, DesNext DEF Next
  <1> QED BY <1>1, <1>2, SMTT(30)

\* For all case files, whatever the fuzz function returns: what a sub-case has
\* in place of "fuzz" is one dict of the call made for it; where a case is a
\* combination of lists, its tensors are paired as the file pairs them, and no
\* combination of an output is left out.
THEOREM DesSafety == Spec => [](FuzzOwnCall /\ Paired /\ EveryCombination)
  <1>1. Init => (program = "design" => DesInv)
    BY DesInit DEF Init
  <1>2. (program = "design" => DesInv) => FuzzOwnCall /\ Paired /\ EveryCombination
    BY CasesHold, CombinationsHold DEF FuzzOwnCall, Paired, EveryCombination
  <1> QED BY <1>1, <1>2, DesStep, PTL DEF Spec

-----------------------------------------------------------------------------
(* The conversions between NCHW and NC1HWC0                                *)

\* An element of one row is before every element of a later row.
LEMMA NextRow ==
  ASSUME NEW r \in Nat, NEW p \in Nat, NEW q \in Nat, p < q
  PROVE  p * r + r <= q * r /\ p * r \in Nat /\ q * r \in Nat
  <1>1. r * (p + 1) <= r * q /\ r * p \in Nat /\ r * q \in Nat
    BY FactorsGrow
  <1>2. r * (p + 1) = p * r + r /\ r * q = q * r /\ r * p = p * r
    OBVIOUS
  <1> QED BY <1>1, <1>2

\* An element has one row and one place in it.
LEMMA SameRow ==
  ASSUME NEW r \in Nat, NEW p \in Nat, NEW q \in Nat, NEW s \in 0 .. r - 1, NEW t \in 0 .. r - 1,
         p * r + s = q * r + t
  PROVE  p = q /\ s = t
  <1>1. p < q => p * r + r <= q * r /\ p * r \in Nat /\ q * r \in Nat
    BY NextRow
  <1>2. q < p => q * r + r <= p * r /\ p * r \in Nat /\ q * r \in Nat
    BY NextRow
  <1>3. p * r \in Nat /\ q * r \in Nat
    OBVIOUS
  <1>4. p = q
    BY <1>1, <1>2, <1>3
  <1> QED BY <1>3, <1>4

\* Quotient and remainder, and that they are the only ones.
LEMMA Divide ==
  ASSUME NEW a \in Nat, NEW r \in Nat \ {0}
  PROVE  a \div r \in Nat /\ a % r \in 0 .. r - 1 /\ a = (a \div r) * r + (a % r)
  OBVIOUS

LEMMA Divided ==
  ASSUME NEW r \in Nat \ {0}, NEW q \in Nat, NEW s \in 0 .. r - 1
  PROVE  (q * r + s) \div r = q /\ (q * r + s) % r = s
  <1>1. PICK a \in Nat : a = q * r + s
    OBVIOUS
  <1>2. a \div r \in Nat /\ a % r \in 0 .. r - 1 /\ a = (a \div r) * r + (a % r)
    BY Divide
  <1> QED BY <1>1, <1>2, SameRow

\* Rounding up to a multiple.
LEMMA Ceiling ==
  ASSUME NEW a \in Nat, NEW b \in Nat \ {0}
  PROVE  /\ Dim!CeilDiv(a, b) \in Nat
         /\ a <= Dim!CeilDiv(a, b) * b /\ Dim!CeilDiv(a, b) * b < a + b
         /\ \A q \in Nat : a <= q * b /\ q * b < a + b => Dim!CeilDiv(a, b) = q
         /\ Dim!CeilDiv(a, b) * b = a <=> a % b = 0
  <1>1. PICK d \in Nat : d = a + b - 1
    OBVIOUS
  <1>2. d \div b \in Nat /\ d % b \in 0 .. b - 1 /\ d = (d \div b) * b + (d % b)
    BY Divide
  <1>3. PICK p \in Nat, m \in 0 .. b - 1 : p = d \div b /\ m = d % b
    BY <1>2
  <1>4. Dim!CeilDiv(a, b) = p
    BY <1>1, <1>3 DEF Dim!CeilDiv
  <1>5. p * b \in Nat /\ p * b = a + b - 1 - m
    BY <1>1, <1>2, <1>3
  <1>6. ASSUME NEW q \in Nat, a <= q * b, q * b < a + b PROVE p = q
    <2>1. p < q => p * b + b <= q * b
      BY NextRow
    <2>2. q < p => q * b + b <= p * b
      BY NextRow
    <2>3. q * b \in Nat
      OBVIOUS
    <2> QED BY ONLY <1>5, <1>6, <2>1, <2>2, <2>3, a \in Nat, b \in Nat \ {0}, m \in 0 .. b - 1, p \in Nat
  <1>7. p * b = a <=> a % b = 0
    <2>1. PICK q \in Nat, r \in 0 .. b - 1 : a = q * b + r /\ r = a % b
      BY Divide
    <2>2. q * b \in Nat
      OBVIOUS
    <2>3. CASE r = 0
      <3>1. a = q * b
        BY <2>1, <2>2, <2>3
      <3>2. p = q
        BY ONLY <1>6, <2>2, <3>1, b \in Nat \ {0}, q \in Nat, a \in Nat
      <3> QED BY <2>1, <2>3, <3>1, <3>2
    <2>4. CASE r # 0
      <3>1. ASSUME p * b = a PROVE FALSE
        <4>1. 0 \in 0 .. b - 1 /\ p * b + 0 = q * b + r
          BY ONLY <1>5, <2>1, <2>2, <3>1, b \in Nat \ {0}, r \in 0 .. b - 1
        <4> QED BY <2>4, <4>1, SameRow
      <3> QED BY <2>1, <2>4, <3>1
    <2> QED BY <2>3, <2>4
  <1> QED BY <1>4, <1>5, <1>6, <1>7

\* The elements of C0 by C0 pixels, of which the buffer holds an even number.
LEMMA Cubes ==
  \E k \in Nat, sq \in Nat \ {0} : sq = C0 * C0 /\ k >= 2 /\ UB_SIZE = k * (4 * sq)
  <1>1. PICK sq \in Nat \ {0} : sq = C0 * C0
    BY DimAssumption
  <1>2. UB_SIZE \in Nat /\ UB_SIZE % (4 * sq) = 0 /\ UB_SIZE >= 8 * sq /\ 4 * sq \in Nat \ {0}
    BY <1>1, DimAssumption
  <1>3. PICK k \in Nat : UB_SIZE = k * (4 * sq)
    <2>1. /\ UB_SIZE \div (4 * sq) \in Nat /\ UB_SIZE % (4 * sq) \in 0 .. (4 * sq) - 1
          /\ UB_SIZE = (UB_SIZE \div (4 * sq)) * (4 * sq) + (UB_SIZE % (4 * sq))
      BY <1>2, Divide
    <2>2. PICK k \in Nat : k = UB_SIZE \div (4 * sq)
      BY <2>1
    <2>3. k * (4 * sq) \in Nat
      OBVIOUS
    <2>4. UB_SIZE = k * (4 * sq)
      BY ONLY <1>2, <2>1, <2>2, <2>3
    <2> QED BY <2>4
  <1>4. k >= 2
    <2>1. k < 2 => k * (4 * sq) + 4 * sq <= 2 * (4 * sq)
      BY <1>2, NextRow
    <2> QED BY ONLY <1>2, <1>3, <2>1, k \in Nat, sq \in Nat \ {0}
  <1> QED BY ONLY <1>1, <1>3, <1>4

\* Where the pixels of a block of K by C0 elements do not fit, m cubes at a time do.
Cut(m, K) ==
  Dim!cube_buf_max = [full |-> m * (C0 * C0), tail |-> (K % m) * (C0 * C0)]

\* The numbers of _get_vnchwconv_cube_buf_max.
LEMMA BufferSizes ==
  ASSUME shape \in Shapes, op \in Ops
  PROVE  LET K == Dim!CeilDiv(shape.hw, C0)
         IN  \/ Dim!cube_buf_max = [full |-> K * (C0 * C0), tail |-> 0]
             \/ \E m \in Nat \ {0} : m < K /\ Cut(m, K)
  <1>1. PICK sq \in Nat \ {0}, k \in Nat : sq = C0 * C0 /\ k >= 2 /\ UB_SIZE = k * (4 * sq)
    BY Cubes
  <1>2. PICK K \in Nat : K = Dim!CeilDiv(shape.hw, C0)
    BY DimAssumption, Ceiling
  <1>3. PICK ub, cube, size : ub = UB_SIZE /\ cube = 2 * C0 * C0 /\ size = K * cube
    OBVIOUS
  <1>4. /\ cube = 2 * sq /\ cube \in Nat \ {0} /\ ub = 2 * (k * cube) /\ size = 2 * (K * sq)
        /\ k * cube \in Nat /\ K * cube \in Nat /\ ub \in Nat
    BY <1>1, <1>3, DimAssumption
  <1>5. ub \div 2 = k * cube /\ size \div 2 = K * sq
    BY <1>4
  <1>6. ((ub - cube) \div 2) \div cube = k - 1
    <2>1. ub - cube = 2 * ((k - 1) * cube + sq) /\ (k - 1) * cube + sq \in Nat
      BY <1>1, <1>4
    <2>2. (ub - cube) \div 2 = (k - 1) * cube + sq
      BY <2>1
    <2>3. k - 1 \in Nat /\ sq \in 0 .. cube - 1
      BY <1>1, <1>4
    <2> QED BY ONLY <1>4, <2>2, <2>3, Divided
  <1>7. PICK m \in Nat \ {0} :
          /\ m <= k
          /\ m * cube = IF op = "four2five" \/ Dim!hw % C0 = 0 THEN ub \div 2
                        ELSE (((ub - cube) \div 2) \div cube) * cube
    <2>1. k \in Nat \ {0} /\ k - 1 \in Nat \ {0} /\ k <= k /\ k - 1 <= k
      BY <1>1
    <2> QED BY ONLY <1>5, <1>6, <2>1
  <1>8. PICK cut : cut = m * cube
    OBVIOUS
  <1>9. Dim!cube_buf_max = IF size > k * cube THEN [full |-> cut \div 2, tail |-> (size % cut) \div 2]
                                              ELSE [full |-> size \div 2, tail |-> 0]
    BY <1>2, <1>3, <1>5, <1>7, <1>8 DEF Dim!cube_buf_max, Dim!hw
  <1>10. CASE K <= k
    <2>1. K * cube <= k * cube
      <3>1. cube * K <= cube * k
        BY <1>4, <1>10, FactorsGrow
      <3> QED BY <1>4, <3>1
    <2>2. ~(size > k * cube)
      BY ONLY <1>3, <1>4, <2>1
    <2> QED BY ONLY <1>1, <1>2, <1>5, <1>9, <2>2
  <1>11. CASE k < K
    <2>1. size > k * cube
      BY <1>3, <1>4, <1>11, NextRow
    <2>2. cut \div 2 = m * sq
      <3>1. cut = 2 * (m * sq) /\ m * sq \in Nat
        BY <1>4, <1>8
      <3> QED BY ONLY <3>1
    <2>3. PICK q \in Nat, r \in 0 .. m - 1 : K = q * m + r /\ r = K % m
      BY Divide
    <2>4. size % cut = r * cube
      <3>1. size = q * cut + r * cube
        <4>1. cube \in Nat /\ r \in Nat
          BY <1>4
        <4>2. (q * m + r) * cube = q * (m * cube) + r * cube
          BY ONLY <4>1, q \in Nat, m \in Nat \ {0}, r \in Nat
        <4> QED BY ONLY <1>3, <1>8, <2>3, <4>2
      <3>2. r * cube + cube <= m * cube /\ r * cube \in Nat /\ m * cube \in Nat
        BY <1>4, NextRow
      <3>3. r * cube \in 0 .. cut - 1 /\ cut \in Nat \ {0}
        BY <1>4, <1>8, <3>2
      <3> QED BY ONLY <3>1, <3>3, Divided
    <2>5. (size % cut) \div 2 = r * sq
      <3>1. r * cube = 2 * (r * sq) /\ r * sq \in Nat
        BY <1>4
      <3> QED BY ONLY <2>4, <3>1
    <2>6. Cut(m, K)
      BY ONLY <1>1, <1>9, <2>1, <2>2, <2>3, <2>5 DEF Cut
    <2> QED BY ONLY <1>2, <1>7, <1>11, <2>6, k \in Nat, K \in Nat, m \in Nat \ {0}
  <1> QED BY <1>10, <1>11

col_size == Dim!cube_col_size
cube_range == Dim!buf_cube_range

\* The pixels of the j-th block of an image, and what the last burst of each of
\* its columns ends at.
Pixels(j) == IF cube_range = 1 THEN Dim!hw ELSE IF j = cube_range - 1 THEN Dim!hw_tail_size ELSE col_size
Whole(j) == Dim!CeilDiv(Pixels(j), C0) * C0

SizedBuffer ==
  /\ Dim!hw \in Nat \ {0} /\ C0 \in Nat \ {0} /\ col_size \in Nat \ {0} /\ cube_range \in Nat \ {0} /\ C0 <= col_size
  /\ Dim!cube_buf_max.full = col_size * C0
  /\ \E m \in Nat : col_size = m * C0
SizedPart(j) ==
  /\ Pixels(j) \in 1 .. col_size /\ Whole(j) \in 1 .. col_size
  /\ Pixels(j) <= Whole(j) /\ Whole(j) < Pixels(j) + C0
  /\ \E m \in Nat : Whole(j) = m * C0
  /\ j # cube_range - 1 => Pixels(j) = col_size /\ Whole(j) = col_size /\ j * col_size + col_size <= Dim!hw
  /\ j = cube_range - 1 => j * col_size + Pixels(j) = Dim!hw
SizedOne == cube_range = 1 => Whole(0) = col_size /\ Dim!hw_tail_size = IF Dim!hw = col_size THEN 0 ELSE Dim!hw
SizedTail ==
  cube_range # 1 => /\ Dim!cube_buf_max.tail = Whole(cube_range - 1) * C0
                    /\ Dim!hw_tail_size % C0 = 0 <=> Dim!hw % C0 = 0
SizedEnd == Whole(cube_range - 1) = Pixels(cube_range - 1) <=> Dim!hw % C0 = 0
Sized ==
  SizedBuffer /\ (\A j \in 0 .. cube_range - 1 : SizedPart(j)) /\ SizedEnd /\ SizedOne /\ SizedTail

\* The blocks of an image make up its pixels.
LEMMA Sizes ==
  ASSUME shape \in Shapes, op \in Ops, cube_range = 1 \/ Dim!cube_buf_max.tail # 0
  PROVE  Sized
  <1>1. PICK h \in Nat \ {0}, c0 \in Nat \ {0} : h = Dim!hw /\ h = shape.hw /\ c0 = C0
    BY DimAssumption DEF Dim!hw
  <1>2. PICK K \in Nat : K = Dim!CeilDiv(h, c0)
    BY Ceiling
  <1>3. h <= K * c0 /\ K * c0 < h + c0 /\ (K * c0 = h <=> h % c0 = 0) /\ K * c0 \in Nat
    <2>1. h \in Nat /\ K * c0 \in Nat
      OBVIOUS
    <2>2. h <= Dim!CeilDiv(h, c0) * c0 /\ Dim!CeilDiv(h, c0) * c0 < h + c0
      BY ONLY <2>1, c0 \in Nat \ {0}, Ceiling
    <2>3. Dim!CeilDiv(h, c0) * c0 = h <=> h % c0 = 0
      BY ONLY <2>1, c0 \in Nat \ {0}, Ceiling
    <2> QED BY ONLY <1>2, <2>1, <2>2, <2>3
  <1>4. ASSUME NEW m \in Nat \ {0}, Dim!cube_buf_max.full = m * (C0 * C0)
        PROVE  col_size = m * c0 /\ col_size \in Nat \ {0} /\ Dim!cube_buf_max.full = col_size * C0 /\ C0 <= col_size
    <2>1. m * c0 \in Nat \ {0} /\ c0 <= m * c0 /\ m * (c0 * c0) = (m * c0) * c0 + 0
      <3>1. c0 * 1 <= c0 * m
        BY FactorsGrow
      <3> QED BY ONLY <3>1, m \in Nat \ {0}, c0 \in Nat \ {0}
    <2>2. ((m * c0) * c0 + 0) \div c0 = m * c0
      <3>1. 0 \in 0 .. c0 - 1
        OBVIOUS
      <3> QED BY <2>1, <3>1, Divided
    <2>3. col_size = m * c0
      BY <1>1, <1>4, <2>1, <2>2 DEF col_size, Dim!cube_col_size
    <2> QED BY ONLY <1>1, <1>4, <2>1, <2>3
  <1>5. cube_range = Dim!CeilDiv(h, col_size) /\ Dim!hw_tail_size = h % col_size
    BY <1>1 DEF cube_range, col_size, Dim!buf_cube_range, Dim!hw_tail_size
  <1>6. CASE Dim!cube_buf_max = [full |-> K * (C0 * C0), tail |-> 0]
    <2>1. K \in Nat \ {0}
      BY ONLY <1>3, h \in Nat \ {0}, c0 \in Nat \ {0}, K \in Nat
    <2>2. col_size = K * c0 /\ col_size \in Nat \ {0} /\ Dim!cube_buf_max.full = col_size * C0 /\ C0 <= col_size
      BY <1>4, <1>6, <2>1
    <2>3. PICK v \in Nat \ {0} : v = col_size /\ v = K * c0
      BY <2>2
    <2>4. cube_range = 1
      <3>1. h <= 1 * v /\ 1 * v < h + v
        BY ONLY <1>3, <2>3, h \in Nat \ {0}, v \in Nat \ {0}
      <3> QED BY <1>5, <2>3, <3>1, Ceiling
    <2>5. h % v = IF h = v THEN 0 ELSE h
      <3>1. CASE h = v
        BY <3>1
      <3>2. CASE h < v
        BY <3>2
      <3> QED BY ONLY <1>3, <2>3, <3>1, <3>2, h \in Nat, v \in Nat
    <2>6. \A j : Pixels(j) = h /\ Whole(j) = v
      BY <1>1, <1>2, <2>3, <2>4 DEF Pixels, Whole
    <2>7. cube_range - 1 = 0 /\ 0 .. cube_range - 1 = {0}
      BY ONLY <2>4
    <2>8. ASSUME NEW j \in 0 .. cube_range - 1
          PROVE  /\ Pixels(j) \in 1 .. v /\ Whole(j) \in 1 .. v
                 /\ Pixels(j) <= Whole(j) /\ Whole(j) < Pixels(j) + c0
                 /\ \E x \in Nat : Whole(j) = x * c0
                 /\ j = cube_range - 1 /\ j * v + Pixels(j) = h
      <3>1. j = 0
        BY <2>7
      <3> QED BY ONLY <1>3, <2>3, <2>6, <2>7, <3>1, h \in Nat \ {0}, v \in Nat \ {0}, K \in Nat, c0 \in Nat
    <2>9. Whole(cube_range - 1) = v /\ Pixels(cube_range - 1) = h
      BY <2>6
    <2>10. \A j \in 0 .. cube_range - 1 :
             /\ Pixels(j) \in 1 .. col_size /\ Whole(j) \in 1 .. col_size
             /\ Pixels(j) <= Whole(j) /\ Whole(j) < Pixels(j) + C0
             /\ \E m \in Nat : Whole(j) = m * C0
             /\ j # cube_range - 1 => Pixels(j) = col_size /\ Whole(j) = col_size /\ j * col_size + col_size <= Dim!hw
             /\ j = cube_range - 1 => j * col_size + Pixels(j) = Dim!hw
      BY ONLY <1>1, <2>3, <2>8
    <2>11. \E m \in Nat : col_size = m * C0
      BY ONLY <1>1, <2>2, K \in Nat
    <2>12. Whole(cube_range - 1) = Pixels(cube_range - 1) <=> Dim!hw % C0 = 0
      BY ONLY <1>1, <1>3, <2>3, <2>9
    <2>13. Whole(0) = col_size /\ Dim!hw_tail_size = IF Dim!hw = col_size THEN 0 ELSE Dim!hw
      BY ONLY <1>1, <1>5, <2>3, <2>5, <2>6
    <2>14. cube_range \in Nat \ {0} /\ C0 \in Nat \ {0} /\ Dim!hw \in Nat \ {0}
      BY ONLY <1>1, <2>4
    <2> QED BY ONLY <2>2, <2>4, <2>10, <2>11, <2>12, <2>13, <2>14 DEF Sized, SizedBuffer, SizedPart, SizedOne, SizedTail, SizedEnd
  <1>7. ASSUME NEW m \in Nat \ {0}, m < K, Cut(m, K) PROVE Sized
    <2>1. Dim!cube_buf_max.full = m * (C0 * C0) /\ Dim!cube_buf_max.tail = (K % m) * (C0 * C0)
      BY <1>7 DEF Cut
    <2>2. col_size = m * c0 /\ col_size \in Nat \ {0} /\ Dim!cube_buf_max.full = col_size * C0 /\ C0 <= col_size
      BY <1>4, <2>1
    <2>3. PICK v \in Nat \ {0} : v = col_size /\ v = m * c0
      BY <2>2
    <2>4. PICK q \in Nat, r \in 0 .. m - 1 : K = q * m + r /\ r = K % m
      BY Divide
    <2>5. v < h
      <3>1. m * c0 + c0 <= K * c0
        BY <1>7, NextRow
      <3> QED BY ONLY <1>3, <2>3, <3>1, h \in Nat, c0 \in Nat, v \in Nat
    <2>6. cube_range # 1
      <3>1. h <= Dim!CeilDiv(h, v) * v
        BY Ceiling
      <3> QED BY ONLY <1>5, <2>3, <2>5, <3>1, h \in Nat, v \in Nat
    <2>7. r # 0
      BY ONLY <2>1, <2>4, <2>6, cube_range = 1 \/ Dim!cube_buf_max.tail # 0, DimAssumption
    <2>8. PICK t \in Int : t = h - q * v
      OBVIOUS
    <2>9. K * c0 = q * v + r * c0 /\ r * c0 \in Nat /\ q * v \in Nat
      BY ONLY <2>3, <2>4, q \in Nat, m \in Nat, c0 \in Nat, r \in 0 .. m - 1
    <2>10. c0 <= r * c0 /\ r * c0 + c0 <= v
      <3>1. r * c0 + c0 <= m * c0
        BY NextRow
      <3>2. c0 * 1 <= c0 * r
        BY <2>7, FactorsGrow
      <3>3. c0 * r = r * c0 /\ c0 * 1 = c0
        OBVIOUS
      <3> QED BY ONLY <2>3, <3>1, <3>2, <3>3
    <2>11. t \in 1 .. v - 1 /\ h = q * v + t /\ t <= r * c0 /\ r * c0 < t + c0
      BY ONLY <1>3, <2>8, <2>9, <2>10, t \in Int, v \in Nat, c0 \in Nat \ {0}, h \in Nat
    <2>12. h % v = t /\ cube_range = q + 1
      <3>1. t \in 0 .. v - 1
        BY <2>11
      <3>2. h % v = t
        BY ONLY <2>11, <3>1, Divided, v \in Nat \ {0}, q \in Nat
      <3>3. (q + 1) * v = q * v + v
        OBVIOUS
      <3>4. q + 1 \in Nat /\ h <= (q + 1) * v /\ (q + 1) * v < h + v
        BY ONLY <2>9, <2>11, <3>3, q \in Nat, v \in Nat \ {0}
      <3>5. Dim!CeilDiv(h, v) = q + 1
        BY ONLY Ceiling, <3>4, v \in Nat \ {0}, h \in Nat \ {0}
      <3> QED BY ONLY <1>5, <2>3, <3>2, <3>5
    <2>13. Pixels(q) = t /\ Whole(q) = r * c0
      <3>1. Pixels(q) = t
        BY ONLY <1>5, <2>3, <2>6, <2>12, q \in Nat DEF Pixels
      <3>2. Dim!CeilDiv(t, c0) = r
        BY ONLY Ceiling, <2>11, t \in Int, r \in 0 .. m - 1, c0 \in Nat \ {0}, m \in Nat \ {0}
      <3> QED BY ONLY <1>1, <3>1, <3>2 DEF Whole
    <2>14. \A j \in 0 .. q - 1 : Pixels(j) = v /\ Whole(j) = v
      <3>1. TAKE j \in 0 .. q - 1
      <3>2. Pixels(j) = v
        BY ONLY <2>3, <2>6, <2>12, q \in Nat, j \in 0 .. q - 1 DEF Pixels
      <3>3. v <= m * c0 /\ m * c0 < v + c0
        BY ONLY <2>3, v \in Nat, c0 \in Nat \ {0}
      <3>4. Dim!CeilDiv(v, c0) = m
        BY ONLY Ceiling, <3>3, v \in Nat, m \in Nat, c0 \in Nat \ {0}
      <3> QED BY ONLY <1>1, <2>3, <3>2, <3>4 DEF Whole
    <2>15. \A j \in 0 .. q - 1 : j * v + v <= h
      <3>1. TAKE j \in 0 .. q - 1
      <3>2. j * v + v <= q * v
        BY NextRow
      <3> QED BY ONLY <2>9, <2>11, <3>2, j \in 0 .. q - 1, v \in Nat, h \in Nat, t \in Int
    <2>16. t % c0 = 0 <=> h % c0 = 0
      <3>0. t \in Nat /\ r \in Nat
        BY <2>11
      <3>1. Dim!CeilDiv(t, c0) = r
        BY ONLY Ceiling, <2>11, <3>0, c0 \in Nat \ {0}
      <3>2. Dim!CeilDiv(t, c0) * c0 = t <=> t % c0 = 0
        BY ONLY Ceiling, <3>0, c0 \in Nat \ {0}
      <3> QED BY ONLY <1>3, <2>9, <2>11, <3>1, <3>2, h \in Nat, t \in Int
    <2>17. r * c0 = t <=> h % c0 = 0
      BY ONLY <1>3, <2>9, <2>11, h \in Nat, t \in Int
    <2>18. Dim!cube_buf_max.tail = (r * c0) * c0
      BY ONLY <1>1, <2>1, <2>4, r \in 0 .. m - 1, c0 \in Nat, m \in Nat
    <2>19. ASSUME NEW j \in 0 .. cube_range - 1
           PROVE  /\ Pixels(j) \in 1 .. v /\ Whole(j) \in 1 .. v
                  /\ Pixels(j) <= Whole(j) /\ Whole(j) < Pixels(j) + c0
                  /\ \E x \in Nat : Whole(j) = x * c0
                  /\ j # cube_range - 1 => Pixels(j) = v /\ Whole(j) = v /\ j * v + v <= h
                  /\ j = cube_range - 1 => j * v + Pixels(j) = h
      <3>1. CASE j = q
        BY ONLY <2>9, <2>10, <2>11, <2>12, <2>13, <3>1, v \in Nat, q \in Nat, c0 \in Nat \ {0}, t \in Int,
             r \in 0 .. m - 1, m \in Nat
      <3>2. CASE j # q
        <4>1. j \in 0 .. q - 1
          BY ONLY <2>12, <3>2, j \in 0 .. cube_range - 1, q \in Nat
        <4> QED BY ONLY <2>3, <2>12, <2>14, <2>15, <3>2, <4>1, v \in Nat \ {0}, m \in Nat, c0 \in Nat \ {0}, q \in Nat
      <3> QED BY <3>1, <3>2
    <2>20. cube_range - 1 = q /\ cube_range \in Nat \ {0}
      BY ONLY <2>12, q \in Nat
    <2> QED BY ONLY <1>1, <1>5, <2>2, <2>3, <2>6, <2>12, <2>13, <2>16, <2>17, <2>18, <2>19, <2>20 DEF Sized, SizedBuffer, SizedPart, SizedOne, SizedTail, SizedEnd
  <1> QED BY <1>1, <1>2, <1>6, <1>7, BufferSizes

\* The channels are those of the full C1 and of the last one.
LEMMA Channels ==
  ASSUME shape \in Shapes
  PROVE  /\ shape.c \in Nat \ {0} /\ shape.n \in Nat \ {0} /\ C0 \in Nat \ {0}
         /\ Dim!c1_tail \in 0 .. C0 - 1 /\ Dim!c1_loop \in Nat
         /\ shape.c = Dim!c1_loop * C0 + Dim!c1_tail
         /\ Dim!c1_range = IF Dim!c1_tail = 0 THEN Dim!c1_loop ELSE Dim!c1_loop + 1
  <1>1. PICK c \in Nat \ {0}, c0 \in Nat \ {0} : c = shape.c /\ c0 = C0
    BY DimAssumption
  <1>2. PICK q \in Nat, s \in 0 .. c0 - 1 : c = q * c0 + s /\ s = c % c0
    BY Divide
  <1>3. q * c0 \in Nat /\ (q + 1) * c0 = q * c0 + c0
    OBVIOUS
  <1>4. Dim!c1_tail = s /\ Dim!c1_range = Dim!CeilDiv(c, c0)
    BY <1>1, <1>2 DEF Dim!c1_tail, Dim!c1_range
  <1>5. CASE s = 0
    <2>1. c <= q * c0 /\ q * c0 < c + c0
      BY ONLY <1>2, <1>3, <1>5, c0 \in Nat \ {0}
    <2>2. Dim!CeilDiv(c, c0) = q
      BY <2>1, Ceiling
    <2> QED BY ONLY <1>1, <1>2, <1>4, <1>5, <2>2, DimAssumption, shape \in Shapes DEF Dim!c1_loop
  <1>6. CASE s # 0
    <2>1. c <= (q + 1) * c0 /\ (q + 1) * c0 < c + c0 /\ q + 1 \in Nat
      BY ONLY <1>2, <1>3, <1>6, c0 \in Nat \ {0}, s \in 0 .. c0 - 1, q \in Nat
    <2>2. Dim!CeilDiv(c, c0) = q + 1
      BY <2>1, Ceiling
    <2>3. Dim!c1_range = q + 1 /\ Dim!c1_loop = q
      BY ONLY <1>4, <1>6, <2>2, q \in Nat DEF Dim!c1_loop
    <2> QED BY ONLY <1>1, <1>2, <1>4, <1>6, <2>3, DimAssumption, shape \in Shapes
  <1> QED BY <1>5, <1>6

\* The block of the j-th part of the pixels of a C1 of an image; the channels
\* that this C1 has.
IsPart(n, c1x, j) ==
  n \in 0 .. shape.n - 1 /\ c1x \in 0 .. Dim!c1_range - 1 /\ j \in 0 .. cube_range - 1
BlockOf(n, c1x, j) ==
  IF c1x < Dim!c1_loop THEN (n * Dim!c1_loop + c1x) * cube_range + j ELSE Dim!FullBlocks + n * cube_range + j
Channel(c1x) == 0 .. (IF c1x < Dim!c1_loop THEN C0 ELSE Dim!c1_tail) - 1

\* No two parts are in one block, and the blocks of the last C1 come last.
LEMMA BlockOrder ==
  ASSUME shape \in Shapes, cube_range \in Nat \ {0},
         NEW n, NEW c1x, NEW j, IsPart(n, c1x, j), NEW m, NEW d1, NEW k, IsPart(m, d1, k)
  PROVE  /\ BlockOf(n, c1x, j) \in Nat
         /\ BlockOf(n, c1x, j) = BlockOf(m, d1, k) => n = m /\ c1x = d1 /\ j = k
         /\ c1x < Dim!c1_loop /\ d1 >= Dim!c1_loop => BlockOf(n, c1x, j) < BlockOf(m, d1, k)
         /\ c1x < Dim!c1_loop /\ d1 < Dim!c1_loop /\ (n < m \/ (n = m /\ c1x < d1)) =>
              BlockOf(n, c1x, j) < BlockOf(m, d1, k)
         /\ n = m /\ c1x = d1 /\ j < k => BlockOf(n, c1x, j) < BlockOf(m, d1, k)
  <1>1. PICK l \in Nat, r \in Nat \ {0}, i \in Nat \ {0} : l = Dim!c1_loop /\ r = cube_range /\ i = shape.n
    BY Channels
  <1>2. /\ n \in 0 .. i - 1 /\ c1x \in Nat /\ j \in 0 .. r - 1
        /\ m \in 0 .. i - 1 /\ d1 \in Nat /\ k \in 0 .. r - 1
        /\ (c1x >= l /\ d1 >= l => c1x = d1)
    BY <1>1, Channels DEF IsPart
  <1>3. Dim!FullBlocks = (i * l) * r
    BY <1>1 DEF Dim!FullBlocks, cube_range
  <1>4. PICK u \in Nat, v \in Nat, f \in Nat : u = n * l + c1x /\ v = m * l + d1 /\ f = (i * l) * r
    BY <1>2
  <1>5. u * r \in Nat /\ v * r \in Nat /\ n * r \in Nat /\ m * r \in Nat
    BY <1>2
  <1>6. c1x < l => u < i * l
    <2>1. n * l + l <= i * l /\ n * l \in Nat /\ i * l \in Nat
      BY <1>2, NextRow
    <2> QED BY ONLY <1>2, <1>4, <2>1, l \in Nat
  <1>7. c1x < l => u * r + r <= f
    BY <1>4, <1>6, NextRow
  <1>8. CASE c1x < l /\ d1 < l
    <2>1. BlockOf(n, c1x, j) = u * r + j /\ BlockOf(m, d1, k) = v * r + k
      BY <1>1, <1>4, <1>8 DEF BlockOf
    <2>2. n < m \/ (n = m /\ c1x < d1) => u < v
      <3>1. n < m => n * l + l <= m * l
        BY <1>2, NextRow
      <3>2. n * l \in Nat /\ m * l \in Nat
        BY <1>2
      <3> QED BY ONLY <1>2, <1>4, <1>8, <3>1, <3>2, l \in Nat
    <2>3. u < v => u * r + r <= v * r
      BY NextRow
    <2>4. u * r + j = v * r + k => u = v /\ j = k
      BY <1>2, SameRow
    <2>5. u = v => n = m /\ c1x = d1
      <3>1. c1x \in 0 .. l - 1 /\ d1 \in 0 .. l - 1
        BY ONLY <1>2, <1>8, l \in Nat
      <3> QED BY ONLY <1>2, <1>4, <3>1, l \in Nat, SameRow
    <2>6. n = m /\ c1x = d1 => u = v
      BY <1>4
    <2> QED BY ONLY <1>1, <1>2, <1>5, <1>8, <2>1, <2>2, <2>3, <2>4, <2>5, <2>6, r \in Nat, u \in Nat, v \in Nat
  <1>9. CASE c1x < l /\ d1 >= l
    <2>1. BlockOf(n, c1x, j) = u * r + j /\ BlockOf(m, d1, k) = f + m * r + k
      BY <1>1, <1>2, <1>3, <1>4, <1>9 DEF BlockOf
    <2> QED BY ONLY <1>1, <1>2, <1>5, <1>7, <1>9, <2>1, f \in Nat, r \in Nat, l \in Nat
  <1>10. CASE c1x >= l /\ d1 < l
    <2>1. BlockOf(n, c1x, j) = f + n * r + j /\ BlockOf(m, d1, k) = v * r + k
      BY <1>1, <1>2, <1>3, <1>4, <1>10 DEF BlockOf
    <2>2. v * r + r <= f
      <3>1. m * l + l <= i * l /\ m * l \in Nat /\ i * l \in Nat
        BY <1>2, NextRow
      <3>2. v < i * l
        BY ONLY <1>2, <1>4, <1>10, <3>1, l \in Nat
      <3> QED BY <1>4, <3>1, <3>2, NextRow
    <2> QED BY ONLY <1>1, <1>2, <1>5, <1>10, <2>1, <2>2, f \in Nat, r \in Nat, l \in Nat
  <1>11. CASE c1x >= l /\ d1 >= l
    <2>1. BlockOf(n, c1x, j) = f + n * r + j /\ BlockOf(m, d1, k) = f + m * r + k /\ c1x = d1
      BY <1>1, <1>2, <1>3, <1>4, <1>11 DEF BlockOf
    <2>2. n * r + j = m * r + k => n = m /\ j = k
      BY <1>2, SameRow
    <2> QED BY ONLY <1>1, <1>2, <1>5, <1>11, <2>1, <2>2, f \in Nat, r \in Nat, l \in Nat
  <1> QED BY <1>1, <1>2, <1>8, <1>9, <1>10, <1>11

\* The program is at a part, and all parts have been done when it ends.
LEMMA AtBlock ==
  ASSUME shape \in Shapes, cube_range \in Nat \ {0}, block \in Nat, block < Dim!Blocks
  PROVE  /\ IsPart(Dim!At.n, Dim!At.c1, Dim!At.cube)
         /\ BlockOf(Dim!At.n, Dim!At.c1, Dim!At.cube) = block
         /\ 0 .. Dim!At.c0_loop - 1 = Channel(Dim!At.c1)
  <1>1. PICK l \in Nat, r \in Nat \ {0}, i \in Nat \ {0} : l = Dim!c1_loop /\ r = cube_range /\ i = shape.n
    BY Channels
  <1>2. PICK b \in Nat : b = block
    OBVIOUS
  <1>3. Dim!FullBlocks = (i * l) * r /\ r = Dim!buf_cube_range
    BY <1>1 DEF Dim!FullBlocks, cube_range
  <1>4. PICK f \in Nat : f = (i * l) * r
    OBVIOUS
  <1>5. CASE b < f
    <2>1. Dim!At = [n |-> b \div (l * r), c1 |-> (b \div r) % l, cube |-> b % r, c0_loop |-> C0]
      BY <1>1, <1>2, <1>3, <1>4, <1>5 DEF Dim!At
    <2>2. PICK u \in Nat, j \in 0 .. r - 1 : b = u * r + j /\ u = b \div r /\ j = b % r
      BY Divide
    <2>3. u < i * l
      <3>1. i * l \in Nat
        OBVIOUS
      <3>2. i * l < u => (i * l) * r + r <= u * r
        BY <3>1, NextRow
      <3>3. u * r \in Nat
        OBVIOUS
      <3> QED BY ONLY <1>4, <1>5, <2>2, <3>1, <3>2, <3>3, f \in Nat, u \in Nat, r \in Nat \ {0}
    <2>4. l # 0
      BY ONLY <2>3, i \in Nat, l \in Nat, u \in Nat
    <2>5. PICK n \in Nat, d \in 0 .. l - 1 : u = n * l + d /\ d = u % l
      BY <2>4, Divide
    <2>6. b = n * (l * r) + (d * r + j)
      <3>1. (n * l + d) * r = n * (l * r) + d * r
        BY ONLY n \in Nat, l \in Nat, r \in Nat, d \in 0 .. l - 1
      <3>2. n * (l * r) \in Nat /\ d * r \in Nat
        BY ONLY n \in Nat, l \in Nat, r \in Nat, d \in 0 .. l - 1
      <3>3. b = (n * l + d) * r + j
        BY ONLY <2>2, <2>5
      <3> QED BY ONLY <3>1, <3>2, <3>3, j \in 0 .. r - 1, r \in Nat
    <2>7. l * r \in Nat \ {0} /\ d * r + j \in 0 .. (l * r) - 1
      <3>1. d * r + r <= l * r /\ d * r \in Nat /\ l * r \in Nat
        BY <2>4, NextRow
      <3> QED BY ONLY <3>1, r \in Nat \ {0}, j \in 0 .. r - 1
    <2>8. b \div (l * r) = n
      BY ONLY <2>6, <2>7, n \in Nat, Divided
    <2>9. n \in 0 .. i - 1
      <3>1. i < n => i * l + l <= n * l
        BY NextRow
      <3>2. n * l \in Nat
        OBVIOUS
      <3> QED BY ONLY <2>3, <2>5, <3>1, <3>2, i \in Nat, n \in Nat, l \in Nat, d \in 0 .. l - 1
    <2>10. Dim!At.n = n /\ Dim!At.c1 = d /\ Dim!At.cube = j /\ Dim!At.c0_loop = C0
      BY ONLY <2>1, <2>2, <2>5, <2>8
    <2>11. d \in 0 .. Dim!c1_range - 1 /\ d < Dim!c1_loop
      BY <1>1, Channels
    <2> QED BY ONLY <1>1, <1>2, <2>2, <2>5, <2>9, <2>10, <2>11 DEF IsPart, BlockOf, Channel
  <1>6. CASE ~(b < f)
    <2>1. PICK e \in Nat : e = b - f
      BY <1>6
    <2>2. Dim!At = [n |-> e \div r, c1 |-> l, cube |-> e % r, c0_loop |-> Dim!c1_tail]
      BY <1>1, <1>2, <1>3, <1>4, <1>6, <2>1 DEF Dim!At
    <2>3. PICK n \in Nat, j \in 0 .. r - 1 : e = n * r + j /\ n = e \div r /\ j = e % r
      BY Divide
    <2>4. Dim!Blocks = f + (IF Dim!c1_tail # 0 THEN i * r ELSE 0)
      BY <1>1, <1>3, <1>4 DEF Dim!Blocks
    <2>5. Dim!c1_tail # 0 /\ e < i * r
      BY ONLY <1>2, <1>6, <2>1, <2>4, b \in Nat, f \in Nat, i \in Nat, r \in Nat, block < Dim!Blocks
    <2>6. n \in 0 .. i - 1
      <3>1. i < n => i * r + r <= n * r
        BY NextRow
      <3>2. n * r \in Nat
        OBVIOUS
      <3> QED BY ONLY <2>3, <2>5, <3>1, <3>2, i \in Nat, n \in Nat, r \in Nat, j \in 0 .. r - 1
    <2>7. Dim!At.n = n /\ Dim!At.c1 = l /\ Dim!At.cube = j /\ Dim!At.c0_loop = Dim!c1_tail
      BY ONLY <2>2, <2>3
    <2>8. l \in 0 .. Dim!c1_range - 1 /\ ~(l < Dim!c1_loop)
      BY <1>1, <2>5, Channels
    <2>9. b = f + n * r + j
      BY ONLY <2>1, <2>3, b \in Nat, f \in Nat, n \in Nat, r \in Nat, j \in 0 .. r - 1
    <2> QED BY ONLY <1>1, <1>2, <1>3, <1>4, <2>6, <2>7, <2>8, <2>9, j \in 0 .. r - 1 DEF IsPart, BlockOf, Channel
  <1> QED BY <1>5, <1>6

-----------------------------------------------------------------------------
\* Where a pixel of a channel of a C1 of an image is in a tensor of each format.
Row(n, c1x, k) == n * shape.c + (c1x * C0 + k)
At4(n, c1x, k, p) == Row(n, c1x, k) * Dim!hw + p
At5(n, c1x, k, p) == ((n * Dim!c1_range + c1x) * Dim!hw + p) * C0 + k

\* The tensor out has this pixel's number in the input.
Placed(out, n, c1x, k, p) ==
  IF op = "four2five" THEN out[At5(n, c1x, k, p)] = At4(n, c1x, k, p)
                      ELSE out[At4(n, c1x, k, p)] = At5(n, c1x, k, p)

\* So it is for the parts in the first b blocks.
PlacedBelow(out, b) ==
  \A n \in 0 .. shape.n - 1 : \A c1x \in 0 .. Dim!c1_range - 1 : \A j \in 0 .. cube_range - 1 :
    BlockOf(n, c1x, j) < b =>
      \A k \in Channel(c1x) : \A x \in 0 .. Pixels(j) - 1 : Placed(out, n, c1x, k, j * col_size + x)

\* The pixels of the current block, in the order of the input and of the output.
Here4(k, x) == At4(Dim!At.n, Dim!At.c1, k, Dim!At.cube * col_size + x)
Here5(k, x) == At5(Dim!At.n, Dim!At.c1, k, Dim!At.cube * col_size + x)
InBlock(ub) ==
  \A k \in Channel(Dim!At.c1) : \A x \in 0 .. Pixels(Dim!At.cube) - 1 :
    IF op = "four2five" THEN ub[k * col_size + x] = Here4(k, x)
                        ELSE ub[x * C0 + k] = Here5(k, x)
OutBlock(ub) ==
  \A k \in Channel(Dim!At.c1) : \A x \in 0 .. Pixels(Dim!At.cube) - 1 :
    IF op = "four2five" THEN ub[x * C0 + k] = Here4(k, x)
                        ELSE ub[k * col_size + x] = Here5(k, x)

\* The last bursts of the block reach over the heads of the next channels, which
\* are put back.
PutsBack == op = "five2four" /\ Dim!IsTail /\ Dim!hw_tail_size % C0 # 0
HeadsKept(ub) ==
  \A k \in Channel(Dim!At.c1) : \A x \in 0 .. C0 - 1 : ub[k * C0 + x] = At5(Dim!At.n, Dim!At.c1, k, x)
PlacedButHeads(out) ==
  \A n \in 0 .. shape.n - 1 : \A c1x \in 0 .. Dim!c1_range - 1 : \A j \in 0 .. cube_range - 1 :
    BlockOf(n, c1x, j) < block + 1 =>
      \A k \in Channel(c1x) : \A x \in 0 .. Pixels(j) - 1 :
        n # Dim!At.n \/ c1x # Dim!At.c1 \/ j * col_size + x >= C0 => Placed(out, n, c1x, k, j * col_size + x)

\* What holds between the instructions of a block.
BlockInv ==
  /\ block <= Dim!Blocks
  /\ pc # "restore" => PlacedBelow(output, block)
  /\ pc = "transpose" => InBlock(input_ub)
  /\ pc \in {"backup", "out"} => OutBlock(output_ub)
  /\ pc \in {"backup", "restore"} => PutsBack
  /\ pc = "restore" \/ (pc = "out" /\ PutsBack) => HeadsKept(output_head_ub)
  /\ pc = "restore" => PlacedButHeads(output)

Cells ==
  /\ DOMAIN output = 0 .. Dim!OutputSize + C0 - 1
  /\ DOMAIN input_ub = 0 .. Dim!cube_buf_max.full - 1 /\ DOMAIN output_ub = DOMAIN input_ub
  /\ DOMAIN output_head_ub = 0 .. C0 * C0 - 1

ConvInv ==
  /\ shape \in Shapes /\ op \in Ops /\ block \in Nat
  /\ pc # "in" => block < Dim!Blocks
  /\ pc \in {"in", "transpose", "backup", "out", "restore"}
  /\ Cells
  /\ Dim!Regular => BlockInv

-----------------------------------------------------------------------------
\* A pixel of a channel that the tensor has.
IsPixel(n, c1x, k, p) ==
  n \in 0 .. shape.n - 1 /\ c1x \in 0 .. Dim!c1_range - 1 /\ k \in Channel(c1x) /\ p \in 0 .. Dim!hw - 1

\* The number below q * r with the quotient p is below p' * r for the larger p'.
LEMMA Below ==
  ASSUME NEW q \in Nat, NEW r \in Nat, NEW p \in 0 .. q - 1, NEW s \in 0 .. r - 1
  PROVE  p * r + s \in 0 .. (q * r) - 1 /\ p * r + s \in Nat /\ q * r \in Nat
  <1>1. p * r + r <= q * r /\ p * r \in Nat /\ q * r \in Nat
    BY NextRow
  <1> QED BY ONLY <1>1, r \in Nat, s \in 0 .. r - 1

\* The channels of a C1 are channels of the tensor.
LEMMA ChannelOf ==
  ASSUME shape \in Shapes, NEW c1x \in 0 .. Dim!c1_range - 1, NEW k \in Channel(c1x)
  PROVE  /\ k \in 0 .. C0 - 1 /\ c1x * C0 + k \in 0 .. shape.c - 1 /\ c1x \in Nat
         /\ c1x >= Dim!c1_loop => Dim!c1_tail # 0 /\ c1x = Dim!c1_loop
  <1>1. PICK c \in Nat \ {0}, r \in Nat \ {0}, l \in Nat, t \in Nat :
          /\ c = shape.c /\ r = C0 /\ l = Dim!c1_loop /\ t = Dim!c1_tail
          /\ t \in 0 .. r - 1 /\ c = l * r + t
    <2>1. Dim!c1_tail \in Nat
      BY Channels
    <2> QED BY <2>1, Channels
  <1>2. c1x \in Nat /\ l * r \in Nat
    BY <1>1, Channels
  <1>3. CASE c1x < l
    <2>1. k \in 0 .. r - 1
      BY <1>1, <1>3 DEF Channel
    <2>2. c1x \in 0 .. l - 1
      BY <1>2, <1>3
    <2>3. c1x * r + k \in 0 .. (l * r) - 1
      BY ONLY <2>1, <2>2, Below, l \in Nat, r \in Nat \ {0}
    <2> QED BY ONLY <1>1, <1>2, <1>3, <2>1, <2>3, l \in Nat, c \in Nat, r \in Nat, t \in Nat
  <1>4. CASE c1x >= l
    <2>1. t # 0 /\ c1x = l
      BY <1>1, <1>2, <1>4, Channels
    <2>2. k \in 0 .. t - 1
      BY <1>1, <1>4, <2>1 DEF Channel
    <2> QED BY ONLY <1>1, <1>2, <2>1, <2>2, l \in Nat, c \in Nat, r \in Nat, t \in Nat
  <1> QED BY <1>1, <1>2, <1>3, <1>4

\* The places of the pixels in NCHW, in order.
LEMMA Place4 ==
  ASSUME shape \in Shapes, NEW n, NEW c1x, NEW k, NEW p, IsPixel(n, c1x, k, p)
  PROVE  /\ Row(n, c1x, k) \in Nat /\ At4(n, c1x, k, p) = Row(n, c1x, k) * Dim!hw + p
         /\ At4(n, c1x, k, p) \in 0 .. (shape.n * Dim!hw * shape.c) - 1
  <1>1. PICK i \in Nat \ {0}, c \in Nat \ {0}, h \in Nat \ {0} : i = shape.n /\ c = shape.c /\ h = Dim!hw
    BY DimAssumption DEF Dim!hw
  <1>2. PICK s \in 0 .. c - 1 : s = c1x * C0 + k
    BY <1>1, ChannelOf DEF IsPixel
  <1>3. n \in 0 .. i - 1 /\ p \in 0 .. h - 1
    BY <1>1 DEF IsPixel
  <1>4. n * c + s \in 0 .. (i * c) - 1 /\ n * c + s \in Nat /\ i * c \in Nat
    BY <1>3, Below
  <1>5. PICK u \in 0 .. (i * c) - 1 : u = n * c + s /\ u \in Nat
    BY <1>4
  <1>6. u * h + p \in 0 .. ((i * c) * h) - 1
    BY ONLY <1>3, <1>4, <1>5, Below, h \in Nat \ {0}
  <1>7. (i * c) * h = i * h * c
    OBVIOUS
  <1> QED BY ONLY <1>1, <1>2, <1>5, <1>6, <1>7 DEF Row, At4

\* No two pixels share a cell of NCHW, and the rows are in the order of the channels.
LEMMA Order4 ==
  ASSUME shape \in Shapes, NEW n, NEW c1x, NEW k, NEW p, IsPixel(n, c1x, k, p),
         NEW m, NEW d1, NEW l, NEW q, IsPixel(m, d1, l, q)
  PROVE  /\ At4(n, c1x, k, p) = At4(m, d1, l, q) => n = m /\ c1x = d1 /\ k = l /\ p = q
         /\ Row(n, c1x, k) < Row(m, d1, l) => n < m \/ (n = m /\ c1x < d1) \/ (n = m /\ c1x = d1 /\ k < l)
  <1>1. PICK i \in Nat \ {0}, c \in Nat \ {0}, h \in Nat \ {0}, r \in Nat \ {0} :
          i = shape.n /\ c = shape.c /\ h = Dim!hw /\ r = C0
    BY DimAssumption DEF Dim!hw
  <1>2. PICK s \in 0 .. c - 1, t \in 0 .. c - 1 : s = c1x * r + k /\ t = d1 * r + l
    BY <1>1, ChannelOf DEF IsPixel
  <1>3. /\ n \in Nat /\ p \in 0 .. h - 1 /\ m \in Nat /\ q \in 0 .. h - 1
        /\ k \in 0 .. r - 1 /\ l \in 0 .. r - 1 /\ c1x \in Nat /\ d1 \in Nat
    BY <1>1, ChannelOf DEF IsPixel
  <1>4. Row(n, c1x, k) = n * c + s /\ Row(m, d1, l) = m * c + t
    BY <1>1, <1>2 DEF Row
  <1>5. PICK u \in Nat, v \in Nat : u = n * c + s /\ v = m * c + t
    BY <1>3
  <1>6. At4(n, c1x, k, p) = u * h + p /\ At4(m, d1, l, q) = v * h + q
    BY <1>1, <1>4, <1>5 DEF At4
  <1>7. u * h + p = v * h + q => u = v /\ p = q
    BY <1>3, SameRow
  <1>8. n * c + s = m * c + t => n = m /\ s = t
    BY <1>3, SameRow
  <1>9. c1x * r + k = d1 * r + l => c1x = d1 /\ k = l
    BY <1>3, SameRow
  <1>10. u < v => n < m \/ (n = m /\ s < t)
    <2>1. m < n => m * c + c <= n * c
      BY <1>3, NextRow
    <2>2. m * c \in Nat /\ n * c \in Nat
      BY <1>3
    <2> QED BY ONLY <1>3, <1>5, <2>1, <2>2, c \in Nat, s \in 0 .. c - 1, t \in 0 .. c - 1, u \in Nat, v \in Nat
  <1>11. s < t => c1x < d1 \/ (c1x = d1 /\ k < l)
    <2>1. d1 < c1x => d1 * r + r <= c1x * r
      BY <1>3, NextRow
    <2>2. d1 * r \in Nat /\ c1x * r \in Nat
      BY <1>3
    <2> QED BY ONLY <1>2, <1>3, <2>1, <2>2, r \in Nat, s \in 0 .. c - 1, t \in 0 .. c - 1, c \in Nat
  <1> QED BY ONLY <1>2, <1>4, <1>5, <1>6, <1>7, <1>8, <1>9, <1>10, <1>11

\* The places of the pixels in NC1HWC0.
LEMMA Place5 ==
  ASSUME shape \in Shapes, NEW n, NEW c1x, NEW k, NEW p, IsPixel(n, c1x, k, p)
  PROVE  /\ At5(n, c1x, k, p) \in 0 .. (shape.n * Dim!hw * (Dim!c1_range * C0)) - 1
         /\ (n * Dim!c1_range + c1x) * Dim!hw + p \in Nat
  <1>1. PICK i \in Nat \ {0}, g \in Nat, h \in Nat \ {0}, r \in Nat \ {0} :
          i = shape.n /\ g = Dim!c1_range /\ h = Dim!hw /\ r = C0
    BY DimAssumption, Channels DEF Dim!hw
  <1>2. n \in 0 .. i - 1 /\ p \in 0 .. h - 1 /\ c1x \in 0 .. g - 1 /\ k \in 0 .. r - 1
    BY <1>1, ChannelOf DEF IsPixel
  <1>3. PICK u \in 0 .. (i * g) - 1 : u = n * g + c1x /\ i * g \in Nat
    BY <1>2, Below
  <1>4. PICK v \in 0 .. ((i * g) * h) - 1 : v = u * h + p /\ (i * g) * h \in Nat /\ v \in Nat
    BY ONLY <1>2, <1>3, Below, h \in Nat \ {0}
  <1>5. v * r + k \in 0 .. (((i * g) * h) * r) - 1
    BY ONLY <1>2, <1>4, Below, r \in Nat \ {0}
  <1>6. ((i * g) * h) * r = i * h * (g * r)
    OBVIOUS
  <1> QED BY ONLY <1>1, <1>3, <1>4, <1>5, <1>6 DEF At5

\* No two pixels share a cell of NC1HWC0.
LEMMA Order5 ==
  ASSUME shape \in Shapes, NEW n, NEW c1x, NEW k, NEW p, IsPixel(n, c1x, k, p),
         NEW m \in Nat, NEW d1 \in 0 .. Dim!c1_range - 1, NEW q \in 0 .. Dim!hw - 1, NEW z \in 0 .. C0 - 1,
         At5(n, c1x, k, p) = At5(m, d1, z, q)
  PROVE  n = m /\ c1x = d1 /\ p = q /\ k = z
  <1>1. PICK g \in Nat, h \in Nat \ {0}, r \in Nat \ {0} : g = Dim!c1_range /\ h = Dim!hw /\ r = C0
    BY DimAssumption, Channels DEF Dim!hw
  <1>2. /\ n \in Nat /\ p \in 0 .. h - 1 /\ c1x \in 0 .. g - 1 /\ k \in 0 .. r - 1
        /\ q \in 0 .. h - 1 /\ d1 \in 0 .. g - 1 /\ z \in 0 .. r - 1
    BY <1>1, ChannelOf DEF IsPixel
  <1>3. PICK u \in Nat, v \in Nat : u = n * g + c1x /\ v = m * g + d1
    BY <1>2
  <1>4. PICK w \in Nat, y \in Nat : w = u * h + p /\ y = v * h + q
    BY <1>2
  <1>7. w * r + k = y * r + z => w = y /\ k = z
    BY <1>2, SameRow
  <1>8. u * h + p = v * h + q => u = v /\ p = q
    BY <1>2, SameRow
  <1>9. n * g + c1x = m * g + d1 => n = m /\ c1x = d1
    BY <1>2, SameRow
  <1>10. w * r + k = y * r + z
    BY <1>1, <1>3, <1>4 DEF At5
  <1> QED BY ONLY <1>3, <1>4, <1>7, <1>8, <1>9, <1>10

-----------------------------------------------------------------------------
\* The copy of columns: a cell that no burst covers stays, and another is from
\* the last column that covers it.
Burst(size) == Dim!CeilDiv(size, C0) * C0

LEMMA CopyDomain ==
  ASSUME NEW dst, NEW d, NEW from, NEW s, NEW size, NEW cols
  PROVE  DOMAIN Dim!Copy(dst, d, from, s, size, cols) = DOMAIN dst
  BY DEF Dim!Copy

LEMMA CopyMiss ==
  ASSUME NEW dst, NEW d, NEW from, NEW s, NEW size, NEW cols, NEW a \in DOMAIN dst,
         \A col \in 0 .. cols - 1 : ~(d[col] <= a /\ a < d[col] + Burst(size))
  PROVE  Dim!Copy(dst, d, from, s, size, cols)[a] = dst[a]
  <1>1. {col \in 0 .. cols - 1 : d[col] <= a /\ a < d[col] + Burst(size)} = {}
    OBVIOUS
  <1> QED BY <1>1 DEF Dim!Copy, Burst

LEMMA CopyHit ==
  ASSUME NEW dst, NEW d, NEW from, NEW s, NEW size, NEW cols \in Nat, NEW a \in DOMAIN dst,
         NEW col \in 0 .. cols - 1, d[col] <= a, a < d[col] + Burst(size),
         \A other \in 0 .. cols - 1 : other > col => ~(d[other] <= a /\ a < d[other] + Burst(size)),
         s[col] + a - d[col] \in DOMAIN from
  PROVE  Dim!Copy(dst, d, from, s, size, cols)[a] = from[s[col] + a - d[col]]
  <1>1. PICK over : over = {c \in 0 .. cols - 1 : d[c] <= a /\ a < d[c] + Burst(size)}
    OBVIOUS
  <1>2. col \in over /\ \A other \in over : other <= col /\ other \in Nat
    BY <1>1
  <1>3. (CHOOSE c \in over : \A other \in over : other <= c) = col
    <2>1. PICK c : c = CHOOSE x \in over : \A other \in over : other <= x
      OBVIOUS
    <2>2. c \in over /\ \A other \in over : other <= c
      BY <1>2, <2>1
    <2> QED BY ONLY <1>2, <2>1, <2>2
  <1>4. Dim!Copy(dst, d, from, s, size, cols)[a] =
          LET last == CHOOSE c \in over : \A other \in over : other <= c
              cell == s[last] + a - d[last]
          IN  IF over = {} THEN dst[a] ELSE IF cell \in DOMAIN from THEN from[cell] ELSE JUNK
    BY <1>1 DEF Dim!Copy, Burst
  <1> QED BY <1>2, <1>3, <1>4

\* Whole bursts are as long as they are.
LEMMA WholeBurst ==
  ASSUME NEW m \in Nat, C0 \in Nat \ {0}
  PROVE  Burst(m * C0) = m * C0
  <1>1. PICK c \in Nat \ {0}, z \in Nat : c = C0 /\ z = m * c
    OBVIOUS
  <1>2. z <= m * c /\ m * c < z + c
    BY ONLY <1>1, c \in Nat \ {0}, z \in Nat
  <1>3. Dim!CeilDiv(z, c) = m
    BY <1>2, Ceiling
  <1> QED BY <1>1, <1>3 DEF Burst

-----------------------------------------------------------------------------
\* A block is copied in, transposed and copied out with the sizes of its pixels.
Conv == shape \in Shapes /\ op \in Ops /\ block \in Nat /\ block < Dim!Blocks /\ Sized
J == Dim!At.cube

\* The sizes that the instructions of a block are emitted with.
LEMMA BlockSizes ==
  ASSUME Conv
  PROVE  /\ Dim!IsTail <=> cube_range # 1 /\ J = cube_range - 1
         /\ (IF Dim!IsTail THEN Dim!cube_buf_max.tail \div C0 ELSE Dim!cube_col_size) = Whole(J)
         /\ (IF Dim!IsTail THEN Dim!cube_buf_max.tail ELSE Dim!cube_buf_max.full) = Whole(J) * C0
         /\ Dim!repeat * C0 = Whole(J)
         /\ (IF Dim!IsTail THEN Dim!hw_tail_size ELSE IF Dim!buf_cube_range > 1 THEN Dim!cube_col_size ELSE Dim!hw)
              = Pixels(J)
         /\ (IF Dim!IsTail \/ (Dim!buf_cube_range = 1 /\ Dim!hw_tail_size # 0)
             THEN Dim!hw_tail_size ELSE Dim!cube_col_size) = Pixels(J)
  <1>1. PICK r \in Nat \ {0}, c0 \in Nat \ {0}, v \in Nat \ {0}, j \in Nat :
          r = cube_range /\ c0 = C0 /\ v = col_size /\ j = J /\ j \in 0 .. r - 1
    <2>1. C0 \in Nat \ {0} /\ col_size \in Nat \ {0} /\ cube_range \in Nat \ {0}
      BY DEF Conv, Sized, SizedBuffer
    <2>2. IsPart(Dim!At.n, Dim!At.c1, Dim!At.cube)
      BY <2>1, AtBlock DEF Conv
    <2>3. J \in 0 .. cube_range - 1
      BY <2>2 DEF J, IsPart
    <2> QED BY ONLY <2>1, <2>3
  <1>2. Dim!IsTail <=> r # 1 /\ j = r - 1
    <2>1. Dim!IsTail <=> r > 1 /\ j = r - 1
      BY <1>1 DEF Dim!IsTail, cube_range, J
    <2> QED BY ONLY <2>1, r \in Nat \ {0}, j \in Nat
  <1>0. SizedPart(j) /\ SizedBuffer /\ SizedOne /\ SizedTail
    BY ONLY <1>1, Conv DEF Conv, Sized
  <1>3. PICK m \in Nat, p \in Nat : v = m * c0 /\ Whole(j) = p * c0 /\ p * c0 \in Nat
    <2>1. PICK m \in Nat : v = m * c0
      BY <1>0, <1>1 DEF SizedBuffer
    <2>2. PICK p \in Nat : Whole(j) = p * c0
      BY <1>0, <1>1 DEF SizedPart
    <2>3. p * c0 \in Nat
      OBVIOUS
    <2> QED BY ONLY <2>1, <2>2, <2>3, m \in Nat, p \in Nat
  <1>4. Dim!cube_buf_max.full = v * c0
    BY <1>0, <1>1 DEF SizedBuffer
  <1>5. ~Dim!IsTail => Whole(j) = v
    <2>1. r = 1 => Whole(0) = v
      BY <1>0, <1>1 DEF SizedOne
    <2>2. j # r - 1 => Whole(j) = v
      BY <1>0, <1>1 DEF SizedPart
    <2> QED BY ONLY <1>1, <1>2, <2>1, <2>2, r \in Nat \ {0}, j \in Nat
  <1>6. Dim!IsTail => Dim!cube_buf_max.tail = (p * c0) * c0 + 0
    <2>1. r # 1 => Dim!cube_buf_max.tail = Whole(r - 1) * c0
      <3>1. cube_range # 1 => Dim!cube_buf_max.tail = Whole(cube_range - 1) * C0
        BY <1>0 DEF SizedTail
      <3> QED BY ONLY <1>1, <3>1
    <2>2. (p * c0) * c0 \in Nat
      OBVIOUS
    <2> QED BY ONLY <1>2, <1>3, <2>1, <2>2
  <1>7. ((p * c0) * c0 + 0) \div c0 = p * c0 /\ (p * c0 + 0) \div c0 = p /\ (m * c0 + 0) \div c0 = m
    <2>1. 0 \in 0 .. c0 - 1
      OBVIOUS
    <2> QED BY ONLY <1>3, <2>1, Divided, c0 \in Nat \ {0}, p \in Nat, m \in Nat
  <1>8. p * c0 + 0 = p * c0 /\ m * c0 + 0 = m * c0
    BY ONLY p \in Nat, m \in Nat, c0 \in Nat
  <1>9. v = Dim!cube_col_size /\ r = Dim!buf_cube_range
    BY <1>1 DEF col_size, cube_range
  <1>10. Dim!repeat * C0 = Whole(J)
    <2>1. CASE Dim!IsTail
      <3>1. Dim!repeat = p
        BY <1>1, <1>6, <1>7, <1>8, <2>1 DEF Dim!repeat
      <3> QED BY <1>1, <1>3, <3>1
    <2>2. CASE ~Dim!IsTail
      <3>1. Dim!repeat = m
        BY <1>1, <1>3, <1>7, <1>8, <1>9, <2>2 DEF Dim!repeat
      <3> QED BY <1>1, <1>3, <1>5, <2>2, <3>1
    <2> QED BY <2>1, <2>2
  <1>11. /\ (IF Dim!IsTail THEN Dim!cube_buf_max.tail \div C0 ELSE Dim!cube_col_size) = Whole(J)
         /\ (IF Dim!IsTail THEN Dim!cube_buf_max.tail ELSE Dim!cube_buf_max.full) = Whole(J) * C0
    <2>1. (p * c0) * c0 + 0 = (p * c0) * c0
      BY ONLY p \in Nat, c0 \in Nat
    <2> QED BY ONLY <1>1, <1>3, <1>4, <1>5, <1>6, <1>7, <1>9, <2>1
  <1>12. Pixels(j) = IF r = 1 THEN Dim!hw ELSE IF j = r - 1 THEN Dim!hw_tail_size ELSE v
    BY <1>1 DEF Pixels
  <1>13. r = 1 => Dim!hw_tail_size = IF Dim!hw = v THEN 0 ELSE Dim!hw
    BY <1>0, <1>1 DEF SizedOne
  <1>14. Dim!hw \in Nat \ {0}
    BY <1>0 DEF SizedBuffer
  <1> QED BY ONLY <1>1, <1>2, <1>9, <1>10, <1>11, <1>12, <1>13, <1>14, r \in Nat \ {0}, j \in Nat, v \in Nat \ {0}

\* The parts of an image lie one after the other.
LEMMA PartPixels ==
  ASSUME Sized, NEW j \in 0 .. cube_range - 1, NEW x \in 0 .. Pixels(j) - 1
  PROVE  j * col_size + x \in 0 .. Dim!hw - 1 /\ x \in 0 .. col_size - 1 /\ x \in 0 .. Whole(j) - 1
  <1>1. PICK v \in Nat \ {0}, h \in Nat \ {0}, r \in Nat \ {0}, c0 \in Nat :
          v = col_size /\ h = Dim!hw /\ r = cube_range /\ c0 = C0
    BY DEF Sized, SizedBuffer
  <1>2. SizedPart(j)
    BY DEF Sized
  <1>3. PICK p \in 1 .. v, w \in 1 .. v : p = Pixels(j) /\ w = Whole(j) /\ p <= w
    BY <1>1, <1>2 DEF SizedPart
  <1>4. (j # r - 1 => p = v /\ j * v + v <= h) /\ (j = r - 1 => j * v + p = h)
    BY ONLY <1>1, <1>2, <1>3 DEF SizedPart
  <1>5. PICK z \in Nat : z = j * v
    BY <1>1
  <1>6. x \in 0 .. p - 1 /\ j \in 0 .. r - 1
    BY <1>1, <1>3
  <1> QED BY ONLY <1>1, <1>3, <1>4, <1>5, <1>6, v \in Nat, h \in Nat, r \in Nat, p \in 1 .. v, w \in 1 .. v, z \in Nat

\* The addresses of the pixels of the block.
LEMMA BlockPixels ==
  ASSUME Conv
  PROVE  /\ IsPart(Dim!At.n, Dim!At.c1, J) /\ BlockOf(Dim!At.n, Dim!At.c1, J) = block
         /\ 0 .. Dim!At.c0_loop - 1 = Channel(Dim!At.c1) /\ Dim!At.c0_loop \in Nat
         /\ \A k \in Channel(Dim!At.c1) : \A x \in 0 .. Pixels(J) - 1 :
              IsPixel(Dim!At.n, Dim!At.c1, k, J * col_size + x)
         /\ \A k \in Channel(Dim!At.c1) : k \in 0 .. C0 - 1 /\ Row(Dim!At.n, Dim!At.c1, k) \in Nat
         /\ \A k \in 0 .. C0 - 1 : \A x \in Int : Dim!Start4[k] + x = Here4(k, x) /\ Dim!Head[k] + x = At4(Dim!At.n, Dim!At.c1, k, x)
         /\ \A k \in Int : \A x \in Int : Dim!Start5[0] + (x * C0 + k) = Here5(k, x)
         /\ \A k \in 0 .. C0 - 1 : Dim!Start4[k] \in Int /\ Dim!Head[k] \in Int
         /\ Dim!Start5[0] \in Int
  <1>1. /\ IsPart(Dim!At.n, Dim!At.c1, J) /\ BlockOf(Dim!At.n, Dim!At.c1, J) = block
        /\ 0 .. Dim!At.c0_loop - 1 = Channel(Dim!At.c1)
    <2>1. cube_range \in Nat \ {0}
      BY DEF Conv, Sized, SizedBuffer
    <2> QED BY <2>1, AtBlock DEF Conv, J
  <1>2. PICK c0 \in Nat \ {0}, v \in Nat \ {0}, h \in Nat \ {0}, c \in Nat \ {0}, g \in Nat :
          c0 = C0 /\ v = col_size /\ h = Dim!hw /\ c = shape.c /\ g = Dim!c1_range
    <2>1. SizedBuffer /\ shape \in Shapes
      BY DEF Conv, Sized
    <2>2. Dim!c1_range \in Nat /\ shape.c \in Nat \ {0}
      BY <2>1, Channels
    <2> QED BY <2>1, <2>2 DEF SizedBuffer
  <1>3. Dim!At.c0_loop \in Nat
    <2>1. Dim!At.c0_loop = C0 \/ Dim!At.c0_loop = Dim!c1_tail
      BY DEF Dim!At
    <2>2. Dim!c1_tail \in Nat /\ C0 \in Nat
      BY Channels DEF Conv
    <2> QED BY <2>1, <2>2
  <1>4. PICK n \in Nat, d \in Nat, j \in Nat :
          n = Dim!At.n /\ d = Dim!At.c1 /\ j = J /\ n \in 0 .. shape.n - 1 /\ d \in 0 .. g - 1 /\ j \in 0 .. cube_range - 1
    BY <1>1, <1>2 DEF IsPart
  <1>5. ASSUME NEW k \in Channel(d)
        PROVE  /\ k \in 0 .. C0 - 1 /\ Row(n, d, k) \in Nat
               /\ \A x \in 0 .. Pixels(j) - 1 : IsPixel(n, d, k, j * col_size + x)
    <2>1. k \in 0 .. C0 - 1 /\ d * C0 + k \in 0 .. shape.c - 1
      BY <1>2, <1>4, ChannelOf DEF Conv
    <2>2. Row(n, d, k) \in Nat
      <3>1. PICK s \in 0 .. c - 1 : s = d * C0 + k
        BY <1>2, <2>1
      <3>2. n * c + s \in Nat
        OBVIOUS
      <3> QED BY ONLY <1>2, <3>1, <3>2 DEF Row
    <2>3. \A x \in 0 .. Pixels(j) - 1 : j * col_size + x \in 0 .. Dim!hw - 1
      BY <1>4, PartPixels DEF Conv
    <2> QED BY ONLY <1>2, <1>4, <1>5, <2>1, <2>2, <2>3 DEF IsPixel
  <1>6. ASSUME NEW k \in 0 .. C0 - 1
        PROVE  /\ \A x \in Int : Dim!Start4[k] + x = Here4(k, x) /\ Dim!Head[k] + x = At4(Dim!At.n, Dim!At.c1, k, x)
               /\ Dim!Start4[k] \in Int /\ Dim!Head[k] \in Int
    <2>1. Dim!Start4[k] = n * c * h + (d * c0 + k) * h + j * v /\ Dim!Head[k] = n * c * h + (d * c0 + k) * h
      BY <1>2, <1>4 DEF Dim!Start4, Dim!Head, Dim!Cols, J, col_size
    <2>2. k \in Nat
      BY <1>2
    <2>3. PICK y \in Nat : y = d * c0 + k
      BY <2>2
    <2>4. n * c * h + y * h = (n * c + y) * h
      OBVIOUS
    <2>5. PICK u \in Nat : u = (n * c + y) * h
      OBVIOUS
    <2>6. PICK w \in Nat : w = j * v
      OBVIOUS
    <2>7. \A x \in Int : Here4(k, x) = u + (w + x) /\ At4(Dim!At.n, Dim!At.c1, k, x) = u + x
      BY ONLY <1>2, <1>4, <2>3, <2>5, <2>6 DEF Here4, At4, Row, J
    <2>8. Dim!Start4[k] = u + w /\ Dim!Head[k] = u
      BY ONLY <2>1, <2>3, <2>4, <2>5, <2>6
    <2> QED BY ONLY <2>7, <2>8, u \in Nat, w \in Nat
  <1>7. Dim!cube_buf_max.full = v * c0
    BY <1>2 DEF Conv, Sized, SizedBuffer
  <1>8. Dim!Start5[0] = n * (g * c0) * h + d * c0 * h + j * (v * c0)
    BY <1>2, <1>4, <1>7 DEF Dim!Start5, Dim!Cols, J
  <1>9. n * (g * c0) * h + d * c0 * h = ((n * g + d) * h) * c0
    OBVIOUS
  <1>10. PICK y \in Nat : y = (n * g + d) * h
    OBVIOUS
  <1>11. PICK w \in Nat : w = j * v
    OBVIOUS
  <1>12. j * (v * c0) = w * c0
    BY <1>11
  <1>13. Dim!Start5[0] = y * c0 + w * c0 /\ Dim!Start5[0] \in Int
    BY ONLY <1>8, <1>9, <1>10, <1>12, y \in Nat, w \in Nat, c0 \in Nat
  <1>14. ASSUME NEW k \in Int, NEW x \in Int PROVE Dim!Start5[0] + (x * C0 + k) = Here5(k, x)
    <2>1. Here5(k, x) = (y + (w + x)) * c0 + k
      BY ONLY <1>2, <1>4, <1>10, <1>11 DEF Here5, At5, J
    <2>2. (y + (w + x)) * c0 + k = y * c0 + w * c0 + (x * c0 + k)
      OBVIOUS
    <2> QED BY ONLY <1>2, <1>13, <2>1, <2>2
  <1> QED BY ONLY <1>1, <1>3, <1>4, <1>5, <1>6, <1>13, <1>14

-----------------------------------------------------------------------------
\* The instructions.

\* A cell of a block in a buffer, in either order.
LEMMA BufferCell ==
  ASSUME Conv, Cells, NEW k \in 0 .. C0 - 1, NEW x \in 0 .. col_size - 1
  PROVE  /\ k * col_size + x \in DOMAIN input_ub /\ x * C0 + k \in DOMAIN input_ub
         /\ k * col_size + x \in DOMAIN output_ub /\ x * C0 + k \in DOMAIN output_ub
  <1>1. PICK v \in Nat \ {0}, c0 \in Nat \ {0} : v = col_size /\ c0 = C0 /\ Dim!cube_buf_max.full = v * c0
    BY DEF Conv, Sized, SizedBuffer
  <1>2. k * v + x \in 0 .. (c0 * v) - 1 /\ x * c0 + k \in 0 .. (v * c0) - 1
    BY <1>1, Below
  <1>3. c0 * v = v * c0
    OBVIOUS
  <1> QED BY <1>1, <1>2, <1>3 DEF Cells

\* The bursts of the copies of the block.
LEMMA Bursts ==
  ASSUME Conv
  PROVE  /\ C0 \in Nat \ {0} /\ col_size \in Nat \ {0} /\ Whole(J) \in 1 .. col_size /\ Pixels(J) \in 1 .. col_size
         /\ Burst(Whole(J)) = Whole(J) /\ Burst(Whole(J) * C0) = Whole(J) * C0
         /\ Burst(Pixels(J)) = Whole(J) /\ Burst(C0 * Pixels(J)) = C0 * Pixels(J)
         /\ J \in 0 .. cube_range - 1 /\ SizedPart(J) /\ SizedBuffer
  <1>1. SizedBuffer /\ J \in 0 .. cube_range - 1
    BY BlockPixels DEF Conv, Sized, IsPart
  <1>2. SizedPart(J)
    BY <1>1 DEF Conv, Sized
  <1>3. PICK m \in Nat : Whole(J) = m * C0
    BY <1>2 DEF SizedPart
  <1>4. C0 \in Nat \ {0} /\ col_size \in Nat \ {0} /\ Whole(J) \in 1 .. col_size /\ Pixels(J) \in 1 .. col_size
    BY <1>1, <1>2 DEF SizedBuffer, SizedPart
  <1>5. Burst(Whole(J)) = Whole(J)
    BY <1>3, <1>4, WholeBurst
  <1>6. PICK w \in Nat, p \in Nat : w = Whole(J) /\ p = Pixels(J)
    BY <1>4
  <1>7. Burst(w * C0) = w * C0 /\ Burst(p * C0) = p * C0
    BY <1>4, WholeBurst
  <1>8. p * C0 = C0 * p
    BY <1>4
  <1>9. Burst(Pixels(J)) = Whole(J)
    BY DEF Burst, Whole
  <1> QED BY ONLY <1>1, <1>2, <1>4, <1>5, <1>6, <1>7, <1>8, <1>9

\* No column of the buffer reaches into the next.
LEMMA FourToFiveReads ==
  ASSUME Conv, Cells, Dim!Regular, op = "four2five", Dim!FourToFiveIn
  PROVE  InBlock(input_ub')
  <1>1. PICK c0 \in Nat \ {0}, v \in Nat \ {0}, w \in Nat, cols \in Nat :
          c0 = C0 /\ v = col_size /\ w = Whole(J) /\ cols = Dim!At.c0_loop /\ Burst(w) = w /\ w <= v
    <2>1. Dim!At.c0_loop \in Nat
      BY BlockPixels
    <2> QED BY ONLY <2>1, Bursts, Conv
  <1>2. input_ub' = Dim!Copy(input_ub, Dim!Column, Dim!Input, Dim!Source4, w, cols)
    BY <1>1, BlockSizes DEF Dim!FourToFiveIn
  <1>3. \A k \in 0 .. c0 - 1 : Dim!Column[k] = k * v
    BY <1>1 DEF Dim!Column, Dim!Cols, col_size
  <1>4. Dim!Source4 = Dim!Start4
    <2>1. CASE Dim!buf_cube_range > 1 /\ ~Dim!IsTail
      <3>1. shape.n = 1
        BY <2>1 DEF Dim!Regular
      <3>2. Dim!At.n = 0
        BY <3>1, BlockPixels DEF IsPart
      <3>3. PICK h \in Nat, c \in Nat : h = Dim!hw /\ c = shape.c
        BY Channels DEF Conv, Sized, SizedBuffer
      <3>4. 0 * c * h = 0 /\ 0 * 1 * 1 * 1 = 0
        OBVIOUS
      <3> QED BY <2>1, <3>1, <3>2, <3>3, <3>4 DEF Dim!Source4, Dim!Start4
    <2> QED BY <2>1 DEF Dim!Source4
  <1>5. ASSUME NEW k \in Channel(Dim!At.c1), NEW x \in 0 .. Pixels(J) - 1
        PROVE  input_ub'[k * v + x] = Here4(k, x)
    <2>1. k \in 0 .. c0 - 1 /\ k \in 0 .. cols - 1 /\ \A l \in 0 .. cols - 1 : l \in 0 .. c0 - 1
      BY <1>1, BlockPixels
    <2>2. x \in 0 .. w - 1 /\ x \in 0 .. v - 1
      BY <1>1, BlockPixels, PartPixels DEF Conv, IsPart
    <2>3. k * v + x \in DOMAIN input_ub
      BY <1>1, <2>1, <2>2, BufferCell
    <2>4. k * v \in Nat
      BY <2>1
    <2>5. Dim!Column[k] = k * v
      BY <1>3, <2>1
    <2>6. \A other \in 0 .. cols - 1 : other > k => ~(Dim!Column[other] <= k * v + x)
      <3>1. TAKE other \in 0 .. cols - 1
      <3>2. other \in Nat /\ Dim!Column[other] = other * v /\ other * v \in Nat
        BY <1>3, <2>1
      <3>3. k < other => k * v + v <= other * v
        BY <2>1, <3>2, NextRow
      <3> QED BY ONLY <2>1, <2>2, <2>4, <3>2, <3>3, v \in Nat
    <2>7. Dim!Start4[k] + x = Here4(k, x) /\ Dim!Start4[k] \in Int
      <3>1. /\ \A l \in 0 .. C0 - 1 : \A y \in Int : Dim!Start4[l] + y = Here4(l, y)
            /\ \A l \in 0 .. C0 - 1 : Dim!Start4[l] \in Int
        BY BlockPixels
      <3>2. k \in 0 .. C0 - 1 /\ x \in Int
        BY ONLY <1>1, <2>1, <2>2
      <3> QED BY ONLY <3>1, <3>2
    <2>8. Here4(k, x) \in DOMAIN Dim!Input /\ Dim!Input[Here4(k, x)] = Here4(k, x)
      <3>1. IsPixel(Dim!At.n, Dim!At.c1, k, J * col_size + x)
        BY BlockPixels
      <3>2. Here4(k, x) \in 0 .. (shape.n * Dim!hw * shape.c) - 1
        BY <3>1, Place4 DEF Here4, J, Conv
      <3> QED BY <3>2 DEF Dim!Input
    <2>9. Dim!Start4[k] + (k * v + x) - Dim!Column[k] = Here4(k, x)
      BY ONLY <2>2, <2>4, <2>5, <2>7
    <2>10. Dim!Column[k] <= k * v + x /\ k * v + x < Dim!Column[k] + Burst(w)
      BY ONLY <1>1, <2>2, <2>4, <2>5, w \in Nat
    <2>11. Dim!Copy(input_ub, Dim!Column, Dim!Input, Dim!Start4, w, cols)[k * v + x] = Dim!Input[Here4(k, x)]
      BY ONLY <2>1, <2>3, <2>6, <2>8, <2>9, <2>10, cols \in Nat, CopyHit
    <2> QED BY ONLY <1>2, <1>4, <2>8, <2>11
  <1> QED BY <1>1, <1>5 DEF InBlock, J

\* From NC1HWC0 a block is one column, with the pixels in their order.
LEMMA FiveToFourReads ==
  ASSUME Conv, Cells, op = "five2four", Dim!FiveToFourIn
  PROVE  InBlock(input_ub')
  <1>1. PICK c0 \in Nat \ {0}, v \in Nat \ {0}, w \in Nat, size \in Nat :
          c0 = C0 /\ v = col_size /\ w = Whole(J) /\ size = w * c0 /\ Burst(size) = size /\ w <= v
    <2>1. Burst(Whole(J) * C0) = Whole(J) * C0 /\ C0 \in Nat \ {0} /\ col_size \in Nat \ {0} /\ Whole(J) \in 1 .. col_size
      BY Bursts
    <2>2. PICK w \in Nat : w = Whole(J)
      BY <2>1
    <2>3. w * C0 \in Nat /\ w <= col_size
      BY <2>1, <2>2
    <2> QED BY ONLY <2>1, <2>2, <2>3, w \in Nat
  <1>2. input_ub' = Dim!Copy(input_ub, Dim!AtZero, Dim!Input, Dim!Start5, size, 1)
    <2>1. (IF Dim!IsTail THEN Dim!cube_buf_max.tail ELSE Dim!cube_buf_max.full) = size
      BY <1>1, BlockSizes
    <2> QED BY <2>1 DEF Dim!FiveToFourIn
  <1>3. Dim!AtZero[0] = 0
    BY <1>1 DEF Dim!AtZero, Dim!Cols
  <1>4. ASSUME NEW k \in Channel(Dim!At.c1), NEW x \in 0 .. Pixels(J) - 1
        PROVE  input_ub'[x * c0 + k] = Here5(k, x)
    <2>1. k \in 0 .. c0 - 1
      BY <1>1, BlockPixels
    <2>2. x \in 0 .. w - 1 /\ x \in 0 .. v - 1
      BY <1>1, Bursts, PartPixels DEF Conv
    <2>3. x * c0 + k \in DOMAIN input_ub
      BY <1>1, <2>1, <2>2, BufferCell
    <2>4. PICK a \in Nat : a = x * c0 + k /\ a < size
      <3>1. x * c0 + k \in 0 .. (w * c0) - 1
        BY <2>1, <2>2, Below
      <3> QED BY ONLY <1>1, <3>1, w \in Nat, c0 \in Nat
    <2>5. Dim!Start5[0] + a = Here5(k, x) /\ Dim!Start5[0] \in Int
      <3>1. /\ \A l \in Int : \A y \in Int : Dim!Start5[0] + (y * C0 + l) = Here5(l, y)
            /\ Dim!Start5[0] \in Int
        BY BlockPixels
      <3>2. k \in Int /\ x \in Int
        BY ONLY <1>1, <2>1, <2>2
      <3> QED BY ONLY <1>1, <2>4, <3>1, <3>2
    <2>6. Here5(k, x) \in DOMAIN Dim!Input /\ Dim!Input[Here5(k, x)] = Here5(k, x)
      <3>1. IsPixel(Dim!At.n, Dim!At.c1, k, J * col_size + x)
        BY BlockPixels
      <3>2. Here5(k, x) \in 0 .. (shape.n * Dim!hw * (Dim!c1_range * C0)) - 1
        BY <3>1, Place5 DEF Here5, J, Conv
      <3> QED BY <3>2 DEF Dim!Input
    <2>7. Dim!Start5[0] + a - Dim!AtZero[0] = Here5(k, x)
      BY ONLY <1>3, <2>4, <2>5, a \in Nat
    <2>8. Dim!AtZero[0] <= a /\ a < Dim!AtZero[0] + Burst(size)
      BY ONLY <1>1, <1>3, <2>4, a \in Nat, size \in Nat
    <2>9. 0 \in 0 .. 1 - 1 /\ \A other \in 0 .. 1 - 1 : ~(other > 0)
      OBVIOUS
    <2>10. Dim!Copy(input_ub, Dim!AtZero, Dim!Input, Dim!Start5, size, 1)[a] = Dim!Input[Here5(k, x)]
      BY ONLY <2>3, <2>4, <2>6, <2>7, <2>8, <2>9, CopyHit
    <2> QED BY ONLY <1>2, <2>4, <2>6, <2>10
  <1> QED BY <1>1, <1>4 DEF InBlock, J

\* The transposition of the whole bursts of the block.
LEMMA Transposes ==
  ASSUME Conv, Cells, InBlock(input_ub), Dim!Vnchwconv
  PROVE  OutBlock(output_ub')
  <1>1. PICK c0 \in Nat \ {0}, v \in Nat \ {0}, w \in Nat :
          c0 = C0 /\ v = col_size /\ w = Whole(J) /\ w = Dim!repeat * C0
    <2>1. C0 \in Nat \ {0} /\ col_size \in Nat \ {0} /\ Whole(J) \in 1 .. col_size
      BY Bursts
    <2>2. Dim!repeat * C0 = Whole(J)
      BY BlockSizes
    <2> QED BY ONLY <2>1, <2>2
  <1>2. \A k \in 0 .. c0 - 1 : Dim!Column[k] = k * v
    BY <1>1 DEF Dim!Column, Dim!Cols, col_size
  <1>3. ASSUME NEW k \in Channel(Dim!At.c1), NEW x \in 0 .. Pixels(J) - 1
        PROVE  IF op = "four2five" THEN output_ub'[x * c0 + k] = Here4(k, x)
                                   ELSE output_ub'[k * v + x] = Here5(k, x)
    <2>1. k \in 0 .. c0 - 1
      BY <1>1, BlockPixels
    <2>2. x \in 0 .. w - 1 /\ x \in 0 .. v - 1
      BY <1>1, Bursts, PartPixels DEF Conv
    <2>3. x * c0 + k \in DOMAIN output_ub /\ k * v + x \in DOMAIN output_ub
      BY <1>1, <2>1, <2>2, BufferCell
    <2>4. (x * c0 + k) \div c0 = x /\ (x * c0 + k) % c0 = k /\ (k * v + x) \div v = k /\ (k * v + x) % v = x
      <3>1. k \in Nat /\ x \in Nat
        BY ONLY <2>1, <2>2
      <3>2. (x * c0 + k) \div c0 = x /\ (x * c0 + k) % c0 = k
        BY ONLY <2>1, <3>1, Divided, c0 \in Nat \ {0}
      <3>3. (k * v + x) \div v = k /\ (k * v + x) % v = x
        BY ONLY <2>2, <3>1, Divided, v \in Nat \ {0}
      <3> QED BY ONLY <3>2, <3>3
    <2>5. x \in Nat /\ ~(x >= w)
      BY <2>2
    <2>6. CASE op = "four2five"
      <3>1. PICK a : a = x * c0 + k
        OBVIOUS
      <3>2. output_ub'[a] = IF a \div C0 >= Dim!repeat * C0 THEN output_ub[a]
                            ELSE input_ub[Dim!Column[a % C0] + a \div C0]
        BY <2>3, <2>6, <3>1 DEF Dim!Vnchwconv
      <3>3. output_ub'[a] = input_ub[k * v + x]
        BY ONLY <1>1, <1>2, <2>1, <2>4, <2>5, <3>1, <3>2
      <3>4. input_ub[k * v + x] = Here4(k, x)
        BY <1>1, <2>6 DEF InBlock, J
      <3> QED BY ONLY <2>6, <3>1, <3>3, <3>4
    <2>7. CASE op # "four2five"
      <3>1. PICK a : a = k * v + x
        OBVIOUS
      <3>2. output_ub'[a] = IF a % Dim!cube_col_size >= Dim!repeat * C0 THEN output_ub[a]
                            ELSE input_ub[(a % Dim!cube_col_size) * C0 + a \div Dim!cube_col_size]
        BY <2>3, <2>7, <3>1 DEF Dim!Vnchwconv
      <3>3. v = Dim!cube_col_size
        BY <1>1 DEF col_size
      <3>4. output_ub'[a] = input_ub[x * c0 + k]
        BY ONLY <1>1, <2>4, <2>5, <3>1, <3>2, <3>3
      <3>5. input_ub[x * c0 + k] = Here5(k, x)
        BY <1>1, <2>7 DEF InBlock, J
      <3> QED BY ONLY <2>7, <3>1, <3>4, <3>5
    <2> QED BY <2>6, <2>7
  <1> QED BY <1>1, <1>3 DEF OutBlock, J

\* The heads of the channels are pixels of the first part of the image.
LEMMA HeadPixels ==
  ASSUME Conv, PutsBack
  PROVE  /\ IsPart(Dim!At.n, Dim!At.c1, 0) /\ BlockOf(Dim!At.n, Dim!At.c1, 0) < block
         /\ \A x \in 0 .. C0 - 1 : x \in 0 .. Pixels(0) - 1 /\ 0 * col_size + x = x
         /\ \A k \in Channel(Dim!At.c1) : \A x \in 0 .. C0 - 1 : IsPixel(Dim!At.n, Dim!At.c1, k, x)
         /\ Burst(C0) = C0 /\ cube_range # 1
  <1>1. PICK r \in Nat \ {0}, c0 \in Nat \ {0}, v \in Nat \ {0}, h \in Nat \ {0} :
          r = cube_range /\ c0 = C0 /\ v = col_size /\ h = Dim!hw /\ c0 <= v
    BY DEF Conv, Sized, SizedBuffer
  <1>2. r # 1 /\ J = r - 1
    BY <1>1, BlockSizes DEF PutsBack
  <1>3. 0 \in 0 .. r - 1 /\ 0 # r - 1 /\ 0 < J
    BY ONLY <1>2, r \in Nat \ {0}
  <1>4. IsPart(Dim!At.n, Dim!At.c1, J) /\ BlockOf(Dim!At.n, Dim!At.c1, J) = block
    BY BlockPixels
  <1>5. IsPart(Dim!At.n, Dim!At.c1, 0)
    BY ONLY <1>1, <1>3, <1>4 DEF IsPart
  <1>6. BlockOf(Dim!At.n, Dim!At.c1, 0) < block
    <2>1. shape \in Shapes
      BY DEF Conv
    <2> QED BY ONLY <1>1, <1>3, <1>4, <1>5, <2>1, BlockOrder
  <1>7. SizedPart(0)
    BY <1>1, <1>3 DEF Conv, Sized
  <1>8. Pixels(0) = v /\ 0 * v + v <= h
    BY ONLY <1>1, <1>3, <1>7 DEF SizedPart
  <1>9. \A x \in 0 .. C0 - 1 : x \in 0 .. Pixels(0) - 1 /\ 0 * col_size + x = x /\ x \in 0 .. Dim!hw - 1
    BY ONLY <1>1, <1>8, c0 \in Nat, v \in Nat, h \in Nat
  <1>10. \A k \in Channel(Dim!At.c1) : \A x \in 0 .. C0 - 1 : IsPixel(Dim!At.n, Dim!At.c1, k, x)
    BY ONLY <1>5, <1>9 DEF IsPixel, IsPart
  <1>11. Burst(C0) = C0
    <2>1. Burst(1 * C0) = 1 * C0
      BY <1>1, WholeBurst
    <2> QED BY <1>1, <2>1
  <1> QED BY ONLY <1>1, <1>2, <1>5, <1>6, <1>9, <1>10, <1>11

\* The heads are distinct in their buffer.
LEMMA HeadCells ==
  ASSUME Conv, Cells, NEW k \in 0 .. C0 - 1, NEW x \in 0 .. C0 - 1
  PROVE  /\ k * C0 + x \in DOMAIN output_head_ub /\ Dim!HeadUb[k] = k * C0 /\ k * C0 \in Nat
         /\ \A other \in 0 .. C0 - 1 : other > k => ~(Dim!HeadUb[other] <= k * C0 + x)
  <1>1. PICK c0 \in Nat \ {0} : c0 = C0
    BY DEF Conv, Sized, SizedBuffer
  <1>2. \A l \in 0 .. c0 - 1 : Dim!HeadUb[l] = l * c0
    BY <1>1 DEF Dim!HeadUb, Dim!Cols
  <1>3. k * c0 + x \in 0 .. (c0 * c0) - 1
    BY <1>1, Below
  <1>4. k * c0 \in Nat
    BY <1>1
  <1>5. \A other \in 0 .. c0 - 1 : other > k => ~(Dim!HeadUb[other] <= k * c0 + x)
    <2>1. TAKE other \in 0 .. c0 - 1
    <2>2. Dim!HeadUb[other] = other * c0 /\ other * c0 \in Nat
      BY <1>2
    <2>3. k < other => k * c0 + c0 <= other * c0
      BY <1>1, NextRow
    <2> QED BY ONLY <1>1, <1>4, <2>2, <2>3, c0 \in Nat, x \in 0 .. C0 - 1, k \in 0 .. C0 - 1, other \in 0 .. c0 - 1
  <1> QED BY <1>1, <1>2, <1>3, <1>4, <1>5 DEF Cells

\* A pixel has a cell in the output.
LEMMA OutputCell ==
  ASSUME Conv, Cells, NEW n, NEW c1x, NEW k, NEW p, IsPixel(n, c1x, k, p)
  PROVE  IF op = "four2five" THEN At5(n, c1x, k, p) \in DOMAIN output ELSE At4(n, c1x, k, p) \in DOMAIN output
  <1>1. PICK i \in Nat, h \in Nat, c \in Nat, g \in Nat, c0 \in Nat :
          i = shape.n /\ h = Dim!hw /\ c = shape.c /\ g = Dim!c1_range /\ c0 = C0
    BY Channels DEF Conv, Sized, SizedBuffer
  <1>2. shape \in Shapes
    BY DEF Conv
  <1>3. At4(n, c1x, k, p) \in 0 .. (i * h * c) - 1
    BY <1>1, <1>2, Place4
  <1>4. At5(n, c1x, k, p) \in 0 .. (i * h * (g * c0)) - 1
    BY <1>1, <1>2, Place5
  <1>5. i * h * (g * c0) \in Nat /\ i * h * c \in Nat
    OBVIOUS
  <1>6. DOMAIN output = 0 .. (IF op = "four2five" THEN i * h * (g * c0) ELSE i * h * c) + c0 - 1
    BY <1>1 DEF Cells, Dim!OutputSize
  <1> QED BY ONLY <1>3, <1>4, <1>5, <1>6, c0 \in Nat

\* The heads that are kept are those of the pixels.
LEMMA Backs ==
  ASSUME Conv, Cells, PutsBack, PlacedBelow(output, block), Dim!Backup
  PROVE  HeadsKept(output_head_ub')
  <1>1. PICK c0 \in Nat \ {0}, cols \in Nat : c0 = C0 /\ cols = Dim!At.c0_loop
    BY BlockPixels DEF Conv, Sized, SizedBuffer
  <1>2. output_head_ub' = Dim!Copy(output_head_ub, Dim!HeadUb, output, Dim!Head, c0, cols)
    BY <1>1 DEF Dim!Backup
  <1>3. ASSUME NEW k \in Channel(Dim!At.c1), NEW x \in 0 .. c0 - 1
        PROVE  output_head_ub'[k * c0 + x] = At5(Dim!At.n, Dim!At.c1, k, x)
    <2>1. k \in 0 .. c0 - 1 /\ k \in 0 .. cols - 1 /\ \A l \in 0 .. cols - 1 : l \in 0 .. c0 - 1
      BY <1>1, BlockPixels
    <2>2. PICK a \in Nat : a = k * c0 + x
      BY <2>1
    <2>3. /\ a \in DOMAIN output_head_ub /\ Dim!HeadUb[k] = k * c0 /\ k * c0 \in Nat
          /\ \A other \in 0 .. c0 - 1 : other > k => ~(Dim!HeadUb[other] <= a)
      BY <1>1, <2>1, <2>2, HeadCells
    <2>4. Dim!Head[k] + x = At4(Dim!At.n, Dim!At.c1, k, x) /\ Dim!Head[k] \in Int
      <3>1. /\ \A l \in 0 .. C0 - 1 : \A y \in Int : Dim!Head[l] + y = At4(Dim!At.n, Dim!At.c1, l, y)
            /\ \A l \in 0 .. C0 - 1 : Dim!Head[l] \in Int
        BY BlockPixels
      <3> QED BY ONLY <1>1, <2>1, <3>1, x \in 0 .. c0 - 1
    <2>5. Dim!Head[k] + a - Dim!HeadUb[k] = At4(Dim!At.n, Dim!At.c1, k, x)
      BY ONLY <2>2, <2>3, <2>4, x \in 0 .. c0 - 1
    <2>6. IsPixel(Dim!At.n, Dim!At.c1, k, x)
      BY <1>1, HeadPixels
    <2>7. At4(Dim!At.n, Dim!At.c1, k, x) \in DOMAIN output
      BY <2>6, OutputCell DEF PutsBack
    <2>8. output[At4(Dim!At.n, Dim!At.c1, k, x)] = At5(Dim!At.n, Dim!At.c1, k, x)
      <3>1. /\ IsPart(Dim!At.n, Dim!At.c1, 0) /\ BlockOf(Dim!At.n, Dim!At.c1, 0) < block
            /\ x \in 0 .. Pixels(0) - 1 /\ 0 * col_size + x = x
        BY <1>1, HeadPixels
      <3>2. Placed(output, Dim!At.n, Dim!At.c1, k, 0 * col_size + x)
        BY ONLY <3>1, PlacedBelow(output, block), k \in Channel(Dim!At.c1) DEF PlacedBelow, IsPart
      <3> QED BY <3>1, <3>2 DEF Placed, PutsBack
    <2>9. Dim!HeadUb[k] <= a /\ a < Dim!HeadUb[k] + Burst(c0)
      <3>1. Burst(c0) = c0
        BY <1>1, HeadPixels
      <3> QED BY ONLY <2>2, <2>3, <3>1, x \in 0 .. c0 - 1, c0 \in Nat
    <2>10. Dim!Copy(output_head_ub, Dim!HeadUb, output, Dim!Head, c0, cols)[a]
             = output[At4(Dim!At.n, Dim!At.c1, k, x)]
      BY ONLY <2>1, <2>3, <2>5, <2>7, <2>9, cols \in Nat, CopyHit
    <2> QED BY ONLY <1>2, <2>2, <2>8, <2>10
  <1> QED BY <1>1, <1>3 DEF HeadsKept

\* The pixels of a part are pixels.
LEMMA PartIsPixels ==
  ASSUME Sized, NEW n, NEW c1x, NEW j, IsPart(n, c1x, j), NEW k \in Channel(c1x), NEW x \in 0 .. Pixels(j) - 1
  PROVE  IsPixel(n, c1x, k, j * col_size + x)
  <1>1. j * col_size + x \in 0 .. Dim!hw - 1
    BY PartPixels DEF IsPart
  <1> QED BY <1>1 DEF IsPart, IsPixel

\* A channel's pixels are before those of the next.
LEMMA RowsApart ==
  ASSUME Conv, NEW k \in 0 .. C0 - 1, NEW o \in 0 .. C0 - 1, k < o, NEW p \in 0 .. Dim!hw - 1, NEW q \in Nat
  PROVE  At4(Dim!At.n, Dim!At.c1, k, p) < At4(Dim!At.n, Dim!At.c1, o, q)
  <1>1. PICK h \in Nat \ {0}, c \in Nat, c0 \in Nat, n \in Nat, d \in Nat :
          h = Dim!hw /\ c = shape.c /\ c0 = C0 /\ n = Dim!At.n /\ d = Dim!At.c1
    <2>1. SizedBuffer /\ shape \in Shapes
      BY DEF Conv, Sized
    <2>2. shape.c \in Nat /\ Dim!hw \in Nat \ {0} /\ C0 \in Nat
      BY <2>1, Channels DEF SizedBuffer
    <2>3. Dim!At.n \in Nat /\ Dim!At.c1 \in Nat
      <3>1. IsPart(Dim!At.n, Dim!At.c1, J)
        BY BlockPixels
      <3> QED BY <3>1 DEF IsPart
    <2> QED BY <2>2, <2>3
  <1>0. k \in Nat /\ o \in Nat
    BY <1>1
  <1>2. PICK u \in Nat, w \in Nat : u = n * c + (d * c0 + k) /\ w = n * c + (d * c0 + o)
    <2>1. n * c + (d * c0 + k) \in Nat /\ n * c + (d * c0 + o) \in Nat
      BY ONLY <1>0, n \in Nat, c \in Nat, d \in Nat, c0 \in Nat
    <2> QED BY ONLY <2>1
  <1>3. u < w
    <2>1. PICK b \in Nat : b = n * c /\ b \in Nat
      OBVIOUS
    <2>2. PICK e \in Nat : e = d * c0
      OBVIOUS
    <2> QED BY ONLY <1>1, <1>2, <2>1, <2>2, k < o, k \in 0 .. C0 - 1, o \in 0 .. C0 - 1
  <1>4. u * h + h <= w * h /\ u * h \in Nat /\ w * h \in Nat
    BY <1>3, NextRow
  <1>5. At4(Dim!At.n, Dim!At.c1, k, p) = u * h + p /\ At4(Dim!At.n, Dim!At.c1, o, q) = w * h + q
    BY ONLY <1>1, <1>2 DEF At4, Row
  <1> QED BY ONLY <1>1, <1>4, <1>5, p \in 0 .. Dim!hw - 1, q \in Nat, h \in Nat

\* One burst puts all the channels of the block in their places, and nothing else.
LEMMA FourToFiveWrites ==
  ASSUME Conv, Cells, op = "four2five", PlacedBelow(output, block), OutBlock(output_ub), Dim!FourToFiveOut
  PROVE  PlacedBelow(output', block + 1)
  <1>1. PICK c0 \in Nat \ {0}, v \in Nat \ {0}, pix \in Nat, size \in Nat, s \in Int :
          /\ c0 = C0 /\ v = col_size /\ pix = Pixels(J) /\ size = pix * c0 /\ Burst(size) = size
          /\ s = Dim!Start5[0] /\ C0 * Pixels(J) = size
    <2>1. /\ C0 \in Nat \ {0} /\ col_size \in Nat \ {0} /\ Pixels(J) \in 1 .. col_size
          /\ Burst(C0 * Pixels(J)) = C0 * Pixels(J)
      BY Bursts
    <2>2. Dim!Start5[0] \in Int
      BY BlockPixels
    <2>3. PICK p \in Nat : p = Pixels(J)
      BY <2>1
    <2>4. p * C0 \in Nat /\ p * C0 = C0 * p
      BY <2>1
    <2> QED BY ONLY <2>1, <2>2, <2>3, <2>4
  <1>2. output' = Dim!Copy(output, Dim!Start5, output_ub, Dim!AtZero, size, 1)
    <2>1. (IF Dim!IsTail THEN Dim!hw_tail_size ELSE IF Dim!buf_cube_range > 1 THEN Dim!cube_col_size ELSE Dim!hw) = pix
      BY <1>1, BlockSizes
    <2> QED BY <1>1, <2>1 DEF Dim!FourToFiveOut
  <1>3. Dim!AtZero[0] = 0
    BY <1>1 DEF Dim!AtZero, Dim!Cols
  <1>4. \A k \in Int : \A x \in Int : s + (x * c0 + k) = Here5(k, x)
    BY <1>1, BlockPixels
  <1>5. IsPart(Dim!At.n, Dim!At.c1, J) /\ BlockOf(Dim!At.n, Dim!At.c1, J) = block /\ shape \in Shapes /\ Sized
    BY BlockPixels DEF Conv
  <1>6. ASSUME NEW m, NEW d, NEW i, IsPart(m, d, i), BlockOf(m, d, i) < block + 1,
               NEW l \in Channel(d), NEW x \in 0 .. Pixels(i) - 1
        PROVE  output'[At5(m, d, l, i * v + x)] = At4(m, d, l, i * v + x)
    <2>1. IsPixel(m, d, l, i * v + x) /\ l \in 0 .. c0 - 1
      <3>1. IsPixel(m, d, l, i * v + x)
        BY <1>1, <1>5, <1>6, PartIsPixels
      <3>2. l \in 0 .. C0 - 1
        BY <1>5, <1>6, ChannelOf DEF IsPart
      <3> QED BY <1>1, <3>1, <3>2
    <2>2. PICK a : a = At5(m, d, l, i * v + x) /\ a \in DOMAIN output
      BY <2>1, OutputCell
    <2>3. a \in Int
      BY <1>5, <2>1, <2>2, Place5
    <2>4. CASE m = Dim!At.n /\ d = Dim!At.c1 /\ i = J
      <3>1. x \in 0 .. pix - 1 /\ x \in 0 .. v - 1
        BY <1>1, <1>5, <2>4, PartPixels DEF IsPart
      <3>2. x * c0 + l \in 0 .. (pix * c0) - 1 /\ x * c0 + l \in Nat
        BY <2>1, <3>1, Below
      <3>3. PICK z \in Nat : z = x * c0 + l /\ z < size
        BY ONLY <1>1, <3>2, pix \in Nat, c0 \in Nat
      <3>4. a = s + z
        <4>1. x \in Int /\ l \in Int
          BY ONLY <2>1, <3>1
        <4> QED BY ONLY <1>1, <1>4, <2>2, <2>4, <3>3, <4>1 DEF Here5, J
      <3>5. z \in DOMAIN output_ub
        BY <1>1, <2>1, <3>1, <3>3, BufferCell
      <3>6. output_ub[z] = At4(m, d, l, i * v + x)
        BY ONLY <1>1, <2>4, <3>1, <3>3, OutBlock(output_ub), op = "four2five", l \in Channel(d) DEF OutBlock, Here4, J
      <3>7. Dim!AtZero[0] + a - Dim!Start5[0] = z
        BY ONLY <1>1, <1>3, <3>4, s \in Int, z \in Nat
      <3>8. Dim!Start5[0] <= a /\ a < Dim!Start5[0] + Burst(size)
        BY ONLY <1>1, <3>3, <3>4, s \in Int, size \in Nat
      <3>9. 0 \in 0 .. 1 - 1 /\ \A other \in 0 .. 1 - 1 : ~(other > 0)
        OBVIOUS
      <3>10. Dim!Copy(output, Dim!Start5, output_ub, Dim!AtZero, size, 1)[a] = output_ub[z]
        BY ONLY <2>2, <3>5, <3>7, <3>8, <3>9, CopyHit
      <3> QED BY ONLY <1>2, <2>2, <3>6, <3>10
    <2>5. CASE ~(m = Dim!At.n /\ d = Dim!At.c1 /\ i = J)
      <3>1. BlockOf(m, d, i) < block
        <4>1. BlockOf(m, d, i) # block /\ BlockOf(m, d, i) \in Nat
          <5>1. cube_range \in Nat \ {0}
            BY <1>5 DEF Sized, SizedBuffer
          <5> QED BY ONLY <1>5, <1>6, <2>5, <5>1, BlockOrder
        <4> QED BY <1>6, <4>1 DEF Conv
      <3>2. output[a] = At4(m, d, l, i * v + x)
        BY ONLY <1>1, <1>6, <2>2, <3>1, PlacedBelow(output, block), op = "four2five" DEF PlacedBelow, Placed, IsPart
      <3>3. ~(s <= a /\ a < s + size)
        <4>1. SUFFICES ASSUME s <= a, a < s + size PROVE FALSE
          OBVIOUS
        <4>2. PICK b \in Nat : a = s + b /\ b < size
          <5>1. a - s \in Nat
            BY <2>3, <4>1
          <5> QED BY <2>3, <4>1, <5>1
        <4>3. PICK y \in Nat, z \in 0 .. c0 - 1 : b = y * c0 + z
          BY Divide
        <4>4. y \in 0 .. pix - 1
          <5>1. PICK u \in Nat, w \in Nat : u = y * c0 /\ w = pix * c0
            OBVIOUS
          <5>2. pix < y => w + c0 <= u
            BY <5>1, NextRow
          <5>3. y = pix => u = w
            BY <5>1
          <5>4. b = u + z
            BY ONLY <4>3, <5>1
          <5>5. size = w
            BY ONLY <1>1, <5>1
          <5> QED BY ONLY <4>2, <5>2, <5>3, <5>4, <5>5, b \in Nat, u \in Nat, w \in Nat, y \in Nat, pix \in Nat, c0 \in Nat, z \in 0 .. c0 - 1
        <4>5. a = At5(Dim!At.n, Dim!At.c1, z, J * v + y)
          <5>1. z \in Int /\ y \in Int
            OBVIOUS
          <5>2. s + (y * c0 + z) = Here5(z, y)
            BY ONLY <1>4, <5>1
          <5>3. a = Here5(z, y)
            BY ONLY <4>2, <4>3, <5>2
          <5> QED BY ONLY <1>1, <5>3 DEF Here5, J
        <4>6. J * v + y \in 0 .. Dim!hw - 1 /\ Dim!At.n \in Nat /\ Dim!At.c1 \in 0 .. Dim!c1_range - 1
          BY <1>1, <1>5, <4>4, PartPixels DEF IsPart
        <4>7. m = Dim!At.n /\ d = Dim!At.c1 /\ i * v + x = J * v + y
          BY <1>1, <1>5, <2>1, <2>2, <4>5, <4>6, Order5
        <4>8. i = J
          <5>1. i \in 0 .. cube_range - 1 /\ J \in 0 .. cube_range - 1
            BY <1>5, <1>6 DEF IsPart
          <5>2. x \in 0 .. v - 1 /\ y \in 0 .. v - 1
            BY <1>1, <1>5, <4>4, <5>1, PartPixels
          <5>3. i \in Nat /\ J \in Nat
            BY <5>1
          <5> QED BY ONLY <4>7, <5>2, <5>3, v \in Nat, SameRow
        <4> QED BY <2>5, <4>7, <4>8
      <3>4. \A col \in 0 .. 1 - 1 : ~(Dim!Start5[col] <= a /\ a < Dim!Start5[col] + Burst(size))
        <4>1. \A col \in 0 .. 1 - 1 : col = 0
          OBVIOUS
        <4> QED BY ONLY <1>1, <3>3, <4>1
      <3>5. Dim!Copy(output, Dim!Start5, output_ub, Dim!AtZero, size, 1)[a] = output[a]
        BY ONLY <2>2, <3>4, CopyMiss
      <3> QED BY ONLY <1>2, <2>2, <3>2, <3>5
    <2> QED BY <2>4, <2>5
  <1> QED BY ONLY <1>1, <1>6, op = "four2five" DEF PlacedBelow, Placed, IsPart

\* What a burst of a column covers behind the pixels of the block is not done
\* yet, except the heads of this C1.
LEMMA Reaches ==
  ASSUME Conv, Dim!Regular, op = "five2four",
         NEW m, NEW d, NEW i, IsPart(m, d, i), BlockOf(m, d, i) < block,
         NEW l \in Channel(d), NEW x \in 0 .. Pixels(i) - 1, NEW k \in Channel(Dim!At.c1),
         NEW y \in Pixels(J) .. Whole(J) - 1, At4(m, d, l, i * col_size + x) = Here4(k, y)
  PROVE  PutsBack /\ m = Dim!At.n /\ d = Dim!At.c1 /\ i * col_size + x < C0
  <1>a. /\ C0 \in Nat \ {0} /\ col_size \in Nat \ {0} /\ Whole(J) \in 1 .. col_size /\ Pixels(J) \in 1 .. col_size
        /\ J \in 0 .. cube_range - 1 /\ SizedPart(J) /\ SizedBuffer
    BY Bursts
  <1>b. PICK c0 \in Nat \ {0}, v \in Nat \ {0}, h \in Nat \ {0}, r \in Nat \ {0} :
          c0 = C0 /\ v = col_size /\ h = Dim!hw /\ r = cube_range
    BY <1>a DEF SizedBuffer
  <1>c. PICK pix \in Nat, w \in Nat, j \in Nat : pix = Pixels(J) /\ w = Whole(J) /\ j = J
    BY ONLY <1>a, <1>b
  <1>1. /\ c0 = C0 /\ v = col_size /\ h = Dim!hw /\ r = cube_range /\ pix = Pixels(J) /\ w = Whole(J) /\ j = J
        /\ w < pix + c0 /\ j \in 0 .. r - 1 /\ pix < w
        /\ j # r - 1 => pix = w
        /\ j = r - 1 => j * v + pix = h
    <2>1. /\ Whole(J) < Pixels(J) + C0 /\ (J # cube_range - 1 => Pixels(J) = Whole(J))
          /\ (J = cube_range - 1 => J * col_size + Pixels(J) = Dim!hw)
      BY <1>a DEF SizedPart
    <2>2. Pixels(J) < Whole(J)
      BY <1>a
    <2> QED BY ONLY <1>a, <1>b, <1>c, <2>1, <2>2
  <1>2. j = r - 1 /\ j * v + pix = h
    BY ONLY <1>1, pix \in Nat, w \in Nat
  <1>3. h % c0 # 0
    <2>1. SizedEnd
      BY DEF Conv, Sized
    <2> QED BY ONLY <1>1, <1>2, <2>1, pix \in Nat, w \in Nat DEF SizedEnd
  <1>4. IsPart(Dim!At.n, Dim!At.c1, J) /\ BlockOf(Dim!At.n, Dim!At.c1, J) = block /\ shape \in Shapes /\ Sized
    BY BlockPixels DEF Conv
  <1>5. PICK p \in 0 .. h - 1 : p = i * v + x /\ IsPixel(m, d, l, p)
    <2>1. IsPixel(m, d, l, i * v + x)
      BY <1>1, <1>4, PartIsPixels
    <2> QED BY <1>1, <2>1 DEF IsPixel
  <1>6. PICK u \in Nat, t \in Nat : u = Row(m, d, l) /\ t = Row(Dim!At.n, Dim!At.c1, k) /\ At4(m, d, l, p) = u * h + p
    <2>1. Row(m, d, l) \in Nat /\ At4(m, d, l, p) = Row(m, d, l) * h + p
      BY ONLY <1>1, <1>4, <1>5, Place4
    <2>2. Row(Dim!At.n, Dim!At.c1, k) \in Nat
      BY BlockPixels
    <2> QED BY ONLY <2>1, <2>2
  <1>7. PICK e \in 0 .. c0 - 1 : y = pix + e
    <2>1. y - pix \in 0 .. c0 - 1 /\ y = pix + (y - pix)
      BY ONLY <1>1, y \in Pixels(J) .. Whole(J) - 1, pix \in Nat, w \in Nat, c0 \in Nat
    <2> QED BY ONLY <2>1
  <1>8. u * h + p = t * h + h + e
    <2>1. Here4(k, y) = t * h + (j * v + y)
      BY <1>1, <1>6 DEF Here4, At4, J
    <2>2. j * v + y = h + e
      <3>1. j * v \in Nat
        BY <1>1
      <3> QED BY ONLY <1>2, <1>7, <3>1, pix \in Nat, h \in Nat, e \in 0 .. c0 - 1, c0 \in Nat
    <2>3. t * h \in Nat
      BY <1>6
    <2>4. At4(m, d, l, p) = Here4(k, y)
      BY <1>1, <1>5
    <2> QED BY ONLY <1>6, <2>1, <2>2, <2>3, <2>4, h \in Nat, e \in 0 .. c0 - 1, c0 \in Nat
  <1>9. t < u
    <2>1. u < t => u * h + h <= t * h
      BY NextRow
    <2>2. u = t => u * h = t * h
      OBVIOUS
    <2>3. u * h \in Nat /\ t * h \in Nat
      OBVIOUS
    <2> QED BY ONLY <1>8, <2>1, <2>2, <2>3, u \in Nat, t \in Nat, h \in Nat, p \in 0 .. h - 1, e \in 0 .. c0 - 1, c0 \in Nat
  <1>10. p < c0
    <2>1. t * h + h <= u * h /\ u * h \in Nat /\ t * h \in Nat
      BY <1>9, NextRow
    <2> QED BY ONLY <1>8, <2>1, h \in Nat, p \in 0 .. h - 1, e \in 0 .. c0 - 1, c0 \in Nat
  <1>11. Dim!At.n < m \/ (Dim!At.n = m /\ Dim!At.c1 < d) \/ (Dim!At.n = m /\ Dim!At.c1 = d)
    <2>1. IsPixel(Dim!At.n, Dim!At.c1, k, J * col_size + 0)
      <3>1. 0 \in 0 .. Pixels(J) - 1
        BY <1>1, Bursts
      <3> QED BY <3>1, BlockPixels
    <2> QED BY ONLY <1>4, <1>5, <1>6, <1>9, <2>1, Order4
  <1>12. m = Dim!At.n /\ d = Dim!At.c1
    <2>1. PICK n \in Nat, c \in Nat, g \in Nat, loop \in Nat, b \in Nat :
            n = Dim!At.n /\ c = Dim!At.c1 /\ g = Dim!c1_range /\ loop = Dim!c1_loop /\ b = block
      BY <1>4, Channels DEF IsPart, Conv
    <2>2. m \in Nat /\ d \in 0 .. g - 1 /\ n \in 0 .. shape.n - 1 /\ m \in 0 .. shape.n - 1 /\ c \in 0 .. g - 1
      BY <1>4, <2>1 DEF IsPart
    <2>3. cube_range \in Nat \ {0}
      BY <1>4 DEF Sized, SizedBuffer
    <2>4. BlockOf(m, d, i) \in Nat
      BY ONLY <1>4, <2>3, IsPart(m, d, i), BlockOrder
    <2>5. CASE c < loop
      <3>1. CASE d >= loop
        <4>1. block < BlockOf(m, d, i)
          BY ONLY <1>4, <2>1, <2>3, <2>5, <3>1, IsPart(m, d, i), BlockOrder
        <4> QED BY ONLY <2>1, <2>4, <4>1, BlockOf(m, d, i) < block, b \in Nat
      <3>2. CASE d < loop
        <4>1. n < m \/ (n = m /\ c < d) => block < BlockOf(m, d, i)
          BY ONLY <1>4, <2>1, <2>3, <2>5, <3>2, IsPart(m, d, i), BlockOrder
        <4>2. ~(n < m \/ (n = m /\ c < d))
          BY ONLY <2>1, <2>4, <4>1, BlockOf(m, d, i) < block, b \in Nat
        <4> QED BY ONLY <1>11, <2>1, <4>2
      <3> QED BY ONLY <2>1, <2>2, <3>1, <3>2, loop \in Nat, g \in Nat
    <2>6. CASE c >= loop
      <3>1. Dim!c1_tail # 0 /\ c = loop /\ g = loop + 1
        <4>1. g = IF Dim!c1_tail = 0 THEN loop ELSE loop + 1
          BY <1>4, <2>1, Channels
        <4> QED BY ONLY <2>2, <2>6, <4>1, c \in Nat, g \in Nat, loop \in Nat
      <3>2. shape.n = 1
        BY <1>1, <1>3, <3>1 DEF Dim!Regular
      <3> QED BY ONLY <1>11, <2>1, <2>2, <3>1, <3>2, n \in Nat, m \in Nat, c \in Nat, loop \in Nat
    <2> QED BY ONLY <2>5, <2>6, c \in Nat, loop \in Nat
  <1>13. r # 1
    <2>1. i \in 0 .. r - 1
      BY <1>1 DEF IsPart
    <2>2. r = 1 => i = j
      BY ONLY <1>1, <2>1
    <2>3. i # j
      <3>1. i = J => BlockOf(m, d, i) = block
        BY ONLY <1>4, <1>12
      <3>2. ~(block < block)
        BY DEF Conv
      <3> QED BY ONLY <1>1, <3>1, <3>2, BlockOf(m, d, i) < block
    <2> QED BY <2>2, <2>3
  <1>14. PutsBack
    <2>1. Dim!IsTail
      BY ONLY <1>1, <1>2, <1>13, Conv, BlockSizes
    <2>2. Dim!hw_tail_size % C0 = 0 <=> Dim!hw % C0 = 0
      BY <1>1, <1>4, <1>13 DEF Sized, SizedTail
    <2> QED BY <1>1, <1>3, <2>1, <2>2 DEF PutsBack
  <1> QED BY ONLY <1>1, <1>5, <1>10, <1>12, <1>14

\* The columns of the block are put in their places, and what is done already
\* stays, but for the heads that are put back.
LEMMA FiveToFourWrites ==
  ASSUME Conv, Cells, Dim!Regular, op = "five2four", PlacedBelow(output, block), OutBlock(output_ub),
         Dim!FiveToFourOut,
         NEW m, NEW d, NEW i, IsPart(m, d, i), BlockOf(m, d, i) < block + 1,
         NEW l \in Channel(d), NEW x \in 0 .. Pixels(i) - 1,
         ~PutsBack \/ m # Dim!At.n \/ d # Dim!At.c1 \/ i * col_size + x >= C0
  PROVE  Placed(output', m, d, l, i * col_size + x)
  <1>1. PICK c0 \in Nat \ {0}, v \in Nat \ {0}, pix \in Nat, w \in Nat, cols \in Nat :
          /\ c0 = C0 /\ v = col_size /\ pix = Pixels(J) /\ w = Whole(J) /\ cols = Dim!At.c0_loop
          /\ pix <= w /\ Burst(pix) = w
    <2>1. /\ C0 \in Nat \ {0} /\ col_size \in Nat \ {0} /\ Whole(J) \in 1 .. col_size /\ Pixels(J) \in 1 .. col_size
          /\ Burst(Pixels(J)) = Whole(J) /\ SizedPart(J)
      BY Bursts
    <2>2. Pixels(J) <= Whole(J)
      BY <2>1 DEF SizedPart
    <2>3. Dim!At.c0_loop \in Nat
      BY BlockPixels
    <2>4. Pixels(J) \in Nat /\ Whole(J) \in Nat
      BY ONLY <2>1
    <2> QED BY ONLY <2>1, <2>2, <2>3, <2>4
  <1>2. output' = Dim!Copy(output, Dim!Start4, output_ub, Dim!Column, pix, cols)
    <2>1. (IF Dim!IsTail \/ (Dim!buf_cube_range = 1 /\ Dim!hw_tail_size # 0)
           THEN Dim!hw_tail_size ELSE Dim!cube_col_size) = pix
      BY <1>1, BlockSizes
    <2> QED BY <1>1, <2>1 DEF Dim!FiveToFourOut
  <1>3. /\ IsPart(Dim!At.n, Dim!At.c1, J) /\ BlockOf(Dim!At.n, Dim!At.c1, J) = block /\ shape \in Shapes /\ Sized
        /\ \A k \in 0 .. cols - 1 : k \in 0 .. c0 - 1 /\ k \in Channel(Dim!At.c1)
        /\ \A k \in Channel(Dim!At.c1) : k \in 0 .. cols - 1
        /\ \A k \in 0 .. c0 - 1 : \A y \in Int : Dim!Start4[k] + y = Here4(k, y)
        /\ \A k \in 0 .. c0 - 1 : Dim!Start4[k] \in Int
    <2>1. /\ IsPart(Dim!At.n, Dim!At.c1, J) /\ BlockOf(Dim!At.n, Dim!At.c1, J) = block
          /\ 0 .. Dim!At.c0_loop - 1 = Channel(Dim!At.c1)
          /\ \A k \in Channel(Dim!At.c1) : k \in 0 .. C0 - 1
          /\ \A k \in 0 .. C0 - 1 : \A y \in Int : Dim!Start4[k] + y = Here4(k, y)
          /\ \A k \in 0 .. C0 - 1 : Dim!Start4[k] \in Int
      BY BlockPixels
    <2>2. shape \in Shapes /\ Sized
      BY DEF Conv
    <2> QED BY ONLY <1>1, <2>1, <2>2
  <1>4. PICK p : p = i * v + x /\ IsPixel(m, d, l, p)
    BY <1>1, <1>3, PartIsPixels
  <1>5. PICK a : a = At4(m, d, l, p) /\ a \in DOMAIN output
    BY <1>4, OutputCell
  <1>6. a \in Int
    BY <1>3, <1>4, <1>5, Place4
  <1>7. CASE m = Dim!At.n /\ d = Dim!At.c1 /\ i = J
    <2>1. x \in 0 .. pix - 1 /\ x \in 0 .. w - 1 /\ x \in 0 .. v - 1 /\ J * v + x \in 0 .. Dim!hw - 1
      BY <1>1, <1>3, <1>7, PartPixels DEF IsPart
    <2>2. l \in 0 .. c0 - 1 /\ l \in 0 .. cols - 1
      BY <1>3, <1>7
    <2>3. a = Dim!Start4[l] + x /\ Dim!Start4[l] \in Int /\ a = Here4(l, x)
      <3>1. a = Here4(l, x)
        BY ONLY <1>1, <1>4, <1>5, <1>7 DEF Here4, J
      <3> QED BY ONLY <1>3, <2>1, <2>2, <3>1
    <2>4. \A other \in 0 .. cols - 1 : other > l => ~(Dim!Start4[other] <= a)
      <3>1. TAKE other \in 0 .. cols - 1
      <3>2. other \in 0 .. c0 - 1 /\ Dim!Start4[other] \in Int
        BY <1>3
      <3>3. Dim!Start4[other] + 0 = Here4(other, 0)
        BY ONLY <1>3, <3>2
      <3>4. J * v + 0 \in Nat /\ J * v \in Nat
        BY <1>1, <1>3 DEF IsPart
      <3>5. l < other => Here4(l, x) < Here4(other, 0)
        <4>1. l < other => At4(Dim!At.n, Dim!At.c1, l, J * v + x) < At4(Dim!At.n, Dim!At.c1, other, J * v + 0)
          BY ONLY <1>1, <2>1, <2>2, <3>2, <3>4, Conv, RowsApart
        <4> QED BY ONLY <1>1, <4>1 DEF Here4, J
      <3> QED BY ONLY <1>6, <2>2, <2>3, <3>2, <3>3, <3>5
    <2>5. Dim!Column[l] = l * v /\ l * v \in Nat
      BY <1>1, <2>2 DEF Dim!Column, Dim!Cols, col_size
    <2>6. Dim!Column[l] + a - Dim!Start4[l] = l * v + x
      BY ONLY <1>6, <2>1, <2>3, <2>5
    <2>7. l * v + x \in DOMAIN output_ub
      BY <1>1, <2>1, <2>2, BufferCell
    <2>8. Dim!Start4[l] <= a /\ a < Dim!Start4[l] + Burst(pix)
      BY ONLY <1>1, <1>6, <2>1, <2>3, w \in Nat
    <2>9. Dim!Copy(output, Dim!Start4, output_ub, Dim!Column, pix, cols)[a] = output_ub[l * v + x]
      BY ONLY <1>5, <2>2, <2>4, <2>6, <2>7, <2>8, cols \in Nat, CopyHit
    <2>10. output_ub[l * v + x] = At5(m, d, l, p)
      <3>1. output_ub[l * v + x] = Here5(l, x)
        BY ONLY <1>1, <1>7, <2>1, OutBlock(output_ub), op = "five2four", l \in Channel(d) DEF OutBlock, J
      <3> QED BY ONLY <1>1, <1>4, <1>7, <3>1 DEF Here5, J
    <2> QED BY ONLY <1>1, <1>2, <1>4, <1>5, <2>9, <2>10, op = "five2four" DEF Placed
  <1>8. CASE ~(m = Dim!At.n /\ d = Dim!At.c1 /\ i = J)
    <2>1. BlockOf(m, d, i) < block
      <3>1. BlockOf(m, d, i) # block /\ BlockOf(m, d, i) \in Nat
        <4>1. cube_range \in Nat \ {0}
          BY <1>3 DEF Sized, SizedBuffer
        <4> QED BY ONLY <1>3, <1>8, <4>1, IsPart(m, d, i), BlockOrder
      <3> QED BY <3>1 DEF Conv
    <2>2. output[a] = At5(m, d, l, p)
      BY ONLY <1>1, <1>4, <1>5, <2>1, PlacedBelow(output, block), op = "five2four", IsPart(m, d, i),
              l \in Channel(d), x \in 0 .. Pixels(i) - 1 DEF PlacedBelow, Placed, IsPart
    <2>3. ASSUME NEW k \in 0 .. cols - 1, Dim!Start4[k] <= a, a < Dim!Start4[k] + Burst(pix) PROVE FALSE
      <3>1. k \in 0 .. c0 - 1 /\ k \in Channel(Dim!At.c1) /\ Dim!Start4[k] \in Int
        BY <1>3
      <3>2. PICK y \in 0 .. w - 1 : a = Dim!Start4[k] + y
        <4>1. a - Dim!Start4[k] \in 0 .. w - 1 /\ a = Dim!Start4[k] + (a - Dim!Start4[k])
          BY ONLY <1>1, <1>6, <2>3, <3>1, w \in Nat
        <4> QED BY ONLY <4>1
      <3>3. a = Here4(k, y)
        BY ONLY <1>3, <3>1, <3>2
      <3>4. CASE y < pix
        <4>1. y \in 0 .. Pixels(J) - 1
          BY ONLY <1>1, <3>4, w \in Nat, pix \in Nat, y \in 0 .. w - 1
        <4>2. IsPixel(Dim!At.n, Dim!At.c1, k, J * v + y)
          BY <1>1, <3>1, <4>1, BlockPixels
        <4>3. At4(m, d, l, p) = At4(Dim!At.n, Dim!At.c1, k, J * v + y)
          BY ONLY <1>1, <1>5, <3>3 DEF Here4, J
        <4>4. m = Dim!At.n /\ d = Dim!At.c1 /\ p = J * v + y
          BY ONLY <1>3, <1>4, <4>2, <4>3, Order4
        <4>5. i = J
          <5>1. i \in 0 .. cube_range - 1 /\ J \in 0 .. cube_range - 1
            BY <1>3 DEF IsPart
          <5>2. x \in 0 .. v - 1 /\ y \in 0 .. v - 1
            BY <1>1, <1>3, <4>1, <5>1, PartPixels
          <5>3. i \in Nat /\ J \in Nat
            BY <5>1
          <5> QED BY ONLY <1>4, <4>4, <5>2, <5>3, v \in Nat, SameRow
        <4> QED BY <1>8, <4>4, <4>5
      <3>5. CASE pix <= y
        <4>1. y \in Pixels(J) .. Whole(J) - 1
          BY ONLY <1>1, <3>5, pix \in Nat, w \in Nat, y \in 0 .. w - 1
        <4>2. At4(m, d, l, i * col_size + x) = Here4(k, y)
          BY ONLY <1>1, <1>4, <1>5, <3>3
        <4>3. PutsBack /\ m = Dim!At.n /\ d = Dim!At.c1 /\ i * col_size + x < C0
          BY ONLY <2>1, <3>1, <4>1, <4>2, Reaches, Conv, Dim!Regular, op = "five2four", IsPart(m, d, i),
                  l \in Channel(d), x \in 0 .. Pixels(i) - 1
        <4>4. i * v + x \in Int
          <5>1. i \in Nat
            BY DEF IsPart
          <5>2. x \in Int
            OBVIOUS
          <5> QED BY <5>1, <5>2
        <4> QED BY ONLY <1>1, <4>3, <4>4, c0 \in Nat,
                   ~PutsBack \/ m # Dim!At.n \/ d # Dim!At.c1 \/ i * col_size + x >= C0
      <3> QED BY ONLY <3>4, <3>5, pix \in Nat, y \in 0 .. w - 1, w \in Nat
    <2>4. \A k \in 0 .. cols - 1 : ~(Dim!Start4[k] <= a /\ a < Dim!Start4[k] + Burst(pix))
      BY ONLY <2>3
    <2>5. Dim!Copy(output, Dim!Start4, output_ub, Dim!Column, pix, cols)[a] = output[a]
      BY ONLY <1>5, <2>4, CopyMiss
    <2> QED BY ONLY <1>1, <1>2, <1>4, <1>5, <2>2, <2>5, op = "five2four" DEF Placed
  <1> QED BY <1>7, <1>8

\* The heads are put back.
LEMMA Restores ==
  ASSUME Conv, Cells, PutsBack, PlacedButHeads(output), HeadsKept(output_head_ub), Dim!Restore
  PROVE  PlacedBelow(output', block + 1)
  <1>1. PICK c0 \in Nat \ {0}, cols \in Nat, v \in Nat : c0 = C0 /\ cols = Dim!At.c0_loop /\ v = col_size
    BY BlockPixels DEF Conv, Sized, SizedBuffer
  <1>2. output' = Dim!Copy(output, Dim!Head, output_head_ub, Dim!HeadUb, c0, cols)
    BY <1>1 DEF Dim!Restore
  <1>3. /\ shape \in Shapes /\ Sized
        /\ \A k \in 0 .. cols - 1 : k \in 0 .. c0 - 1 /\ k \in Channel(Dim!At.c1)
        /\ \A k \in Channel(Dim!At.c1) : k \in 0 .. cols - 1
        /\ \A k \in 0 .. c0 - 1 : \A y \in Int : Dim!Head[k] + y = At4(Dim!At.n, Dim!At.c1, k, y)
        /\ \A k \in 0 .. c0 - 1 : Dim!Head[k] \in Int
    <2>1. /\ 0 .. Dim!At.c0_loop - 1 = Channel(Dim!At.c1)
          /\ \A k \in Channel(Dim!At.c1) : k \in 0 .. C0 - 1
          /\ \A k \in 0 .. C0 - 1 : \A y \in Int : Dim!Head[k] + y = At4(Dim!At.n, Dim!At.c1, k, y)
          /\ \A k \in 0 .. C0 - 1 : Dim!Head[k] \in Int
      BY BlockPixels
    <2>2. shape \in Shapes /\ Sized
      BY DEF Conv
    <2> QED BY ONLY <1>1, <2>1, <2>2
  <1>4. Burst(c0) = c0
    BY <1>1, HeadPixels
  <1>5. ASSUME NEW m, NEW d, NEW i, IsPart(m, d, i), BlockOf(m, d, i) < block + 1,
               NEW l \in Channel(d), NEW x \in 0 .. Pixels(i) - 1
        PROVE  Placed(output', m, d, l, i * v + x)
    <2>1. PICK p : p = i * v + x /\ IsPixel(m, d, l, p)
      BY <1>1, <1>3, <1>5, PartIsPixels
    <2>2. p \in Nat
      BY <2>1 DEF IsPixel
    <2>3. PICK a : a = At4(m, d, l, p) /\ a \in DOMAIN output
      BY <2>1, OutputCell DEF PutsBack
    <2>4. a \in Int
      BY <1>3, <2>1, <2>3, Place4
    <2>5. CASE m = Dim!At.n /\ d = Dim!At.c1 /\ p < c0
      <3>1. l \in 0 .. c0 - 1 /\ l \in 0 .. cols - 1 /\ p \in 0 .. c0 - 1 /\ p \in 0 .. Dim!hw - 1
        BY <1>3, <2>1, <2>2, <2>5 DEF IsPixel
      <3>2. a = Dim!Head[l] + p /\ Dim!Head[l] \in Int
        BY ONLY <1>3, <2>2, <2>3, <2>5, <3>1
      <3>3. \A other \in 0 .. cols - 1 : other > l => ~(Dim!Head[other] <= a)
        <4>1. TAKE other \in 0 .. cols - 1
        <4>2. other \in 0 .. c0 - 1 /\ Dim!Head[other] \in Int
          BY <1>3
        <4>3. Dim!Head[other] + 0 = At4(Dim!At.n, Dim!At.c1, other, 0)
          BY ONLY <1>3, <4>2
        <4>4. l < other => At4(Dim!At.n, Dim!At.c1, l, p) < At4(Dim!At.n, Dim!At.c1, other, 0)
          BY <1>1, <3>1, <4>2, RowsApart
        <4> QED BY ONLY <2>3, <2>4, <2>5, <3>1, <4>2, <4>3, <4>4
      <3>4. Dim!HeadUb[l] = l * c0 /\ l * c0 + p \in DOMAIN output_head_ub /\ l * c0 \in Nat
        BY <1>1, <3>1, HeadCells
      <3>5. Dim!HeadUb[l] + a - Dim!Head[l] = l * c0 + p
        BY ONLY <2>2, <2>4, <3>2, <3>4
      <3>6. Dim!Head[l] <= a /\ a < Dim!Head[l] + Burst(c0)
        BY ONLY <1>4, <2>4, <3>1, <3>2, c0 \in Nat
      <3>7. Dim!Copy(output, Dim!Head, output_head_ub, Dim!HeadUb, c0, cols)[a] = output_head_ub[l * c0 + p]
        BY ONLY <2>3, <3>1, <3>3, <3>4, <3>5, <3>6, cols \in Nat, CopyHit
      <3>8. output_head_ub[l * c0 + p] = At5(m, d, l, p)
        BY ONLY <1>1, <2>5, <3>1, HeadsKept(output_head_ub), l \in Channel(d) DEF HeadsKept
      <3> QED BY <1>2, <2>1, <2>3, <3>7, <3>8 DEF Placed, PutsBack
    <2>6. CASE ~(m = Dim!At.n /\ d = Dim!At.c1 /\ p < c0)
      <3>1. m # Dim!At.n \/ d # Dim!At.c1 \/ p >= c0
        BY ONLY <2>2, <2>6, c0 \in Nat
      <3>2. Placed(output, m, d, l, p)
        BY ONLY <1>1, <1>5, <2>1, <3>1, PlacedButHeads(output) DEF PlacedButHeads, IsPart
      <3>3. output[a] = At5(m, d, l, p)
        BY <2>3, <3>2 DEF Placed, PutsBack
      <3>4. ASSUME NEW k \in 0 .. cols - 1, Dim!Head[k] <= a, a < Dim!Head[k] + Burst(c0) PROVE FALSE
        <4>1. k \in 0 .. c0 - 1 /\ k \in Channel(Dim!At.c1) /\ Dim!Head[k] \in Int
          BY <1>3
        <4>2. PICK y \in 0 .. c0 - 1 : a = Dim!Head[k] + y
          <5>1. a - Dim!Head[k] \in 0 .. c0 - 1 /\ a = Dim!Head[k] + (a - Dim!Head[k])
            BY ONLY <1>4, <2>4, <3>4, <4>1, c0 \in Nat
          <5> QED BY ONLY <5>1
        <4>3. a = At4(Dim!At.n, Dim!At.c1, k, y)
          BY ONLY <1>3, <4>1, <4>2
        <4>4. IsPixel(Dim!At.n, Dim!At.c1, k, y)
          BY <1>1, <4>1, HeadPixels
        <4>5. m = Dim!At.n /\ d = Dim!At.c1 /\ p = y
          BY ONLY <1>3, <2>1, <2>3, <4>3, <4>4, Order4
        <4> QED BY ONLY <2>6, <4>5, y \in 0 .. c0 - 1, c0 \in Nat
      <3>5. \A k \in 0 .. cols - 1 : ~(Dim!Head[k] <= a /\ a < Dim!Head[k] + Burst(c0))
        BY ONLY <3>4
      <3>6. Dim!Copy(output, Dim!Head, output_head_ub, Dim!HeadUb, c0, cols)[a] = output[a]
        BY ONLY <2>3, <3>5, CopyMiss
      <3> QED BY <1>2, <2>1, <2>3, <3>3, <3>6 DEF Placed, PutsBack
    <2> QED BY <2>5, <2>6
  <1> QED BY ONLY <1>1, <1>5 DEF PlacedBelow, IsPart

-----------------------------------------------------------------------------
\* The steps of the program.

\* The sizes are those of the tensor and of the conversion, which stay.
LEMMA SizesStay ==
  ASSUME shape' = shape, op' = op
  PROVE  /\ Dim!hw' = Dim!hw /\ Dim!cube_buf_max' = Dim!cube_buf_max /\ col_size' = col_size
         /\ cube_range' = cube_range /\ Dim!buf_cube_range' = Dim!buf_cube_range
         /\ Dim!hw_tail_size' = Dim!hw_tail_size
         /\ Dim!c1_range' = Dim!c1_range /\ Dim!c1_tail' = Dim!c1_tail /\ Dim!c1_loop' = Dim!c1_loop
         /\ Dim!OutputSize' = Dim!OutputSize /\ Dim!FullBlocks' = Dim!FullBlocks /\ Dim!Blocks' = Dim!Blocks
         /\ Dim!Regular' = Dim!Regular
  <1>1. Dim!hw' = Dim!hw /\ Dim!c1_range' = Dim!c1_range /\ Dim!c1_tail' = Dim!c1_tail
    BY DEF Dim!hw, Dim!c1_range, Dim!c1_tail, Dim!CeilDiv
  <1>2. Dim!c1_loop' = Dim!c1_loop
    BY <1>1 DEF Dim!c1_loop
  <1>3. Dim!cube_buf_max' = Dim!cube_buf_max
    BY <1>1 DEF Dim!cube_buf_max, Dim!CeilDiv
  <1>4. col_size' = col_size /\ Dim!cube_col_size' = Dim!cube_col_size
    BY <1>3 DEF col_size, Dim!cube_col_size
  <1>5. cube_range' = cube_range /\ Dim!buf_cube_range' = Dim!buf_cube_range /\ Dim!hw_tail_size' = Dim!hw_tail_size
    BY <1>1, <1>4 DEF cube_range, Dim!buf_cube_range, Dim!hw_tail_size, Dim!CeilDiv
  <1>6. Dim!OutputSize' = Dim!OutputSize
    BY <1>1 DEF Dim!OutputSize
  <1>7. Dim!FullBlocks' = Dim!FullBlocks
    BY <1>2, <1>5 DEF Dim!FullBlocks
  <1>8. Dim!Blocks' = Dim!Blocks
    BY <1>1, <1>5, <1>7 DEF Dim!Blocks
  <1>9. Dim!Regular' = Dim!Regular
    BY <1>1, <1>3, <1>5 DEF Dim!Regular
  <1> QED BY ONLY <1>1, <1>2, <1>3, <1>4, <1>5, <1>6, <1>7, <1>8, <1>9

\* What is said of a block stays as long as the tensor, the conversion and the
\* block do.
LEMMA BlockStays ==
  ASSUME shape' = shape, op' = op, block' = block
  PROVE  Dim!At' = Dim!At /\ (PutsBack' <=> PutsBack)
  <1>1. Dim!At' = Dim!At
    BY SizesStay DEF Dim!At
  <1>2. Dim!IsTail' = Dim!IsTail
    BY <1>1, SizesStay DEF Dim!IsTail
  <1> QED BY <1>1, <1>2, SizesStay DEF PutsBack

LEMMA PlacedStays ==
  ASSUME shape' = shape, op' = op
  PROVE  PlacedBelow(output, block)' <=> PlacedBelow(output', block')
  BY SizesStay DEF PlacedBelow, Placed, BlockOf, Channel, Pixels, At4, At5, Row

LEMMA BuffersStay ==
  ASSUME shape' = shape, op' = op, block' = block
  PROVE  /\ InBlock(input_ub)' <=> InBlock(input_ub')
         /\ OutBlock(output_ub)' <=> OutBlock(output_ub')
         /\ HeadsKept(output_head_ub)' <=> HeadsKept(output_head_ub')
         /\ PlacedButHeads(output)' <=> PlacedButHeads(output')
  <1>1. InBlock(input_ub)' <=> InBlock(input_ub')
    BY SizesStay, BlockStays DEF InBlock, Here4, Here5, Channel, Pixels, At4, At5, Row
  <1>2. OutBlock(output_ub)' <=> OutBlock(output_ub')
    BY SizesStay, BlockStays DEF OutBlock, Here4, Here5, Channel, Pixels, At4, At5, Row
  <1>3. HeadsKept(output_head_ub)' <=> HeadsKept(output_head_ub')
    BY SizesStay, BlockStays DEF HeadsKept, Channel, At5
  <1>4. PlacedButHeads(output)' <=> PlacedButHeads(output')
    BY SizesStay, BlockStays DEF PlacedButHeads, Placed, BlockOf, Channel, Pixels, At4, At5, Row
  <1> QED BY <1>1, <1>2, <1>3, <1>4

\* No step changes the tensor or the number of cells of a buffer.
LEMMA CellsStep ==
  ASSUME Cells, Dim!Next
  PROVE  shape' = shape /\ op' = op /\ Cells'
  <1>1. shape' = shape /\ op' = op
    BY DEF Dim!Next, Dim!CopyIn, Dim!Vnchwconv, Dim!Backup, Dim!CopyOut, Dim!Restore
  <1>2. DOMAIN input_ub' = DOMAIN input_ub
    BY CopyDomain
    DEF Dim!Next, Dim!CopyIn, Dim!Vnchwconv, Dim!Backup, Dim!CopyOut, Dim!Restore, Dim!FourToFiveIn, Dim!FiveToFourIn
  <1>3. DOMAIN output_ub' = DOMAIN output_ub
    BY DEF Dim!Next, Dim!CopyIn, Dim!Vnchwconv, Dim!Backup, Dim!CopyOut, Dim!Restore
  <1>4. DOMAIN output_head_ub' = DOMAIN output_head_ub
    BY CopyDomain DEF Dim!Next, Dim!CopyIn, Dim!Vnchwconv, Dim!Backup, Dim!CopyOut, Dim!Restore
  <1>5. DOMAIN output' = DOMAIN output
    BY CopyDomain
    DEF Dim!Next, Dim!CopyIn, Dim!Vnchwconv, Dim!Backup, Dim!CopyOut, Dim!Restore, Dim!FourToFiveOut, Dim!FiveToFourOut
  <1> QED BY <1>1, <1>2, <1>3, <1>4, <1>5, SizesStay DEF Cells

\* The program has a number of blocks.
LEMMA BlocksNat ==
  ASSUME shape \in Shapes, Sized
  PROVE  Dim!Blocks \in Nat
  <1>1. PICK n \in Nat, l \in Nat, r \in Nat : n = shape.n /\ l = Dim!c1_loop /\ r = Dim!buf_cube_range
    BY Channels DEF Sized, SizedBuffer, cube_range
  <1>2. n * l * r \in Nat /\ n * r \in Nat
    OBVIOUS
  <1> QED BY ONLY <1>1, <1>2 DEF Dim!Blocks, Dim!FullBlocks

\* The invariant under each instruction, where the tensor is regular.
LEMMA CopyInStep ==
  ASSUME Conv, Cells, Dim!Regular, BlockInv, Dim!CopyIn
  PROVE  BlockInv'
  <1>1. shape' = shape /\ op' = op /\ block' = block /\ output' = output /\ pc = "in" /\ pc' = "transpose"
    BY DEF Dim!CopyIn
  <1>2. InBlock(input_ub')
    <2>1. CASE op = "four2five"
      BY <2>1, FourToFiveReads DEF Dim!CopyIn
    <2>2. CASE op # "four2five"
      <3>1. op = "five2four"
        BY <2>2, DimAssumption DEF Conv
      <3> QED BY <3>1, FiveToFourReads DEF Dim!CopyIn
    <2> QED BY <2>1, <2>2
  <1>3. PlacedBelow(output', block') /\ block' <= Dim!Blocks'
    BY <1>1, SizesStay DEF BlockInv
  <1> QED BY ONLY <1>1, <1>2, <1>3, PlacedStays, BuffersStay DEF BlockInv

\* One step per instruction.
LEMMA VnchwconvStep ==
  ASSUME Conv, Cells, Dim!Regular, BlockInv, Dim!Vnchwconv
  PROVE  BlockInv'
  <1>1. /\ shape' = shape /\ op' = op /\ block' = block /\ output' = output /\ pc = "transpose"
        /\ pc' = IF PutsBack THEN "backup" ELSE "out"
    BY DEF Dim!Vnchwconv, PutsBack
  <1>2. OutBlock(output_ub')
    BY <1>1, Transposes DEF BlockInv
  <1>3. PlacedBelow(output', block') /\ block' <= Dim!Blocks'
    BY <1>1, SizesStay DEF BlockInv
  <1> QED BY ONLY <1>1, <1>2, <1>3, PlacedStays, BuffersStay, BlockStays DEF BlockInv

LEMMA BackupStep ==
  ASSUME Conv, Cells, Dim!Regular, BlockInv, Dim!Backup
  PROVE  BlockInv'
  <1>1. /\ shape' = shape /\ op' = op /\ block' = block /\ output' = output /\ output_ub' = output_ub
        /\ pc = "backup" /\ pc' = "out"
    BY DEF Dim!Backup
  <1>2. HeadsKept(output_head_ub') /\ OutBlock(output_ub')
    <2>1. PutsBack /\ PlacedBelow(output, block) /\ OutBlock(output_ub)
      BY ONLY <1>1, BlockInv DEF BlockInv
    <2> QED BY <1>1, <2>1, Backs
  <1>3. PlacedBelow(output', block') /\ block' <= Dim!Blocks'
    BY <1>1, SizesStay DEF BlockInv
  <1> QED BY ONLY <1>1, <1>2, <1>3, PlacedStays, BuffersStay, BlockStays DEF BlockInv

\* A block is done when what it puts out is in place, the heads included.
LEMMA BlockDone ==
  ASSUME Conv, shape' = shape, op' = op, block' = block + 1, pc' = "in", PlacedBelow(output', block + 1)
  PROVE  BlockInv'
  <1>1. Dim!Blocks' = Dim!Blocks /\ Dim!Blocks \in Nat
    BY SizesStay, BlocksNat DEF Conv
  <1>2. block' <= Dim!Blocks'
    BY <1>1 DEF Conv
  <1>3. PlacedBelow(output, block)'
    BY PlacedStays
  <1> QED BY ONLY <1>2, <1>3, pc' = "in" DEF BlockInv

LEMMA CopyOutStep ==
  ASSUME Conv, Cells, Dim!Regular, BlockInv, Dim!CopyOut
  PROVE  BlockInv'
  <1>1. /\ shape' = shape /\ op' = op /\ output_head_ub' = output_head_ub /\ pc = "out"
        /\ IF op = "four2five" THEN Dim!FourToFiveOut ELSE Dim!FiveToFourOut
        /\ IF PutsBack THEN pc' = "restore" /\ block' = block ELSE pc' = "in" /\ block' = block + 1
    BY DEF Dim!CopyOut, PutsBack
  <1>2. PlacedBelow(output, block) /\ OutBlock(output_ub) /\ (PutsBack => HeadsKept(output_head_ub))
    BY ONLY <1>1, BlockInv DEF BlockInv
  <1>3. CASE op = "four2five"
    <2>1. PlacedBelow(output', block + 1)
      BY <1>1, <1>2, <1>3, FourToFiveWrites
    <2>2. ~PutsBack
      BY <1>3 DEF PutsBack
    <2> QED BY <1>1, <2>1, <2>2, BlockDone
  <1>4. CASE op # "four2five"
    <2>1. op = "five2four" /\ Dim!FiveToFourOut
      BY <1>1, <1>4, DimAssumption DEF Conv
    <2>2. ASSUME NEW m, NEW d, NEW i, IsPart(m, d, i), BlockOf(m, d, i) < block + 1,
                 NEW l \in Channel(d), NEW x \in 0 .. Pixels(i) - 1,
                 ~PutsBack \/ m # Dim!At.n \/ d # Dim!At.c1 \/ i * col_size + x >= C0
          PROVE  Placed(output', m, d, l, i * col_size + x)
      BY <1>2, <2>1, <2>2, FiveToFourWrites
    <2>3. CASE PutsBack
      <3>1. PlacedButHeads(output')
        BY ONLY <2>2 DEF PlacedButHeads, IsPart
      <3>2. block' <= Dim!Blocks' /\ PutsBack' /\ HeadsKept(output_head_ub')
        BY <1>1, <1>2, <2>3, SizesStay, BlockStays DEF BlockInv
      <3> QED BY ONLY <1>1, <2>3, <3>1, <3>2, BuffersStay DEF BlockInv
    <2>4. CASE ~PutsBack
      <3>1. PlacedBelow(output', block + 1)
        BY ONLY <2>2, <2>4 DEF PlacedBelow, IsPart
      <3> QED BY <1>1, <2>4, <3>1, BlockDone
    <2> QED BY <2>3, <2>4
  <1> QED BY <1>3, <1>4

LEMMA RestoreStep ==
  ASSUME Conv, Cells, Dim!Regular, BlockInv, Dim!Restore
  PROVE  BlockInv'
  <1>1. shape' = shape /\ op' = op /\ block' = block + 1 /\ pc = "restore" /\ pc' = "in"
    BY DEF Dim!Restore
  <1>2. PutsBack /\ PlacedButHeads(output) /\ HeadsKept(output_head_ub)
    BY ONLY <1>1, BlockInv DEF BlockInv
  <1>3. PlacedBelow(output', block + 1)
    BY <1>2, Restores
  <1> QED BY <1>1, <1>3, BlockDone

\* The tensors that the blocks suit have blocks of these sizes.
LEMMA RegularSized ==
  ASSUME shape \in Shapes, op \in Ops, Dim!Regular
  PROVE  Sized
  BY Sizes DEF Dim!Regular, cube_range

\* The steps of Tools keep the invariant: those of the conversion as above, the
\* choice of a tensor by its sizes, and a step of another program since it is not one.
LEMMA ConvStep ==
  ASSUME ConvInv, Dim!Next
  PROVE  ConvInv'
  <1>1. shape' = shape /\ op' = op /\ Cells' /\ Cells /\ shape \in Shapes /\ op \in Ops /\ block \in Nat
    BY CellsStep DEF ConvInv
  <1>2. block < Dim!Blocks
    BY DEF ConvInv, Dim!Next, Dim!CopyIn, Dim!Vnchwconv, Dim!Backup, Dim!CopyOut, Dim!Restore
  <1>3. Dim!Blocks' = Dim!Blocks
    BY <1>1, SizesStay
  <1>4. /\ pc' \in {"in", "transpose", "backup", "out", "restore"} /\ block' \in Nat
        /\ pc' # "in" => block' = block
    BY <1>1 DEF Dim!Next, Dim!CopyIn, Dim!Vnchwconv, Dim!Backup, Dim!CopyOut, Dim!Restore
  <1>5. ASSUME Dim!Regular PROVE BlockInv'
    <2>1. Conv /\ BlockInv
      BY <1>1, <1>2, <1>5, RegularSized DEF Conv, ConvInv
    <2> QED BY <1>1, <1>5, <2>1, CopyInStep, VnchwconvStep, BackupStep, CopyOutStep, RestoreStep DEF Dim!Next
  <1>6. Dim!Regular' <=> Dim!Regular
    BY <1>1, SizesStay
  <1> QED BY ONLY <1>1, <1>2, <1>3, <1>4, <1>5, <1>6 DEF ConvInv

\* A program starts with nothing written, at its first block.
LEMMA ConvInit ==
  ASSUME Dim!Init
  PROVE  ConvInv
  <1>1. shape \in Shapes /\ op \in Ops /\ block = 0 /\ pc = "in" /\ Cells
    BY DEF Dim!Init, Cells
  <1>2. ASSUME Dim!Regular PROVE BlockInv
    <2>1. Sized
      BY <1>1, <1>2, RegularSized
    <2>2. block <= Dim!Blocks
      BY <1>1, <2>1, BlocksNat
    <2>3. PlacedBelow(output, block)
      <3>1. cube_range \in Nat \ {0}
        BY <2>1 DEF Sized, SizedBuffer
      <3>2. \A n, c1x, j : IsPart(n, c1x, j) => BlockOf(n, c1x, j) \in Nat
        BY ONLY <1>1, <3>1, BlockOrder
      <3> QED BY ONLY <1>1, <3>2 DEF PlacedBelow, IsPart
    <2> QED BY ONLY <1>1, <2>2, <2>3 DEF BlockInv
  <1> QED BY ONLY <1>1, <1>2 DEF ConvInv

\* When all blocks are done, every pixel is in its place.
LEMMA AllPlaced ==
  ASSUME shape \in Shapes, Sized, PlacedBelow(output, Dim!Blocks),
         NEW n, NEW c1x, NEW k, NEW p, IsPixel(n, c1x, k, p)
  PROVE  Placed(output, n, c1x, k, p)
  <1>1. PICK i \in Nat, l \in Nat, r \in Nat \ {0}, v \in Nat \ {0}, h \in Nat \ {0}, f \in Nat :
          /\ i = shape.n /\ l = Dim!c1_loop /\ r = cube_range /\ v = col_size /\ h = Dim!hw
          /\ f = (i * l) * r /\ f = Dim!FullBlocks
          /\ Dim!Blocks = f + (IF Dim!c1_tail # 0 THEN i * r ELSE 0)
    <2>1. PICK i \in Nat, l \in Nat, r \in Nat \ {0}, v \in Nat \ {0}, h \in Nat \ {0} :
            i = shape.n /\ l = Dim!c1_loop /\ r = cube_range /\ v = col_size /\ h = Dim!hw
      BY Channels DEF Sized, SizedBuffer
    <2>2. PICK f \in Nat : f = (i * l) * r
      OBVIOUS
    <2>3. f = Dim!FullBlocks /\ Dim!Blocks = f + (IF Dim!c1_tail # 0 THEN i * r ELSE 0)
      BY <2>1, <2>2 DEF Dim!FullBlocks, Dim!Blocks, cube_range
    <2> QED BY ONLY <2>1, <2>2, <2>3
  <1>2. p \in 0 .. h - 1 /\ n \in 0 .. i - 1 /\ c1x \in 0 .. Dim!c1_range - 1 /\ k \in Channel(c1x)
    BY <1>1 DEF IsPixel
  <1>3. PICK j \in Nat, x \in 0 .. v - 1 : p = j * v + x
    <2>1. p \in Nat
      BY <1>2
    <2>2. p \div v \in Nat /\ p % v \in 0 .. v - 1 /\ p = (p \div v) * v + (p % v)
      BY ONLY <2>1, v \in Nat \ {0}, Divide
    <2> QED BY ONLY <2>2
  <1>4. j \in 0 .. r - 1 /\ x \in 0 .. Pixels(j) - 1
    <2>1. PICK e \in Nat : e = r - 1 /\ e \in 0 .. r - 1
      BY <1>1
    <2>2. SizedPart(e)
      BY <1>1, <2>1 DEF Sized
    <2>3. PICK pix \in 1 .. v : pix = Pixels(e) /\ e * v + pix = h
      BY ONLY <1>1, <2>1, <2>2 DEF SizedPart
    <2>4. j <= e
      <3>1. e < j => e * v + v <= j * v
        BY NextRow
      <3>2. e * v \in Nat /\ j * v \in Nat
        OBVIOUS
      <3> QED BY ONLY <1>2, <1>3, <2>3, <3>1, <3>2, e \in Nat, j \in Nat, v \in Nat, pix \in 1 .. v, h \in Nat,
                 x \in 0 .. v - 1
    <2>5. CASE j = e
      <3>1. j * v \in Nat
        OBVIOUS
      <3> QED BY ONLY <1>2, <1>3, <2>1, <2>3, <2>5, <3>1, x \in 0 .. v - 1, v \in Nat, pix \in 1 .. v, h \in Nat
    <2>6. CASE j # e
      <3>1. j \in 0 .. r - 1 /\ j # r - 1
        BY ONLY <2>1, <2>4, <2>6, j \in Nat, r \in Nat
      <3>2. SizedPart(j)
        BY <1>1, <3>1 DEF Sized
      <3>3. Pixels(j) = v
        BY ONLY <1>1, <3>1, <3>2 DEF SizedPart
      <3> QED BY <3>1, <3>3
    <2> QED BY <2>5, <2>6
  <1>5. IsPart(n, c1x, j)
    BY ONLY <1>1, <1>2, <1>4 DEF IsPart
  <1>6. BlockOf(n, c1x, j) < Dim!Blocks
    <2>1. c1x \in Nat /\ n \in Nat /\ j \in Nat
      BY <1>1, <1>2, Channels
    <2>2. CASE c1x < l
      <3>1. PICK u \in 0 .. (i * l) - 1 : u = n * l + c1x /\ i * l \in Nat
        <4>1. c1x \in 0 .. l - 1
          BY <2>1, <2>2
        <4> QED BY <1>2, <4>1, Below
      <3>2. u * r + j \in 0 .. ((i * l) * r) - 1
        BY <1>4, <3>1, Below
      <3>3. BlockOf(n, c1x, j) = u * r + j
        BY <1>1, <2>2, <3>1 DEF BlockOf
      <3>4. i * r \in Nat
        BY <1>1
      <3> QED BY ONLY <1>1, <3>2, <3>3, <3>4, f \in Nat
    <2>3. CASE c1x >= l
      <3>1. Dim!c1_tail # 0
        BY <1>1, <1>2, <2>3, ChannelOf
      <3>2. n * r + j \in 0 .. (i * r) - 1
        BY <1>2, <1>4, Below
      <3>3. BlockOf(n, c1x, j) = f + n * r + j
        BY <1>1, <2>1, <2>3 DEF BlockOf
      <3>4. i * r \in Nat /\ n * r \in Nat
        BY <2>1
      <3> QED BY ONLY <1>1, <2>1, <3>1, <3>2, <3>3, <3>4, f \in Nat
    <2> QED BY <1>1, <2>1, <2>2, <2>3
  <1> QED BY ONLY <1>1, <1>2, <1>3, <1>4, <1>5, <1>6, PlacedBelow(output, Dim!Blocks) DEF PlacedBelow, IsPart

\* The channel of a C1, from the number of the channel.
LEMMA ChannelSplit ==
  ASSUME shape \in Shapes, NEW c1x \in 0 .. Dim!c1_range - 1, NEW k \in 0 .. C0 - 1, c1x * C0 + k < shape.c
  PROVE  k \in Channel(c1x)
  <1>1. PICK c \in Nat \ {0}, r \in Nat \ {0}, l \in Nat, t \in Nat :
          c = shape.c /\ r = C0 /\ l = Dim!c1_loop /\ t = Dim!c1_tail /\ c = l * r + t /\ t \in 0 .. r - 1
    <2>1. Dim!c1_tail \in Nat
      BY Channels
    <2> QED BY <2>1, Channels
  <1>2. c1x \in Nat
    BY Channels
  <1>3. CASE c1x < l
    BY <1>1, <1>3 DEF Channel
  <1>4. CASE ~(c1x < l)
    <2>1. c1x = l
      BY <1>1, <1>2, <1>4, Channels
    <2>2. l * r \in Nat
      OBVIOUS
    <2>3. k < t
      BY ONLY <1>1, <2>1, <2>2, c1x * C0 + k < shape.c, k \in 0 .. C0 - 1, r \in Nat, t \in Nat
    <2> QED BY <1>1, <1>4, <2>3 DEF Channel
  <1> QED BY <1>3, <1>4

\* What each element of the output is to be, by the conversions for protogenes.
LEMMA FourToFiveReference ==
  ASSUME shape \in Shapes, Sized, op = "four2five", PlacedBelow(output, Dim!Blocks), NEW a \in Dim!Elements
  PROVE  output[a] = Dim!Reference(a)
  <1>1. PICK i \in Nat, g \in Nat, h \in Nat \ {0}, c0 \in Nat \ {0} :
          i = shape.n /\ g = Dim!c1_range /\ h = Dim!hw /\ c0 = C0
    BY Channels DEF Sized, SizedBuffer
  <1>2. a \in 0 .. (i * h * (g * c0)) - 1 /\ Dim!Reference(a) = Dim!Reference5(a) /\ Dim!Reference5(a) # ZERO
    BY <1>1 DEF Dim!Elements, Dim!OutputSize, Dim!Reference
  <1>3. a \in Nat
    BY <1>2
  <1>4. PICK w \in Nat, k \in 0 .. c0 - 1 : a = w * c0 + k /\ w = a \div c0 /\ k = a % c0
    BY <1>3, Divide
  <1>5. PICK u \in Nat, p \in 0 .. h - 1 : w = u * h + p /\ u = w \div h /\ p = w % h
    BY Divide
  <1>6. u < i * g
    <2>1. PICK e \in Nat : e = i * g
      OBVIOUS
    <2>2. i * h * (g * c0) = (e * h) * c0
      BY <2>1
    <2>3. w < e * h
      <3>1. PICK q \in Nat : q = e * h
        OBVIOUS
      <3>2. q < w => q * c0 + c0 <= w * c0
        BY NextRow
      <3>3. q = w => q * c0 = w * c0
        OBVIOUS
      <3>4. q * c0 \in Nat /\ w * c0 \in Nat
        OBVIOUS
      <3> QED BY ONLY <1>2, <1>3, <1>4, <2>2, <3>1, <3>2, <3>3, <3>4, q \in Nat, w \in Nat, k \in 0 .. c0 - 1, c0 \in Nat
    <2>4. e < u => e * h + h <= u * h
      BY NextRow
    <2>5. e = u => e * h = u * h
      OBVIOUS
    <2>6. e * h \in Nat /\ u * h \in Nat
      OBVIOUS
    <2> QED BY ONLY <1>5, <2>1, <2>3, <2>4, <2>5, <2>6, e \in Nat, u \in Nat, p \in 0 .. h - 1, h \in Nat, w \in Nat
  <1>7. g # 0
    BY ONLY <1>6, i \in Nat, u \in Nat
  <1>8. PICK n \in Nat, d \in 0 .. g - 1 : u = n * g + d /\ d = u % g
    BY <1>7, Divide
  <1>9. n \in 0 .. i - 1
    <2>1. i < n => i * g + g <= n * g
      BY NextRow
    <2>2. i = n => i * g = n * g
      OBVIOUS
    <2>3. i * g \in Nat /\ n * g \in Nat
      OBVIOUS
    <2> QED BY ONLY <1>6, <1>8, <2>1, <2>2, <2>3, i \in Nat, n \in Nat, d \in 0 .. g - 1, g \in Nat, u \in Nat
  <1>10. a \div (c0 * h) = u /\ a \div (c0 * h * g) = n
    <2>1. PICK q \in Nat \ {0} : q = c0 * h
      OBVIOUS
    <2>2. p * c0 + k \in 0 .. q - 1
      <3>1. p * c0 + k \in 0 .. (h * c0) - 1
        BY Below
      <3> QED BY <2>1, <3>1
    <2>3. a = u * q + (p * c0 + k)
      <3>1. PICK e \in Nat, f \in Nat : e = p /\ f = k
        OBVIOUS
      <3>2. (u * h + e) * c0 + f = u * (c0 * h) + (e * c0 + f)
        BY ONLY u \in Nat, h \in Nat, c0 \in Nat, e \in Nat, f \in Nat
      <3> QED BY ONLY <1>4, <1>5, <2>1, <3>1, <3>2
    <2>4. a \div q = u
      BY ONLY <2>2, <2>3, Divided, q \in Nat \ {0}, u \in Nat
    <2>5. PICK z \in Nat : z = p * c0 + k /\ z \in 0 .. q - 1
      BY <2>2
    <2>6. d * q + z \in 0 .. (g * q) - 1 /\ g * q \in Nat
      BY <2>5, Below
    <2>7. a = n * (g * q) + (d * q + z)
      <3>1. PICK e \in Nat : e = d
        OBVIOUS
      <3>2. (n * g + e) * q + z = n * (g * q) + (e * q + z)
        BY ONLY n \in Nat, g \in Nat, e \in Nat, q \in Nat, z \in Nat
      <3> QED BY ONLY <1>8, <2>3, <2>5, <3>1, <3>2
    <2>8. a \div (g * q) = n
      <3>1. g * q \in Nat \ {0}
        BY <1>7
      <3> QED BY ONLY <2>6, <2>7, <3>1, Divided, n \in Nat
    <2>9. c0 * h * g = g * q
      BY <2>1
    <2> QED BY ONLY <2>1, <2>4, <2>8, <2>9
  <1>11. Dim!Reference5(a) = IF d * c0 + k < shape.c THEN (n * shape.c + (d * c0 + k)) * h + p ELSE ZERO
    BY ONLY <1>1, <1>4, <1>5, <1>8, <1>10 DEF Dim!Reference5
  <1>12. d * c0 + k < shape.c
    BY ONLY <1>2, <1>11
  <1>13. IsPixel(n, d, k, p)
    <2>1. k \in Channel(d)
      BY <1>1, <1>12, ChannelSplit
    <2> QED BY <1>1, <1>9, <2>1 DEF IsPixel
  <1>14. output[At5(n, d, k, p)] = At4(n, d, k, p)
    BY <1>13, AllPlaced DEF Placed
  <1>15. a = At5(n, d, k, p)
    BY ONLY <1>1, <1>4, <1>5, <1>8 DEF At5
  <1> QED BY ONLY <1>1, <1>2, <1>11, <1>12, <1>14, <1>15 DEF At4, Row

\* And from NC1HWC0.
LEMMA FiveToFourReference ==
  ASSUME shape \in Shapes, Sized, op = "five2four", PlacedBelow(output, Dim!Blocks), NEW a \in Dim!Elements
  PROVE  output[a] = Dim!Reference(a)
  <1>1. PICK i \in Nat, c \in Nat \ {0}, h \in Nat \ {0}, c0 \in Nat \ {0} :
          i = shape.n /\ c = shape.c /\ h = Dim!hw /\ c0 = C0
    BY Channels DEF Sized, SizedBuffer
  <1>2. a \in 0 .. (i * h * c) - 1 /\ Dim!Reference(a) = Dim!Reference4(a)
    BY <1>1 DEF Dim!Elements, Dim!OutputSize, Dim!Reference
  <1>3. a \in Nat
    BY <1>2
  <1>4. PICK u \in Nat, p \in 0 .. h - 1 : a = u * h + p /\ u = a \div h /\ p = a % h
    BY <1>3, Divide
  <1>5. PICK n \in Nat, s \in 0 .. c - 1 : u = n * c + s /\ s = u % c
    BY Divide
  <1>6. PICK d \in Nat, k \in 0 .. c0 - 1 : s = d * c0 + k /\ d = s \div c0 /\ k = s % c0
    <2>1. s \in Nat
      OBVIOUS
    <2> QED BY <2>1, Divide
  <1>7. n \in 0 .. i - 1
    <2>1. PICK e \in Nat : e = i * c
      OBVIOUS
    <2>2. i * h * c = e * h
      BY <2>1
    <2>3. u < e
      <3>1. e < u => e * h + h <= u * h
        BY NextRow
      <3>2. e = u => e * h = u * h
        OBVIOUS
      <3>3. e * h \in Nat /\ u * h \in Nat
        OBVIOUS
      <3> QED BY ONLY <1>2, <1>4, <2>2, <3>1, <3>2, <3>3, e \in Nat, u \in Nat, p \in 0 .. h - 1, h \in Nat, a \in Nat
    <2>4. i < n => i * c + c <= n * c
      BY NextRow
    <2>5. i = n => i * c = n * c
      OBVIOUS
    <2>6. i * c \in Nat /\ n * c \in Nat
      OBVIOUS
    <2> QED BY ONLY <1>5, <2>1, <2>3, <2>4, <2>5, <2>6, i \in Nat, n \in Nat, s \in 0 .. c - 1, c \in Nat, u \in Nat, e \in Nat
  <1>8. a \div (h * c) = n
    <2>1. PICK q \in Nat \ {0} : q = c * h
      OBVIOUS
    <2>2. s * h + p \in 0 .. q - 1
      BY <2>1, Below
    <2>3. a = n * q + (s * h + p)
      <3>1. PICK e \in Nat, f \in Nat : e = s /\ f = p
        OBVIOUS
      <3>2. (n * c + e) * h + f = n * (c * h) + (e * h + f)
        BY ONLY n \in Nat, c \in Nat, h \in Nat, e \in Nat, f \in Nat
      <3> QED BY ONLY <1>4, <1>5, <2>1, <3>1, <3>2
    <2>4. a \div q = n
      BY ONLY <2>2, <2>3, Divided, q \in Nat \ {0}, n \in Nat
    <2>5. h * c = q
      BY <2>1
    <2> QED BY ONLY <2>4, <2>5
  <1>9. d \in 0 .. Dim!c1_range - 1
    <2>1. PICK g \in Nat, l \in Nat, t \in Nat :
            /\ g = Dim!c1_range /\ l = Dim!c1_loop /\ t = Dim!c1_tail /\ c = l * c0 + t /\ t \in 0 .. c0 - 1
            /\ g = IF t = 0 THEN l ELSE l + 1
      <3>1. Dim!c1_tail \in Nat /\ Dim!c1_loop \in Nat /\ Dim!c1_range \in Nat
        BY Channels
      <3> QED BY <1>1, <3>1, Channels
    <2>2. l < d => l * c0 + c0 <= d * c0
      BY NextRow
    <2>3. l = d => l * c0 = d * c0
      OBVIOUS
    <2>4. l * c0 \in Nat /\ d * c0 \in Nat
      OBVIOUS
    <2> QED BY ONLY <1>6, <2>1, <2>2, <2>3, <2>4, l \in Nat, d \in Nat, t \in Nat, c \in Nat, c0 \in Nat,
               s \in 0 .. c - 1, k \in 0 .. c0 - 1, g \in Nat
  <1>10. IsPixel(n, d, k, p)
    <2>1. d * C0 + k < shape.c
      BY ONLY <1>1, <1>6, s \in 0 .. c - 1, c \in Nat
    <2>2. k \in Channel(d)
      BY <1>1, <1>9, <2>1, ChannelSplit
    <2> QED BY <1>1, <1>7, <1>9, <2>2 DEF IsPixel
  <1>11. output[At4(n, d, k, p)] = At5(n, d, k, p)
    BY <1>10, AllPlaced DEF Placed
  <1>12. a = At4(n, d, k, p)
    BY ONLY <1>1, <1>4, <1>5, <1>6 DEF At4, Row
  <1>13. Dim!Reference4(a) = At5(n, d, k, p)
    BY ONLY <1>1, <1>4, <1>5, <1>6, <1>8 DEF Dim!Reference4, At5
  <1> QED BY ONLY <1>2, <1>11, <1>12, <1>13

\* When all blocks are done every element is placed.
LEMMA ConvConverts ==
  ASSUME ConvInv
  PROVE  Dim!ConvertedWhereRegular
  <1>1. ASSUME Dim!Regular, Dim!Done PROVE Dim!Converted
    <2>1. shape \in Shapes /\ op \in Ops /\ Sized /\ BlockInv
      BY <1>1, RegularSized DEF ConvInv
    <2>2. block = Dim!Blocks /\ Dim!Blocks \in Nat
      BY <1>1, <2>1, BlocksNat DEF Dim!Done
    <2>3. pc = "in"
      BY <2>2 DEF ConvInv
    <2>4. PlacedBelow(output, Dim!Blocks)
      BY ONLY <2>1, <2>2, <2>3 DEF BlockInv
    <2>5. op = "four2five" \/ op = "five2four"
      BY <2>1, DimAssumption
    <2> QED BY <2>1, <2>4, <2>5, FourToFiveReference, FiveToFourReference DEF Dim!Converted
  <1> QED BY <1>1 DEF Dim!ConvertedWhereRegular, Dim!Converted

\* A step of Tools, taken by this program or by another.
LEMMA DimStep ==
  ASSUME program = "convert" => ConvInv, [Next]_vars
  PROVE  (program = "convert" => ConvInv)'
  <1>1. CASE UNCHANGED vars
    <2>1. /\ program' = program
          /\ UNCHANGED <<shape, op, output, input_ub, output_ub, output_head_ub, block, pc>>
      BY <1>1, Zenon DEF vars, shared, ownDim
    <2>2. CASE program = "convert"
      <3>1. Cells'
        BY <2>1, <2>2, SizesStay DEF ConvInv, Cells
      <3>2. BlockInv' <=> BlockInv
        BY <2>1, SizesStay, BlockStays, PlacedStays, BuffersStay DEF BlockInv
      <3>3. Dim!Regular' = Dim!Regular /\ Dim!Blocks' = Dim!Blocks
        BY <2>1, SizesStay
      <3> QED BY ONLY <2>1, <2>2, <3>1, <3>2, <3>3, program = "convert" => ConvInv DEF ConvInv
    <2> QED BY <2>1, <2>2
  <1>2. CASE Next
    BY <1>2, ConvStep DEF Next
  <1> QED BY <1>1, <1>2

\* For all sizes of the tensors, of the cubes and of the buffer: the emitted
\* program of a conversion, in the tensors that its blocks and bursts suit, puts
\* every element where the conversion for protogenes has it.
THEOREM DimSafety == Spec => []ConvertedWhereRegular
  <1>1. Init => (program = "convert" => ConvInv)
    BY ConvInit DEF Init
  <1>2. (program = "convert" => ConvInv) => ConvertedWhereRegular
    BY ConvConverts DEF ConvertedWhereRegular
  <1> QED BY <1>1, <1>2, DimStep, PTL DEF Spec
=============================================================================
