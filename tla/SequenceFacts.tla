--------------------------- MODULE SequenceFacts ----------------------------
(***************************************************************************)
(* What the sequence and map operators of the tracker's models preserve:   *)
(* facts about member lists without repetition and about HashMap, cited by *)
(* the proofs of the other modules.                                        *)
(***************************************************************************)
EXTENDS HashMap, SequencesExt, SequenceTheorems, TLAPS

-----------------------------------------------------------------------------
\* vector::erase at position k: one shorter, and what came after moves up.
LEMMA RemoveAtElements ==
    ASSUME NEW R, NEW s \in Seq(R), NEW k \in 1..Len(s)
    PROVE  /\ RemoveAt(s, k) \in Seq(R)
           /\ Len(RemoveAt(s, k)) = Len(s) - 1
           /\ \A i \in 1..(Len(s) - 1) :
                 RemoveAt(s, k)[i] = IF i < k THEN s[i] ELSE s[i + 1]
<1> DEFINE a == SubSeq(s, 1, k - 1)
           b == SubSeq(s, k + 1, Len(s))
<1>1. a \in Seq(R) /\ Len(a) = k - 1 /\ \A i \in 1..(k - 1) : a[i] = s[i]
  BY SubSeqProperties
<1>2. /\ b \in Seq(R)
      /\ Len(b) = Len(s) - k
      /\ \A i \in 1..(Len(s) - k) : b[i] = s[k + i]
  BY SubSeqProperties
<1>3. RemoveAt(s, k) = a \o b
  BY DEF RemoveAt
<1> HIDE DEF a, b
<1>4. a \o b \in Seq(R)
  BY <1>1, <1>2, ConcatProperties
<1>5. Len(a \o b) = Len(s) - 1
  <2>1. Len(a \o b) = Len(a) + Len(b)
    BY <1>1, <1>2, ConcatProperties
  <2> QED BY <2>1, <1>1, <1>2, LenProperties
<1>6. ASSUME NEW i \in 1..(Len(s) - 1)
      PROVE  (a \o b)[i] = IF i < k THEN s[i] ELSE s[i + 1]
  <2>1. (a \o b)[i] = IF i <= Len(a) THEN a[i] ELSE b[i - Len(a)]
    <3>1. i \in 1..(Len(a) + Len(b))
      BY <1>1, <1>2, LenProperties
    <3> QED BY <3>1, <1>1, <1>2, ConcatProperties
  <2>2. CASE i < k
    BY <2>1, <2>2, <1>1
  <2>3. CASE ~(i < k)
    <3>1. i - (k - 1) \in 1..(Len(s) - k)
      BY <2>3, LenProperties
    <3>2. b[i - (k - 1)] = s[k + (i - (k - 1))]
      BY <3>1, <1>2
    <3> QED BY <3>2, <2>1, <2>3, <1>1
  <2> QED BY <2>2, <2>3
<1> QED BY <1>3, <1>4, <1>5, <1>6

\* std::find followed by erase, on a list without repetition: the element goes,
\* the others keep their order, and the head changes only if it was the head.
LEMMA RemoveFirstFromDistinct ==
    ASSUME NEW R, NEW s \in Seq(R), IsInjective(s), NEW u \in ToSet(s)
    PROVE  /\ RemoveFirst(s, u) \in Seq(R)
           /\ Len(RemoveFirst(s, u)) = Len(s) - 1
           /\ IsInjective(RemoveFirst(s, u))
           /\ ToSet(RemoveFirst(s, u)) = ToSet(s) \ {u}
           /\ u # s[1] /\ Len(s) > 1 => RemoveFirst(s, u)[1] = s[1]
<1>1. PICK k \in 1..Len(s) : s[k] = u
  BY LenProperties DEF ToSet
<1>2. {i \in 1..Len(s) : s[i] = s[k]} = {k}
  BY LenProperties DEF IsInjective
<1>3. Min({k}) = k
  BY DEF Min
<1>4. SelectInSeq(s, LAMBDA v : v = u) = k
  BY <1>1, <1>2, <1>3 DEF SelectInSeq
<1>5. RemoveFirst(s, u) = RemoveAt(s, k)
  BY <1>1, <1>4 DEF RemoveFirst
<1> DEFINE r == RemoveAt(s, k)
<1>6. /\ r \in Seq(R)
      /\ Len(r) = Len(s) - 1
      /\ \A i \in 1..(Len(s) - 1) : r[i] = IF i < k THEN s[i] ELSE s[i + 1]
  BY RemoveAtElements
<1> HIDE DEF r
<1>7. DOMAIN r = 1..(Len(s) - 1) /\ DOMAIN s = 1..Len(s) /\ Len(s) \in Nat
  BY <1>6, LenProperties
<1>8. IsInjective(r)
  BY <1>6, <1>7 DEF IsInjective
<1>9. ToSet(r) = ToSet(s) \ {u}
  <2>1. ASSUME NEW i \in DOMAIN r PROVE r[i] \in ToSet(s) \ {u}
    BY <1>1, <1>6, <1>7 DEF ToSet, IsInjective
  <2>2. ASSUME NEW i \in DOMAIN s, s[i] # u PROVE \E j \in DOMAIN r : r[j] = s[i]
    <3>1. CASE i < k
      BY <3>1, <1>6, <1>7
    <3>2. CASE i > k
      <4>1. i - 1 \in DOMAIN r /\ ~(i - 1 < k) /\ (i - 1) + 1 = i
        BY <3>2, <1>7
      <4> QED BY <4>1, <1>6, <1>7
    <3> QED BY <3>1, <3>2, <1>1, <2>2, <1>7
  <2> QED BY <2>1, <2>2 DEF ToSet
<1>10. u # s[1] /\ Len(s) > 1 => r[1] = s[1]
  BY <1>1, <1>6, <1>7
<1> QED BY <1>5, <1>6, <1>8, <1>9, <1>10 DEF r

\* vector::push_back of an element that is not there yet.
LEMMA AppendToDistinct ==
    ASSUME NEW R, NEW s \in Seq(R), IsInjective(s), NEW u \in R, u \notin ToSet(s)
    PROVE  /\ Append(s, u) \in Seq(R)
           /\ Append(s, u) # <<>>
           /\ IsInjective(Append(s, u))
           /\ ToSet(Append(s, u)) = ToSet(s) \cup {u}
           /\ s # <<>> => Append(s, u)[1] = s[1]
<1> DEFINE t == Append(s, u)
<1>1. /\ t \in Seq(R)
      /\ Len(t) = Len(s) + 1
      /\ \A i \in 1..Len(s) : t[i] = s[i]
      /\ t[Len(s) + 1] = u
  BY AppendProperties
<1> HIDE DEF t
<1>2. DOMAIN s = 1..Len(s) /\ DOMAIN t = 1..(Len(s) + 1) /\ Len(s) \in Nat
  BY <1>1, LenProperties
<1>3. \A i \in DOMAIN t : i \in DOMAIN s \/ i = Len(s) + 1
  BY <1>2
<1>4. IsInjective(t)
  BY <1>1, <1>2, <1>3 DEF IsInjective, ToSet
<1>5. ToSet(t) = ToSet(s) \cup {u}
  <2>1. ToSet(t) \subseteq ToSet(s) \cup {u}
    BY <1>1, <1>2, <1>3 DEF ToSet
  <2>2. ToSet(s) \subseteq ToSet(t)
    BY <1>1, <1>2 DEF ToSet
  <2>3. u \in ToSet(t)
    BY <1>1, <1>2 DEF ToSet
  <2> QED BY <2>1, <2>2, <2>3
<1>6. t # <<>>
  BY <1>1, <1>2, EmptySeq
<1>7. s # <<>> => t[1] = s[1]
  BY <1>1, <1>2, EmptySeq
<1> QED BY <1>1, <1>4, <1>5, <1>6, <1>7 DEF t

-----------------------------------------------------------------------------
\* operator[] with an assignment keeps the type of a map.
LEMMA PutType ==
    ASSUME NEW K, NEW V, NEW m, IsMap(m, K, V), NEW k \in K, NEW v \in V
    PROVE  IsMap(Put(m, k, v), K, V)
BY DEF IsMap, Put

\* Assigning to a part of a value that is there is assigning the value.
LEMMA ExceptIsPut ==
    ASSUME NEW K, NEW V, NEW m, IsMap(m, K, V), NEW k \in DOMAIN m, NEW v
    PROVE  [m EXCEPT ![k] = v] = Put(m, k, v)
BY DEF IsMap, Put

\* So does erase.
LEMMA DropType ==
    ASSUME NEW K, NEW V, NEW m, IsMap(m, K, V), NEW k
    PROVE  IsMap(Drop(m, k), K, V)
BY DEF IsMap, Drop
=============================================================================
