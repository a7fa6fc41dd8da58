---------------------------- MODULE FiniteFacts -----------------------------
(***************************************************************************)
(* Facts about natural numbers, finite sets and sequences that the proofs   *)
(* about several components need.                                           *)
(***************************************************************************)
EXTENDS Integers, Sequences, FiniteSets, FiniteSetsExt, FiniteSetTheorems, FunctionTheorems,
        SequenceTheorems, NaturalsInduction, WellFoundedInduction, TLAPS

(* Induction by the least counterexample needs no operator as a parameter.  *)
LEMMA LeastNatural ==
  ASSUME NEW T \in SUBSET Nat, T # {}
  PROVE  \E x \in T : \A y \in T : x <= y
<1>1. PICK x \in T : \A y \in T : ~ (<<y, x>> \in OpToRel(<, Nat))
  BY NatLessThanWellFounded, WFMin, Zenon
<1>2. \A y \in T : ~ (y < x)
  BY <1>1, Zenon DEF OpToRel
<1>. QED
  BY <1>2

LEMMA StrictSubset ==
  ASSUME NEW S, IsFiniteSet(S), NEW T \in SUBSET S, NEW y \in S, y \notin T
  PROVE  Cardinality(T) < Cardinality(S)
<1>1. Cardinality(T) <= Cardinality(S) /\ (Cardinality(S) = Cardinality(T) => S = T)
  BY FS_Subset
<1>2. Cardinality(T) \in Nat /\ Cardinality(S) \in Nat
  BY FS_Subset, FS_CardinalityType
<1>. QED
  BY <1>1, <1>2

(* A finite set of naturals has a greatest element: the one with the fewest *)
(* above it.                                                                *)
LEMMA MaxProperties ==
  ASSUME NEW S \in SUBSET Nat, S # {}, IsFiniteSet(S)
  PROVE  Max(S) \in S /\ \A y \in S : Max(S) >= y
<1>. DEFINE Above(a) == {b \in S : b > a}
            Ranks == {Cardinality(Above(a)) : a \in S}
<1>1. \A x \in S : IsFiniteSet(Above(x)) /\ Cardinality(Above(x)) \in Nat
  BY FS_Subset, FS_CardinalityType
<1>2. Ranks \in SUBSET Nat /\ Ranks # {}
  BY <1>1
<1>3. PICK r \in Ranks : \A q \in Ranks : r <= q
  BY <1>2, LeastNatural
<1>4. PICK x \in S : r = Cardinality(Above(x))
  BY <1>3
<1>5. ASSUME NEW y \in S, y > x PROVE FALSE
  <2>0. x \in Nat /\ y \in Nat /\ \A z \in S : z \in Nat
    OBVIOUS
  <2>1. /\ Above(y) \in SUBSET Above(x)
        /\ y \in Above(x) /\ y \notin Above(y)
    <3>1. \A z \in S : z > y => z > x
      BY <1>5, <2>0
    <3>2. ~ (y > y)
      BY <2>0
    <3>. QED
      BY <3>1, <3>2, <1>5
  <2>2. Cardinality(Above(y)) < Cardinality(Above(x))
    <3>. HIDE DEF Above
    <3>1. IsFiniteSet(Above(x))
      BY <1>1
    <3>. QED
      BY <2>1, <3>1, StrictSubset
  <2>3. Cardinality(Above(y)) \in Ranks
    OBVIOUS
  <2>4. Cardinality(Above(x)) <= Cardinality(Above(y))
    BY <2>3, <1>3, <1>4
  <2>5. Cardinality(Above(x)) \in Nat /\ Cardinality(Above(y)) \in Nat
    BY <1>1
  <2>. HIDE DEF Above
  <2>. QED
    BY <2>2, <2>4, <2>5
<1>6. \A y \in S : x >= y
  BY <1>5
<1>. QED
  BY <1>6 DEF Max

(* What a finite index set selects is finite.                               *)
LEMMA ImageFinite ==
  ASSUME NEW S, IsFiniteSet(S), NEW f, S \subseteq DOMAIN f
  PROVE  IsFiniteSet({f[x] : x \in S})
<1>. DEFINE g == [x \in S |-> f[x]]
            T == {f[x] : x \in S}
<1>1. g \in Surjection(S, T)
  BY DEF Surjection
<1>. QED
  BY <1>1, FS_Surjection

(* A sequence without its element at p.                                     *)
LEMMA WithoutOne ==
  ASSUME NEW S, NEW q \in Seq(S), NEW p \in 1..Len(q)
  PROVE  LET o == SubSeq(q, 1, p - 1) \o SubSeq(q, p + 1, Len(q))
         IN /\ o \in Seq(S) /\ Len(o) = Len(q) - 1
            /\ \A i \in 1..Len(o) : IF i < p THEN i \in 1..Len(q) /\ o[i] = q[i]
                                    ELSE i + 1 \in 1..Len(q) /\ o[i] = q[i + 1]
<1>. DEFINE x == SubSeq(q, 1, p - 1)
            y == SubSeq(q, p + 1, Len(q))
            o == x \o y
<1>0. Len(q) \in Nat /\ p \in Int /\ \A i \in 1..Len(q) : q[i] \in S
  BY LenProperties, ElementOfSeq
<1>1. /\ x \in Seq(S) /\ Len(x) = p - 1
      /\ \A i \in 1..p - 1 : x[i] = q[i]
  <2>. DEFINE n == p - 1
  <2>1. n \in Int /\ \A i \in 1..n : q[i] \in S
    BY <1>0
  <2>2. n \in Nat /\ 1 + n - 1 = n
    BY <1>0
  <2>. HIDE DEF n
  <2>3. /\ SubSeq(q, 1, n) \in Seq(S)
        /\ Len(SubSeq(q, 1, n)) = IF 1 <= n THEN n - 1 + 1 ELSE 0
        /\ \A i \in 1..n - 1 + 1 : SubSeq(q, 1, n)[i] = q[1 + i - 1]
    BY <2>1, SubSeqProperties
  <2>4. /\ Len(SubSeq(q, 1, n)) = n
        /\ \A i \in 1..n : SubSeq(q, 1, n)[i] = q[i]
    <3>1. \A i \in 1..n : i \in 1..n - 1 + 1 /\ 1 + i - 1 = i
      BY <2>2
    <3>2. \A i \in 1..n : SubSeq(q, 1, n)[i] = q[i]
      BY <2>3, <3>1
    <3>. QED
      BY <2>2, <2>3, <3>2
  <2>. QED
    BY <2>3, <2>4 DEF n
<1>2. /\ y \in Seq(S) /\ Len(y) = Len(q) - p
      /\ \A i \in 1..Len(q) - p : y[i] = q[p + i]
  <2>. DEFINE n == p + 1
  <2>1. n \in Int /\ Len(q) \in Int /\ \A i \in n..Len(q) : q[i] \in S
    BY <1>0
  <2>2. n \in 2..Len(q) + 1 /\ n = p + 1
    BY <1>0
  <2>. HIDE DEF n
  <2>3. /\ SubSeq(q, n, Len(q)) \in Seq(S)
        /\ Len(SubSeq(q, n, Len(q))) = IF n <= Len(q) THEN Len(q) - n + 1 ELSE 0
        /\ \A i \in 1..Len(q) - n + 1 : SubSeq(q, n, Len(q))[i] = q[n + i - 1]
    BY <2>1, SubSeqProperties
  <2>4. Len(SubSeq(q, n, Len(q))) = Len(q) - p
    BY <2>2, <2>3, <1>0
  <2>5. \A i \in 1..Len(q) - p : i \in 1..Len(q) - n + 1 /\ n + i - 1 = p + i
    BY <2>2, <1>0
  <2>6. \A i \in 1..Len(q) - p : SubSeq(q, n, Len(q))[i] = q[p + i]
    BY <2>3, <2>5
  <2>. QED
    BY <2>3, <2>4, <2>6 DEF n
<1>. HIDE DEF x, y
<1>3. /\ o \in Seq(S) /\ Len(o) = Len(q) - 1
      /\ \A i \in 1..Len(o) : o[i] = IF i <= p - 1 THEN x[i] ELSE y[i - (p - 1)]
  <2>1. /\ o \in Seq(S) /\ Len(o) = Len(x) + Len(y)
        /\ \A i \in 1..Len(x) + Len(y) : o[i] = IF i <= Len(x) THEN x[i] ELSE y[i - Len(x)]
    BY <1>1, <1>2, ConcatProperties
  <2>2. Len(x) + Len(y) = Len(q) - 1
    BY <1>0, <1>1, <1>2
  <2>. QED
    BY <1>1, <2>1, <2>2
<1>. HIDE DEF o
<1>4. ASSUME NEW i \in 1..Len(o)
      PROVE  IF i < p THEN i \in 1..Len(q) /\ o[i] = q[i]
             ELSE i + 1 \in 1..Len(q) /\ o[i] = q[i + 1]
  <2>1. CASE i < p
    <3>1. i <= p - 1 /\ i \in 1..p - 1 /\ i \in 1..Len(q)
      BY <2>1, <1>0, <1>3
    <3>. QED
      BY <2>1, <3>1, <1>1, <1>3
  <2>2. CASE ~ (i < p)
    <3>1. /\ ~ (i <= p - 1) /\ i - (p - 1) \in 1..Len(q) - p
          /\ p + (i - (p - 1)) = i + 1 /\ i + 1 \in 1..Len(q)
      BY <2>2, <1>0, <1>3
    <3>2. y[i - (p - 1)] = q[p + (i - (p - 1))]
      BY <3>1, <1>2
    <3>. QED
      BY <2>2, <3>1, <3>2, <1>3
  <2>. QED
    BY <2>1, <2>2
<1>. QED
  BY <1>3, <1>4 DEF o, x, y

=============================================================================
