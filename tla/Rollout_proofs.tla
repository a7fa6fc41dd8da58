---------------------------- MODULE Rollout_proofs ----------------------------
(***************************************************************************)
(* Proofs about Rollout, for every recorded tree, every score, every policy *)
(* and every answer of the model.                                           *)
(***************************************************************************)
EXTENDS Rollout, FiniteFacts, SequenceTheorems

-----------------------------------------------------------------------------
(* The recorded tree.                                                       *)

World ==
  /\ \E size \in Nat \ {0} :
       /\ parent \in [1..size -> 0..size - 1]
       /\ parent[1] = 0
       /\ \A n \in 2..size : parent[n] \in 1..n - 1
       /\ score \in [1..size -> AnyScore]
  /\ incumbent \in Sources \cup {None}

LEMMA NodesFacts ==
  ASSUME World
  PROVE  /\ Nodes \subseteq Nat /\ IsFiniteSet(Nodes)
         /\ 1 \in Nodes /\ parent[1] = 0
         /\ \A n \in Nodes : parent[n] = 0 \/ parent[n] \in Nodes
         /\ \A n \in Nodes : score[n] \in AnyScore /\ score[n] \in Nat
         /\ DOMAIN score = Nodes
<1>1. PICK size \in Nat \ {0} :
        /\ parent \in [1..size -> 0..size - 1]
        /\ parent[1] = 0
        /\ \A n \in 2..size : parent[n] \in 1..n - 1
        /\ score \in [1..size -> AnyScore]
  BY DEF World
<1>2. Nodes = 1..size
  BY <1>1 DEF Nodes
<1>3. IsFiniteSet(1..size)
  BY <1>1, FS_Interval
<1>4. \A n \in 1..size : parent[n] = 0 \/ parent[n] \in 1..size
  BY <1>1
<1>5. \A n \in 1..size : score[n] \in AnyScore /\ score[n] \in Nat
  BY <1>1, ConstantsAssumption DEF AnyScore
<1>6. 1..size \subseteq Nat /\ 1 \in 1..size /\ DOMAIN score = 1..size
  BY <1>1
<1>. QED
  BY <1>1, <1>2, <1>3, <1>4, <1>5, <1>6

LEMMA KidsFacts ==
  ASSUME World, NEW n
  PROVE  Kids(n) \subseteq Nodes /\ IsFiniteSet(Kids(n)) /\ Kids(n) \in SUBSET Nat
<1>1. Kids(n) \subseteq Nodes
  BY DEF Kids
<1>. QED
  BY <1>1, NodesFacts, FS_Subset

LEMMA ChildIndexNat ==
  ASSUME World, NEW k
  PROVE  ChildIndex(k) \in Nat
<1>. DEFINE before == {j \in Kids(parent[k]) : j < k}
<1>1. IsFiniteSet(Kids(parent[k])) /\ before \subseteq Kids(parent[k])
  BY KidsFacts
<1>2. IsFiniteSet(before)
  BY <1>1, FS_Subset
<1>. QED
  BY <1>2, FS_CardinalityType DEF ChildIndex

(* Siblings are counted in the order they were recorded in.                 *)
LEMMA SiblingOrder ==
  ASSUME World, NEW j \in Nodes, NEW k \in Nodes, parent[j] = parent[k], j < k
  PROVE  ChildIndex(j) < ChildIndex(k)
<1>. DEFINE p == parent[k]
            lower == {i \in Kids(p) : i < j}
            upper == {i \in Kids(p) : i < k}
<1>1. Kids(p) \subseteq Nat /\ IsFiniteSet(Kids(p)) /\ j \in Nat /\ k \in Nat
  BY KidsFacts, NodesFacts
<1>2. j \in Kids(p)
  BY DEF Kids
<1>3. \A i \in Kids(p) : i < j => i < k
  BY <1>1
<1>4. lower \in SUBSET upper /\ j \in upper /\ j \notin lower
  BY <1>1, <1>2, <1>3
<1>5. IsFiniteSet(upper)
  <2>1. upper \subseteq Kids(p)
    OBVIOUS
  <2>. QED
    BY <2>1, <1>1, FS_Subset
<1>6. Cardinality(lower) < Cardinality(upper)
  <2>. HIDE DEF lower, upper
  <2>. QED
    BY <1>4, <1>5, StrictSubset
<1>. QED
  BY <1>6 DEF ChildIndex

LEMMA SiblingIndex ==
  ASSUME World, NEW j \in Nodes, NEW k \in Nodes,
         parent[j] = parent[k], ChildIndex(j) = ChildIndex(k)
  PROVE  j = k
<1>1. j \in Nat /\ k \in Nat /\ ChildIndex(j) \in Nat
  BY NodesFacts, ChildIndexNat
<1>2. CASE j < k
  BY <1>1, <1>2, SiblingOrder
<1>3. CASE k < j
  BY <1>1, <1>3, SiblingOrder
<1>. QED
  BY <1>1, <1>2, <1>3

(* One expansion of n reveals the child whose index is the number of the    *)
(* expansions before it, and that is the child it pays for.                 *)
LEMMA Expansion ==
  \A c \in [Nodes -> Nat], n \in Nodes :
    World =>
      /\ Revealed(c) \subseteq Revealed([c EXCEPT ![n] = @ + 1])
      /\ \A k \in Revealed([c EXCEPT ![n] = @ + 1]) \ Revealed(c) :
           /\ Revealed([c EXCEPT ![n] = @ + 1]) = Revealed(c) \cup {k}
           /\ Reward(c, n) = score[k]
<1>. TAKE c \in [Nodes -> Nat], n \in Nodes
<1>. HAVE World
<1>. DEFINE d == [c EXCEPT ![n] = @ + 1]
<1>1. d \in [Nodes -> Nat] /\ d[n] = c[n] + 1
      /\ \A m \in Nodes : m # n => d[m] = c[m]
  OBVIOUS
<1>. HIDE DEF d
<1>2. \A k \in Nodes : ChildIndex(k) \in Nat /\ (parent[k] # 0 => parent[k] \in Nodes)
  BY NodesFacts, ChildIndexNat
<1>3. Revealed(c) \subseteq Revealed(d)
  <2>. SUFFICES ASSUME NEW k \in Nodes, parent[k] # 0, c[parent[k]] > ChildIndex(k)
                PROVE  d[parent[k]] > ChildIndex(k)
    BY DEF Revealed
  <2>. QED
    BY <1>1, <1>2
<1>4. \A k \in Revealed(d) \ Revealed(c) :
        k \in Nodes /\ parent[k] = n /\ ChildIndex(k) = c[n]
  <2>. SUFFICES ASSUME NEW k \in Nodes, parent[k] # 0,
                       d[parent[k]] > ChildIndex(k), ~ (c[parent[k]] > ChildIndex(k))
                PROVE  parent[k] = n /\ ChildIndex(k) = c[n]
    BY DEF Revealed
  <2>. QED
    BY <1>1, <1>2
<1>5. ASSUME NEW k \in Revealed(d) \ Revealed(c)
      PROVE  /\ Revealed(d) = Revealed(c) \cup {k}
             /\ Reward(c, n) = score[k]
  <2>1. \A j \in Revealed(d) \ Revealed(c) : j = k
    BY <1>4, SiblingIndex
  <2>2. \A j \in Kids(n) : ChildIndex(j) = c[n] => j = k
    BY <1>4, SiblingIndex DEF Kids
  <2>3. k \in Kids(n) /\ ChildIndex(k) = c[n]
    BY <1>4 DEF Kids
  <2>4. (CHOOSE j \in Kids(n) : ChildIndex(j) = c[n]) = k
    BY <2>2, <2>3
  <2>. QED
    BY <1>3, <2>1, <2>3, <2>4 DEF Reward
<1>. QED
  BY <1>3, <1>5 DEF d

(* What an expansion pays is a recorded score.                              *)
LEMMA RewardRecorded ==
  ASSUME World, NEW c \in [Nodes -> Nat], NEW n \in Nodes
  PROVE  Reward(c, n) \in AnyScore
<1>1. \A k \in Kids(n) : score[k] \in AnyScore
  BY NodesFacts DEF Kids
<1>2. Kids(n) # {} => Max(Kids(n)) \in Kids(n)
  BY KidsFacts, MaxProperties
<1>. QED
  BY <1>1, <1>2, NodesFacts DEF Reward

(* The two copies of the loop show the same and pay the same.               *)
LEMMA CopiesAgree ==
  ASSUME World, NEW c \in [Nodes -> Nat]
  PROVE  /\ SimulatedReveal(c) = Revealed(c)
         /\ \A n \in Nodes : SimulatedReward(c, n) = Reward(c, n)
<1>1. /\ 1 \in Nodes /\ parent[1] = 0
      /\ \A n \in Nodes \ {1} : parent[n] # 0 /\ parent[n] \in Nodes
  <2>1. PICK size \in Nat \ {0} :
          /\ parent \in [1..size -> 0..size - 1]
          /\ parent[1] = 0
          /\ \A n \in 2..size : parent[n] \in 1..n - 1
    BY DEF World
  <2>2. \A n \in (1..size) \ {1} : n \in 2..size
    BY <2>1
  <2>3. \A n \in (1..size) \ {1} : parent[n] # 0
    BY <2>1, <2>2
  <2>. QED
    BY <2>1, <2>3, NodesFacts DEF Nodes
<1>2. \A n \in Nodes : ChildIndex(n) \in Nat
  BY ChildIndexNat
<1>3. SimulatedReveal(c) = Revealed(c)
  <2>1. \A n \in Nodes \ {1} : ChildIndex(n) < c[parent[n]] <=> c[parent[n]] > ChildIndex(n)
    BY <1>1, <1>2
  <2>. QED
    BY <1>1, <2>1 DEF SimulatedReveal, Revealed
<1>4. ASSUME NEW n \in Nodes PROVE SimulatedReward(c, n) = Reward(c, n)
  <2>1. CASE \E k \in Kids(n) : ChildIndex(k) = c[n]
    <3>. DEFINE next == CHOOSE k \in Kids(n) : ChildIndex(k) = c[n]
    <3>1. next \in Kids(n) /\ ChildIndex(next) = c[n]
      BY <2>1
    <3>. HIDE DEF next
    <3>2. NextKids(c, n) = {next}
      BY <3>1, SiblingIndex DEF NextKids, Kids
    <3>3. next \in Nat
      BY <3>1, KidsFacts
    <3>4. Min({next}) = next
      BY <3>3 DEF Min
    <3>5. Reward(c, n) = score[next]
      BY <2>1 DEF Reward, next
    <3>. QED
      BY <3>1, <3>2, <3>4, <3>5 DEF SimulatedReward
  <2>2. CASE ~ \E k \in Kids(n) : ChildIndex(k) = c[n]
    BY <2>2 DEF SimulatedReward, Reward, NextKids
  <2>. QED
    BY <2>1, <2>2
<1>. QED
  BY <1>3, <1>4

(* The greedy policy always has a node to expand.                           *)
LEMMA GreedyPickRevealed ==
  ASSUME World, NEW c \in [Nodes -> Nat]
  PROVE  GreedyPick(c) \in Revealed(c) /\ GreedyPick(c) \in Nodes
<1>. DEFINE R == Revealed(c)
            Values == {score[k] : k \in R}
<1>1. R \subseteq Nodes /\ R # {}
  BY NodesFacts DEF Revealed
<1>2. IsFiniteSet(R) /\ R \subseteq DOMAIN score
  BY <1>1, NodesFacts, FS_Subset
<1>3. IsFiniteSet(Values)
  <2>. HIDE DEF R
  <2>. QED
    BY <1>2, ImageFinite
<1>4. Values \in SUBSET Nat /\ Values # {}
  <2>. HIDE DEF R
  <2>. QED
    BY <1>1, NodesFacts
<1>5. Max(Values) \in Values /\ \A v \in Values : Max(Values) >= v
  <2>. HIDE DEF Values
  <2>. QED
    BY <1>3, <1>4, MaxProperties
<1>. DEFINE Best == {k \in R : score[k] = Max(Values)}
<1>6. Best \in SUBSET Nat /\ Best # {}
  BY <1>5, <1>1, NodesFacts
<1>7. PICK n \in Best : \A k \in Best : n <= k
  BY <1>6, LeastNatural
<1>8. n \in R /\ \A k \in R : score[n] > score[k] \/ (score[n] = score[k] /\ n <= k)
  <2>. SUFFICES ASSUME NEW k \in R, ~ (score[n] > score[k])
                PROVE  score[n] = score[k] /\ n <= k
    BY <1>7
  <2>1. score[n] = Max(Values) /\ score[n] \in Nat /\ score[k] \in Nat
        /\ Max(Values) >= score[k]
    BY <1>7, <1>5, <1>1, NodesFacts
  <2>2. score[n] = score[k]
    BY <2>1
  <2>. QED
    BY <2>1, <2>2, <1>7
<1>. QED
  <2>. HIDE DEF R, Values, Best
  <2>1. \E x \in R : \A k \in R : score[x] > score[k] \/ (score[x] = score[k] /\ x <= k)
    BY <1>8
  <2>2. GreedyPick(c) \in R
    BY <2>1, CopiesAgree DEF GreedyPick, R
  <2>. QED
    BY <2>2, <1>1 DEF R

-----------------------------------------------------------------------------
(* The sum of the rewards.  The sums of the first 0, 1, ... m rewards are a *)
(* function for every m, because there is no least m for which there is no  *)
(* such function.                                                           *)

Sums(rs, m, f) ==
  /\ f \in [0..m -> Int]
  /\ f[0] = 0
  /\ \A i \in 1..m : f[i] = f[i - 1] + rs[i]

LEMMA SumsExist ==
  ASSUME NEW rs \in Seq(Int), NEW m \in 0..Len(rs)
  PROVE  \E f : Sums(rs, m, f)
<1>. DEFINE bad == {k \in 0..Len(rs) : ~ \E f : Sums(rs, k, f)}
<1>. SUFFICES ASSUME bad # {} PROVE FALSE
  OBVIOUS
<1>0. Len(rs) \in Nat /\ \A i \in 1..Len(rs) : rs[i] \in Int
  OBVIOUS
<1>1. PICK k \in bad : \A j \in bad : k <= j
  <2>1. bad \in SUBSET Nat
    BY <1>0
  <2>. HIDE DEF bad
  <2>. QED
    BY <2>1, LeastNatural
<1>2. k # 0
  <2>1. Sums(rs, 0, [i \in 0..0 |-> 0])
    BY DEF Sums
  <2>. QED
    BY <1>1, <2>1
<1>3. k - 1 \in 0..Len(rs) /\ k \in 1..Len(rs) /\ k - 1 \notin bad
  BY <1>0, <1>1, <1>2
<1>4. PICK f : Sums(rs, k - 1, f)
  BY <1>3
<1>. DEFINE g == [i \in 0..k |-> IF i = k THEN f[k - 1] + rs[k] ELSE f[i]]
<1>5. Sums(rs, k, g)
  <2>0. k \in Nat \ {0} /\ rs[k] \in Int
    BY <1>0, <1>3
  <2>1. f \in [0..k - 1 -> Int] /\ f[0] = 0
        /\ \A i \in 1..k - 1 : f[i] = f[i - 1] + rs[i]
    BY <1>4 DEF Sums
  <2>2. g \in [0..k -> Int] /\ g[0] = 0
    BY <2>0, <2>1
  <2>3. \A i \in 1..k : g[i] = g[i - 1] + rs[i]
    <3>. TAKE i \in 1..k
    <3>1. CASE i = k
      BY <2>0, <2>1, <3>1
    <3>2. CASE i # k
      <4>1. i \in 1..k - 1 /\ i \in 0..k /\ i - 1 \in 0..k /\ i - 1 # k
        BY <2>0, <3>2
      <4>. QED
        BY <2>1, <3>2, <4>1
    <3>. QED
      BY <3>1, <3>2
  <2>. QED
    BY <2>2, <2>3 DEF Sums
<1>. QED
  BY <1>1, <1>5

LEMMA TotalInt ==
  ASSUME NEW rs \in Seq(Int)
  PROVE  Total(rs) \in Int
<1>. DEFINE L == Len(rs)
            sum[i \in 0..L] == IF i = 0 THEN 0 ELSE sum[i - 1] + rs[i]
<1>0. L \in Nat /\ \A i \in 1..L : rs[i] \in Int
  OBVIOUS
<1>1. PICK f : Sums(rs, L, f)
  BY <1>0, SumsExist
<1>2. f = [i \in 0..L |-> IF i = 0 THEN 0 ELSE f[i - 1] + rs[i]]
  BY <1>0, <1>1 DEF Sums
<1>3. sum = [i \in 0..L |-> IF i = 0 THEN 0 ELSE sum[i - 1] + rs[i]]
  <2>. HIDE DEF L
  <2>. QED
    BY <1>2
<1>4. \A i \in 0..L : sum[i] \in Int
  <2>. DEFINE bad == {i \in 0..L : sum[i] \notin Int}
  <2>. SUFFICES ASSUME bad # {} PROVE FALSE
    OBVIOUS
  <2>. HIDE DEF sum
  <2>1. PICK k \in bad : \A j \in bad : k <= j
    <3>1. bad \in SUBSET Nat
      BY <1>0
    <3>. HIDE DEF bad
    <3>. QED
      BY <3>1, LeastNatural
  <2>2. CASE k = 0
    BY <1>0, <1>3, <2>1, <2>2
  <2>3. CASE k # 0
    <3>1. k \in 1..L /\ k - 1 \in 0..L /\ k - 1 \notin bad
      BY <1>0, <2>1, <2>3
    <3>2. sum[k] = sum[k - 1] + rs[k]
      <4>1. k \in 0..L
        BY <2>1
      <4>2. sum[k] = IF k = 0 THEN 0 ELSE sum[k - 1] + rs[k]
        <5>. HIDE DEF L, bad
        <5>. QED
          BY <1>3, <4>1
      <4>. QED
        BY <2>3, <4>2
    <3>. QED
      BY <1>0, <2>1, <3>1, <3>2
  <2>. QED
    BY <2>2, <2>3
<1>. QED
  <2>. HIDE DEF sum
  <2>1. sum[L] \in Int
    BY <1>0, <1>4
  <2>. QED
    BY <2>1 DEF Total, sum

LEMMA ObjectiveInt ==
  ASSUME NEW ps, NEW rs \in Seq(Int), Len(ps) \in Nat
  PROVE  Objective(ps, rs) \in Int
<1>. DEFINE valid == {i \in 1..Len(ps) : ps[i] # None}
            distinct == Cardinality({ps[i] : i \in valid})
            fresh == Cardinality({<<ps[i], rs[i]>> : i \in valid})
<1>1. IsFiniteSet(valid)
  <2>1. IsFiniteSet(1..Len(ps))
    BY FS_Interval
  <2>2. valid \subseteq 1..Len(ps)
    OBVIOUS
  <2>. HIDE DEF valid
  <2>. QED
    BY <2>1, <2>2, FS_Subset
<1>2. distinct \in Nat
  <2>. DEFINE f == [i \in valid |-> ps[i]]
  <2>1. {ps[i] : i \in valid} = {f[i] : i \in valid} /\ valid \subseteq DOMAIN f
    OBVIOUS
  <2>2. IsFiniteSet({f[i] : i \in valid})
    <3>. HIDE DEF f, valid
    <3>. QED
      BY <1>1, <2>1, ImageFinite
  <2>. QED
    BY <2>1, <2>2, FS_CardinalityType
<1>3. fresh \in Nat
  <2>. DEFINE f == [i \in valid |-> <<ps[i], rs[i]>>]
  <2>1. {<<ps[i], rs[i]>> : i \in valid} = {f[i] : i \in valid} /\ valid \subseteq DOMAIN f
    OBVIOUS
  <2>2. IsFiniteSet({f[i] : i \in valid})
    <3>. HIDE DEF f, valid
    <3>. QED
      BY <1>1, <2>1, ImageFinite
  <2>. QED
    BY <2>1, <2>2, FS_CardinalityType
<1>4. Objective(ps, rs) = Total(rs) + Diversity * distinct - Efficiency * (Len(rs) - fresh)
  BY DEF Objective
<1>. HIDE DEF distinct, fresh
<1>5. Total(rs) \in Int
  BY TotalInt
<1>6. Diversity * distinct \in Int
  BY <1>2, ConstantsAssumption
<1>7. Efficiency * (Len(rs) - fresh) \in Int
  BY <1>3, ConstantsAssumption
<1>. QED
  BY <1>4, <1>5, <1>6, <1>7

-----------------------------------------------------------------------------
(* What a replay pays is a function of the picks, and of nothing else: the  *)
(* picks so far give the cursor, and the cursor gives the next reward.      *)

CursorAfter(ps, i) == [n \in Nodes |-> Cardinality({j \in 1..i : ps[j] = n})]
PaidFor(ps) ==
  [i \in 1..Len(ps) |->
     IF ps[i] = None THEN 0 ELSE Reward(CursorAfter(ps, i - 1), ps[i])]

LEMMA CursorAfterNothing ==
  CursorAfter(<<>>, 0) = [n \in Nodes |-> 0] /\ PaidFor(<<>>) = <<>>
<1>1. \A n : {j \in 1..0 : <<>>[j] = n} = {}
  OBVIOUS
<1>2. Cardinality({}) = 0
  BY FS_EmptySet
<1>. QED
  BY <1>1, <1>2 DEF CursorAfter, PaidFor

LEMMA CursorOfPrefix ==
  ASSUME NEW ps, NEW qs, NEW i \in Nat, \A j \in 1..i : qs[j] = ps[j]
  PROVE  CursorAfter(qs, i) = CursorAfter(ps, i)
<1>1. \A n : {j \in 1..i : qs[j] = n} = {j \in 1..i : ps[j] = n}
  OBVIOUS
<1>. QED
  BY <1>1 DEF CursorAfter

LEMMA ReplayGrows ==
  \A ps \in Seq(Nodes \cup {None}), x \in Nodes \cup {None} :
    World =>
      /\ CursorAfter(Append(ps, x), Len(ps) + 1) =
           IF x = None THEN CursorAfter(ps, Len(ps))
           ELSE [CursorAfter(ps, Len(ps)) EXCEPT ![x] = @ + 1]
      /\ PaidFor(Append(ps, x)) =
           Append(PaidFor(ps), IF x = None THEN 0 ELSE Reward(CursorAfter(ps, Len(ps)), x))
<1>. SUFFICES ASSUME World, NEW ps \in Seq(Nodes \cup {None}),
                     NEW x \in Nodes \cup {None},
                     NEW c, c = CursorAfter(ps, Len(ps)),
                     NEW rs, rs = PaidFor(ps)
              PROVE  /\ CursorAfter(Append(ps, x), Len(ps) + 1) =
                          IF x = None THEN c ELSE [c EXCEPT ![x] = @ + 1]
                     /\ PaidFor(Append(ps, x)) =
                          Append(rs, IF x = None THEN 0 ELSE Reward(c, x))
  OBVIOUS
<1>. DEFINE L == Len(ps)
            qs == Append(ps, x)
            y == IF x = None THEN 0 ELSE Reward(c, x)
<1>0. /\ L \in Nat /\ Len(qs) = L + 1
      /\ \A j \in 1..L : qs[j] = ps[j]
      /\ qs[L + 1] = x
  OBVIOUS
<1>1. \A i \in 0..L : CursorAfter(qs, i) = CursorAfter(ps, i)
  <2>. TAKE i \in 0..L
  <2>1. i \in Nat /\ \A j \in 1..i : qs[j] = ps[j]
    BY <1>0
  <2>. QED
    BY <2>1, CursorOfPrefix
<1>2. \A n \in Nodes : n # None
  BY NodesFacts, ConstantsAssumption
<1>3. \A n \in Nodes : CursorAfter(qs, L + 1)[n] = IF x = n THEN c[n] + 1 ELSE c[n]
  <2>. TAKE n \in Nodes
  <2>. DEFINE old == {j \in 1..L : ps[j] = n}
              new == {j \in 1..L + 1 : qs[j] = n}
  <2>1. new = IF x = n THEN old \cup {L + 1} ELSE old
    BY <1>0
  <2>2. IsFiniteSet(old) /\ L + 1 \notin old
    <3>1. IsFiniteSet(1..L) /\ old \subseteq 1..L
      BY FS_Interval, <1>0
    <3>2. IsFiniteSet(old)
      <4>. HIDE DEF old
      <4>. QED
        BY <3>1, FS_Subset
    <3>. QED
      BY <3>2, <1>0
  <2>3. Cardinality(old \cup {L + 1}) = Cardinality(old) + 1
    <3>. HIDE DEF old
    <3>. QED
      BY <2>2, FS_AddElement
  <2>4. c[n] = Cardinality(old) /\ CursorAfter(qs, L + 1)[n] = Cardinality(new)
    BY DEF CursorAfter
  <2>. HIDE DEF old, new
  <2>. QED
    BY <2>1, <2>3, <2>4
<1>4. CursorAfter(qs, L + 1) = IF x = None THEN c ELSE [c EXCEPT ![x] = @ + 1]
  <2>. DEFINE d == CursorAfter(qs, L + 1)
  <2>1. d = [n \in Nodes |-> d[n]] /\ c = [n \in Nodes |-> c[n]]
    BY DEF CursorAfter
  <2>. HIDE DEF d
  <2>2. \A n \in Nodes : d[n] = IF x = n THEN c[n] + 1 ELSE c[n]
    BY <1>3 DEF d
  <2>3. d = IF x = None THEN c ELSE [c EXCEPT ![x] = @ + 1]
    BY <2>1, <2>2, <1>2
  <2>. QED
    BY <2>3 DEF d
<1>5. PaidFor(qs) = Append(rs, y)
  <2>1. \A i \in 1..L : PaidFor(qs)[i] = rs[i]
    <3>. TAKE i \in 1..L
    <3>1. i \in 1..L + 1 /\ i - 1 \in 0..L /\ qs[i] = ps[i]
      BY <1>0
    <3>. QED
      BY <1>0, <1>1, <3>1 DEF PaidFor
  <2>2. PaidFor(qs)[L + 1] = y
    <3>1. L + 1 \in 1..L + 1 /\ L + 1 - 1 = L /\ L \in 0..L
      BY <1>0
    <3>. QED
      BY <1>0, <1>1, <3>1 DEF PaidFor
  <2>3. PaidFor(qs) = [i \in 1..L + 1 |-> PaidFor(qs)[i]]
    BY <1>0 DEF PaidFor
  <2>4. Len(rs) = L /\ rs = [i \in 1..L |-> rs[i]]
    BY <1>0 DEF PaidFor
  <2>5. Append(rs, y) = [i \in 1..L + 1 |-> IF i = L + 1 THEN y ELSE rs[i]]
    <3>. HIDE DEF y
    <3>. QED
      BY <2>4, <1>0
  <2>. DEFINE paid == PaidFor(qs)
  <2>. HIDE DEF y, paid
  <2>6. \A i \in 1..L + 1 : paid[i] = IF i = L + 1 THEN y ELSE rs[i]
    BY <2>1, <2>2, <1>0 DEF paid
  <2>7. paid = [i \in 1..L + 1 |-> paid[i]]
    BY <2>3 DEF paid
  <2>8. paid = [i \in 1..L + 1 |-> IF i = L + 1 THEN y ELSE rs[i]]
    BY <2>6, <2>7
  <2>. QED
    BY <2>5, <2>8 DEF paid
<1>. QED
  BY <1>0, <1>4, <1>5

-----------------------------------------------------------------------------
(* The invariant.  Paying ties the cursor and the rewards to the picks;     *)
(* Grounded says that a pick that is a node was visible when it was made;   *)
(* FloorInv says what is known of the greedy replay that supplied the bar.  *)

Paying ==
  /\ cursor = CursorAfter(picks, Len(picks))
  /\ rewards = PaidFor(picks)
  /\ Len(picks) <= Horizon

GroundedPicks(ps) == \A i \in 1..Len(ps) : ps[i] # None => ps[i] \in Revealed(CursorAfter(ps, i - 1))
Grounded == GroundedPicks(picks)

PhaseInv ==
  /\ phase \in {"idle", "incumbent", "greedy"} => greedy = <<>> /\ calls = 0
  /\ phase = "ask" => calls <= MaxRepair
  /\ phase = "greedy" => picks \in Seq(Nodes)
  /\ phase # "done" => result = None

FloorInv ==
  greedy # <<>> =>
    /\ Len(greedy) = Horizon /\ GroundedPicks(greedy)
    /\ greedyPaid = PaidFor(greedy)
    /\ bar = Objective(greedy, greedyPaid)

PromotedElse == result # None => picks # greedy /\ Len(picks) = Horizon

Inv == World /\ TypeOK /\ Paying /\ Grounded /\ PhaseInv /\ FloorInv /\ PromotedElse

LEMMA HorizonNat ==
  ASSUME World
  PROVE  Horizon \in Nat \ {0}
<1>1. {n \in Nodes : parent[n] # 0} \subseteq Nodes /\ IsFiniteSet(Nodes)
  BY NodesFacts
<1>2. Steps \in Nat
  BY <1>1, FS_Subset, FS_CardinalityType DEF Steps
<1>. QED
  BY <1>2, ConstantsAssumption DEF Horizon

LEMMA GroundedGrows ==
  ASSUME NEW ps \in Seq(Nodes \cup {None}), NEW x \in Nodes \cup {None},
         GroundedPicks(ps), x # None => x \in Revealed(CursorAfter(ps, Len(ps)))
  PROVE  GroundedPicks(Append(ps, x))
<1>. DEFINE qs == Append(ps, x)
            L == Len(ps)
<1>1. /\ L \in Nat /\ Len(qs) = L + 1 /\ qs[L + 1] = x
      /\ \A j \in 1..L : qs[j] = ps[j]
  OBVIOUS
<1>. HIDE DEF qs
<1>2. ASSUME NEW i \in 1..L + 1, qs[i] # None
      PROVE  qs[i] \in Revealed(CursorAfter(qs, i - 1))
  <2>1. i - 1 \in Nat /\ \A j \in 1..i - 1 : qs[j] = ps[j]
    BY <1>1
  <2>2. CursorAfter(qs, i - 1) = CursorAfter(ps, i - 1)
    BY <2>1, CursorOfPrefix
  <2>3. CASE i = L + 1
    <3>1. i - 1 = L
      BY <1>1, <2>3
    <3>. QED
      BY <1>1, <1>2, <2>2, <2>3, <3>1
  <2>4. CASE i # L + 1
    <3>1. i \in 1..L
      BY <1>1, <2>4
    <3>. QED
      BY <1>1, <1>2, <2>2, <3>1 DEF GroundedPicks
  <2>. QED
    BY <2>3, <2>4
<1>. QED
  BY <1>1, <1>2 DEF GroundedPicks, qs

LEMMA SameWorld ==
  ASSUME UNCHANGED world
  PROVE  /\ Nodes' = Nodes /\ Horizon' = Horizon
         /\ World' <=> World
         /\ \A ps : PaidFor(ps)' = PaidFor(ps)
         /\ \A ps, i : CursorAfter(ps, i)' = CursorAfter(ps, i)
         /\ \A ps, rs : Objective(ps, rs)' = Objective(ps, rs)
         /\ \A c : Revealed(c)' = Revealed(c)
         /\ \A ps : GroundedPicks(ps)' <=> GroundedPicks(ps)
<1>. USE DEF world
<1>1. Nodes' = Nodes /\ Horizon' = Horizon
  BY DEF Nodes, Horizon, Steps
<1>2. World' <=> World
  BY DEF World
<1>3. \A n : Kids(n)' = Kids(n)
  BY <1>1 DEF Kids
<1>4. \A k : ChildIndex(k)' = ChildIndex(k)
  BY <1>3 DEF ChildIndex
<1>5. \A c, n : Reward(c, n)' = Reward(c, n)
  BY <1>3, <1>4 DEF Reward
<1>6. \A ps, i : CursorAfter(ps, i)' = CursorAfter(ps, i)
  BY <1>1 DEF CursorAfter
<1>7. \A ps : PaidFor(ps)' = PaidFor(ps)
  BY <1>5, <1>6 DEF PaidFor
<1>8. \A ps, rs : Objective(ps, rs)' = Objective(ps, rs)
  BY DEF Objective, Total
<1>9. \A c : Revealed(c)' = Revealed(c)
  BY <1>1, <1>4 DEF Revealed
<1>10. \A ps : GroundedPicks(ps)' <=> GroundedPicks(ps)
  BY <1>6, <1>9 DEF GroundedPicks
<1>. QED
  BY <1>1, <1>2, <1>6, <1>7, <1>8, <1>9, <1>10

(* A replay begins with nothing picked and nothing paid.                    *)
LEMMA LoadStep ==
  ASSUME World, UNCHANGED world, NEW p \in Sources \cup {None}, Load(p)
  PROVE  /\ candidate' \in Sources \cup {None}
         /\ cursor' \in [Nodes -> Nat]
         /\ picks' \in Seq(Nodes) /\ picks' \in Seq(Nodes \cup {None})
         /\ rewards' \in Seq(AnyScore) /\ Len(picks') = Len(rewards')
         /\ Paying' /\ Grounded'
<1>1. picks' = <<>> /\ rewards' = <<>> /\ cursor' = [n \in Nodes |-> 0]
      /\ candidate' = p
  BY DEF Load
<1>2. Paying'
  <2>1. Horizon' \in Nat
    BY HorizonNat, SameWorld
  <2>. QED
    BY <1>1, <2>1, CursorAfterNothing, SameWorld, Len(<<>>) = 0 DEF Paying
<1>3. Grounded'
  BY <1>1 DEF Grounded, GroundedPicks
<1>. QED
  BY <1>1, <1>2, <1>3

LEMMA PickStep ==
  ASSUME World, TypeOK, Paying, Grounded, UNCHANGED world,
         NEW x \in Nodes \cup {None}, Len(picks) < Horizon,
         x # None => x \in Revealed(cursor),
         picks' = Append(picks, x),
         rewards' = Append(rewards, IF x = None THEN 0 ELSE Reward(cursor, x)),
         cursor' = IF x = None THEN cursor ELSE [cursor EXCEPT ![x] = @ + 1]
  PROVE  /\ cursor' \in [Nodes -> Nat]
         /\ picks' \in Seq(Nodes \cup {None}) /\ rewards' \in Seq(AnyScore)
         /\ Len(picks') = Len(rewards')
         /\ (picks \in Seq(Nodes) /\ x # None => picks' \in Seq(Nodes))
         /\ Paying' /\ Grounded'
<1>1. cursor \in [Nodes -> Nat] /\ picks \in Seq(Nodes \cup {None})
      /\ rewards \in Seq(AnyScore) /\ Len(picks) = Len(rewards)
  BY DEF TypeOK
<1>2. (IF x = None THEN 0 ELSE Reward(cursor, x)) \in AnyScore
  BY <1>1, RewardRecorded, ConstantsAssumption DEF AnyScore
<1>3. cursor' \in [Nodes -> Nat]
  BY <1>1
<1>4. /\ picks' \in Seq(Nodes \cup {None}) /\ rewards' \in Seq(AnyScore)
      /\ Len(picks') = Len(rewards')
      /\ (picks \in Seq(Nodes) /\ x # None => picks' \in Seq(Nodes))
  BY <1>1, <1>2
<1>5. Paying'
  <2>0. /\ cursor = CursorAfter(picks, Len(picks)) /\ rewards = PaidFor(picks)
        /\ picks' = Append(picks, x) /\ Len(picks') = Len(picks) + 1
    BY <1>1 DEF Paying
  <2>1. /\ CursorAfter(Append(picks, x), Len(picks) + 1) =
             IF x = None THEN CursorAfter(picks, Len(picks))
             ELSE [CursorAfter(picks, Len(picks)) EXCEPT ![x] = @ + 1]
        /\ PaidFor(Append(picks, x)) =
             Append(PaidFor(picks),
                    IF x = None THEN 0 ELSE Reward(CursorAfter(picks, Len(picks)), x))
    BY <1>1, ReplayGrows
  <2>2. cursor' = CursorAfter(picks', Len(picks')) /\ rewards' = PaidFor(picks')
    BY <2>0, <2>1
  <2>3. Len(picks') <= Horizon'
    <3>1. Len(picks) \in Nat /\ Horizon \in Nat /\ Horizon' = Horizon
      BY <1>1, HorizonNat, SameWorld
    <3>. QED
      BY <2>0, <3>1
  <2>. QED
    BY <2>2, <2>3, SameWorld DEF Paying
<1>6. Grounded'
  <2>1. GroundedPicks(Append(picks, x))
    BY <1>1, GroundedGrows DEF Paying, Grounded
  <2>. QED
    BY <2>1, SameWorld DEF Grounded
<1>. QED
  BY <1>3, <1>4, <1>5, <1>6

LEMMA IntRewards ==
  ASSUME TypeOK
  PROVE  rewards \in Seq(Int) /\ Len(picks) \in Nat
<1>1. rewards \in Seq(AnyScore) /\ AnyScore \subseteq Int
  BY ConstantsAssumption DEF TypeOK, AnyScore
<1>2. picks \in Seq(Nodes \cup {None})
  BY DEF TypeOK
<1>3. rewards \in Seq(Int)
  BY <1>1, SeqMonotonic
<1>. QED
  BY <1>2, <1>3

LEMMA InitInv == Init => Inv
<1>. SUFFICES ASSUME Init PROVE Inv
  OBVIOUS
<1>1. World
  <2>1. PICK size \in 1..MaxNodes :
          /\ parent \in {p \in [1..size -> 0..size - 1] :
                           p[1] = 0 /\ \A n \in 2..size : p[n] \in 1..n - 1}
          /\ score \in {s \in [1..size -> AnyScore] :
                         s[1] \in SeedScores /\ \A n \in 2..size : s[n] \in Scores}
    BY DEF Init
  <2>2. size \in Nat \ {0}
    BY ConstantsAssumption
  <2>. QED
    BY <2>1, <2>2 DEF World, Init
<1>2. TypeOK
  BY ConstantsAssumption DEF Init, TypeOK
<1>3. Paying
  BY <1>1, HorizonNat, CursorAfterNothing, Len(<<>>) = 0 DEF Init, Paying
<1>4. PhaseInv /\ FloorInv /\ PromotedElse
  BY DEF Init, PhaseInv, FloorInv, PromotedElse
<1>5. Grounded
  BY DEF Init, Grounded, GroundedPicks
<1>. QED
  BY <1>1, <1>2, <1>3, <1>4, <1>5 DEF Inv

LEMMA StepInv == Inv /\ [Next]_vars => Inv'
<1>. SUFFICES ASSUME Inv, [Next]_vars PROVE Inv'
  OBVIOUS
<1>. USE DEF Inv
<1>0. UNCHANGED world
  BY DEF Next, vars, TooYoung, BeginIncumbent, BeginGreedy, GreedyStep, GreedyScored,
         ReplyRaises, ReplyUnusable, ReplyProgram, PickNode, PickInvalid,
         ReplayFails, BelowValidity, NoScore, IncumbentScored, CandidateScored
<1>1. World' /\ Nodes' = Nodes /\ incumbent' = incumbent
  BY <1>0, SameWorld DEF world
<1>2. MaxRepair \in Nat /\ Horizon \in Nat \ {0} /\ Horizon' = Horizon
  BY <1>0, HorizonNat, SameWorld, ConstantsAssumption
<1>3. UNCHANGED floor => FloorInv' /\ UNCHANGED <<bar, greedy, greedyPaid>>
  BY <1>0, SameWorld DEF FloorInv, floor
<1>4. UNCHANGED replay => Paying' /\ Grounded'
  BY <1>0, SameWorld DEF Paying, Grounded, replay
<1>5. result' = None => PromotedElse'
  BY DEF PromotedElse
<1>6. CASE TooYoung
  BY <1>0, <1>1, <1>3, <1>4, <1>5, <1>6
     DEF TooYoung, TypeOK, PhaseInv, replay
<1>7. ASSUME phase \in {"idle", "incumbent"}, UseGreedy,
             UNCHANGED <<world, floor, calls, result>>
      PROVE  Inv'
  <2>1. Load(None)
    BY <1>7 DEF UseGreedy
  <2>. QED
    BY <1>0, <1>1, <1>3, <1>5, <1>7, <2>1, LoadStep
       DEF UseGreedy, TypeOK, PhaseInv
<1>8. CASE BeginIncumbent
  <2>1. Load(incumbent) /\ incumbent \in Sources \cup {None}
    BY <1>8 DEF BeginIncumbent, TypeOK
  <2>. QED
    BY <1>0, <1>1, <1>3, <1>5, <1>8, <2>1, LoadStep
       DEF BeginIncumbent, TypeOK, PhaseInv
<1>9. CASE BeginGreedy
  BY <1>7, <1>9 DEF BeginGreedy
<1>10. CASE GreedyStep
  <2>1. cursor \in [Nodes -> Nat] /\ picks \in Seq(Nodes)
    BY <1>10 DEF GreedyStep, TypeOK, PhaseInv
  <2>. DEFINE n == GreedyPick(cursor)
  <2>2. n \in Nodes /\ n # None /\ n \in Revealed(cursor)
    BY <2>1, GreedyPickRevealed, NodesFacts, ConstantsAssumption
  <2>3. /\ picks' = Append(picks, n) /\ rewards' = Append(rewards, Reward(cursor, n))
        /\ cursor' = [cursor EXCEPT ![n] = @ + 1] /\ Len(picks) < Horizon
    <3>1. SimulatedReward(cursor, n) = Reward(cursor, n)
      BY <2>1, <2>2, CopiesAgree
    <3>. QED
      BY <1>10, <3>1 DEF GreedyStep
  <2>. HIDE DEF n
  <2>4. /\ cursor' \in [Nodes -> Nat]
        /\ picks' \in Seq(Nodes \cup {None}) /\ rewards' \in Seq(AnyScore)
        /\ Len(picks') = Len(rewards') /\ picks' \in Seq(Nodes) /\ Paying' /\ Grounded'
    BY <1>0, <2>1, <2>2, <2>3, PickStep
  <2>5. UNCHANGED <<phase, candidate, floor, calls, result>> /\ phase = "greedy"
    BY <1>10 DEF GreedyStep
  <2>. QED
    BY <1>1, <1>3, <1>5, <2>4, <2>5 DEF TypeOK, PhaseInv
<1>11. CASE GreedyScored
  <2>1. /\ Load(None) /\ greedy' = picks /\ bar' = Objective(picks, rewards)
        /\ greedyPaid' = rewards /\ Len(picks) = Horizon /\ phase = "greedy" /\ phase' = "ask" /\ UNCHANGED <<calls, result>>
    BY <1>11 DEF GreedyScored
  <2>2. picks \in Seq(Nodes) /\ rewards \in Seq(Int) /\ Len(picks) \in Nat
    BY <2>1, IntRewards DEF PhaseInv
  <2>3. bar' \in Int
    BY <2>1, <2>2, ObjectiveInt
  <2>4. FloorInv'
    BY <1>0, <2>1, SameWorld DEF FloorInv, Paying, Grounded
  <2>. QED
    BY <1>0, <1>1, <1>2, <1>5, <2>1, <2>2, <2>3, <2>4, LoadStep DEF TypeOK, PhaseInv
<1>12. CASE ReplyRaises
  BY <1>0, <1>1, <1>3, <1>4, <1>5, <1>12
     DEF ReplyRaises, TypeOK, PhaseInv, replay
<1>13. CASE ReplyUnusable
  <2>1. calls' \in 0..MaxRepair + 1 /\ (phase' = "ask" => calls' <= MaxRepair)
    BY <1>2, <1>13 DEF ReplyUnusable, RetryOrEnd, TypeOK, PhaseInv
  <2>. QED
    BY <1>0, <1>1, <1>3, <1>4, <1>5, <1>13, <2>1
       DEF ReplyUnusable, RetryOrEnd, TypeOK, PhaseInv, replay
<1>14. ASSUME NEW p \in Sources, ReplyProgram(p) PROVE Inv'
  <2>1. calls' \in 0..MaxRepair + 1
    BY <1>2, <1>14 DEF ReplyProgram, TypeOK, PhaseInv
  <2>2. Load(p) /\ p \in Sources \cup {None}
    BY <1>14 DEF ReplyProgram
  <2>. QED
    BY <1>0, <1>1, <1>3, <1>5, <1>14, <2>1, <2>2, LoadStep
       DEF ReplyProgram, TypeOK, PhaseInv
<1>15. ASSUME NEW n \in Nodes, PickNode(n) PROVE Inv'
  <2>1. n # None
    BY NodesFacts, ConstantsAssumption
  <2>2. picks' = Append(picks, n) /\ rewards' = Append(rewards, Reward(cursor, n))
        /\ cursor' = [cursor EXCEPT ![n] = @ + 1]
        /\ n \in Revealed(cursor) /\ Len(picks) < Horizon
    BY <1>15 DEF PickNode, Running
  <2>3. /\ cursor' \in [Nodes -> Nat]
        /\ picks' \in Seq(Nodes \cup {None}) /\ rewards' \in Seq(AnyScore)
        /\ Len(picks') = Len(rewards') /\ Paying' /\ Grounded'
    BY <1>0, <2>1, <2>2, PickStep
  <2>4. UNCHANGED <<phase, candidate, floor, calls, result>>
        /\ phase \in {"incumbent", "candidate"}
    BY <1>15 DEF PickNode, Running
  <2>. QED
    BY <1>1, <1>3, <1>5, <2>3, <2>4 DEF TypeOK, PhaseInv
<1>16. CASE PickInvalid
  <2>1. picks' = Append(picks, None) /\ rewards' = Append(rewards, 0)
        /\ cursor' = cursor /\ Len(picks) < Horizon
    BY <1>16 DEF PickInvalid, Running
  <2>2. /\ cursor' \in [Nodes -> Nat]
        /\ picks' \in Seq(Nodes \cup {None}) /\ rewards' \in Seq(AnyScore)
        /\ Len(picks') = Len(rewards') /\ Paying' /\ Grounded'
    BY <1>0, <2>1, PickStep
  <2>3. UNCHANGED <<phase, candidate, floor, calls, result>>
        /\ phase \in {"incumbent", "candidate"}
    BY <1>16 DEF PickInvalid, Running
  <2>. QED
    BY <1>1, <1>3, <1>5, <2>2, <2>3 DEF TypeOK, PhaseInv
<1>17. CASE NoScore
  <2>1. CASE phase = "incumbent" /\ UseGreedy
    BY <1>7, <1>17, <2>1 DEF NoScore
  <2>2. CASE phase = "candidate" /\ RetryOrEnd(calls) /\ UNCHANGED replay
    BY <1>0, <1>1, <1>2, <1>3, <1>4, <1>5, <1>17, <2>2
       DEF NoScore, RetryOrEnd, TypeOK, PhaseInv, replay
  <2>. QED
    BY <1>17, <2>1, <2>2 DEF NoScore
<1>18. CASE IncumbentScored
  <2>1. /\ Load(None) /\ bar' = Objective(picks, rewards)
        /\ phase = "incumbent" /\ phase' = "ask" /\ UNCHANGED <<greedy, greedyPaid, calls, result>>
    BY <1>18 DEF IncumbentScored
  <2>2. rewards \in Seq(Int) /\ Len(picks) \in Nat
    BY IntRewards
  <2>3. bar' \in Int
    BY <2>1, <2>2, ObjectiveInt
  <2>4. FloorInv'
    BY <2>1 DEF FloorInv, PhaseInv
  <2>. QED
    BY <1>0, <1>1, <1>2, <1>5, <2>1, <2>2, <2>3, <2>4, LoadStep DEF TypeOK, PhaseInv
<1>19. CASE CandidateScored
  <2>1. /\ phase = "candidate" /\ phase' = "done" /\ Len(picks) = Horizon
        /\ result' \in {candidate, None}
        /\ UNCHANGED <<replay, floor, calls>>
    BY <1>19 DEF CandidateScored, Finished
  <2>2. ASSUME result' # None
        PROVE  picks # greedy
    <3>1. Objective(picks, rewards) > bar
      BY <1>19, <2>2 DEF CandidateScored, Beats
    <3>2. rewards \in Seq(Int) /\ Len(picks) \in Nat
      BY IntRewards
    <3>3. Objective(picks, rewards) \in Int
      BY <3>2, ObjectiveInt
    <3>4. ASSUME picks = greedy PROVE FALSE
      <4>1. picks # <<>>
        BY <1>2, <2>1
      <4>2. bar = Objective(picks, rewards)
        BY <3>4, <4>1 DEF FloorInv, Paying
      <4>. QED
        BY <3>1, <3>3, <4>2
    <3>. QED
      BY <3>1, <3>4
  <2>3. PromotedElse'
    <3>1. Horizon' = Horizon /\ picks' = picks /\ greedy' = greedy
      BY <1>2, <2>1 DEF replay, floor
    <3>. QED
      BY <2>1, <2>2, <3>1 DEF PromotedElse
  <2>. QED
    BY <1>0, <1>1, <1>3, <1>4, <2>1, <2>3 DEF TypeOK, PhaseInv, replay
<1>20. CASE UNCHANGED vars
  <2>1. UNCHANGED <<replay, phase, floor, calls, result>>
    BY <1>20 DEF vars
  <2>2. PromotedElse'
    BY <1>2, <2>1 DEF PromotedElse, replay, floor
  <2>. QED
    BY <1>1, <1>3, <1>4, <2>1, <2>2 DEF TypeOK, PhaseInv, replay
<1>. QED
  BY <1>6, <1>8, <1>9, <1>10, <1>11, <1>12, <1>13, <1>14, <1>15, <1>16, <1>17,
     <1>18, <1>19, <1>20 DEF Next, ReplayFails, BelowValidity

(* Every variable keeps its type: in particular the greedy policy always    *)
(* picks a node, and every replay pays recorded scores                      *)
(* (policygen.py:206-282 and 479-533).                                      *)
THEOREM RolloutTyped == Spec => []TypeOK
<1>1. Inv => TypeOK
  BY DEF Inv
<1>. QED
  BY <1>1, InitInv, StepInv, PTL DEF Spec

(* What is known of a candidate that so far does what the greedy replay did. *)
LEMMA Agreement == Inv => ReplaysAgree
<1>. SUFFICES ASSUME Inv, OnGreedyPath
              PROVE  /\ \A i \in DOMAIN picks : rewards[i] = greedyPaid[i]
                     /\ Len(picks) < Horizon => greedy[Len(picks) + 1] \in Revealed(cursor)
                     /\ result = None
  BY DEF ReplaysAgree
<1>1. /\ Horizon \in Nat \ {0} /\ Len(greedy) = Horizon /\ greedy \in Seq(Nodes)
      /\ picks \in Seq(Nodes \cup {None}) /\ Len(picks) \in Nat /\ Len(picks) <= Horizon
      /\ greedyPaid = PaidFor(greedy) /\ rewards = PaidFor(picks)
      /\ cursor = CursorAfter(picks, Len(picks)) /\ GroundedPicks(greedy)
  BY HorizonNat DEF Inv, TypeOK, Paying, FloorInv, OnGreedyPath
<1>2. DOMAIN picks = 1..Len(picks) /\ \A i \in 1..Len(picks) : picks[i] = greedy[i]
  BY <1>1 DEF OnGreedyPath
<1>3. \A i \in 0..Len(picks) : CursorAfter(picks, i) = CursorAfter(greedy, i)
  <2>. TAKE i \in 0..Len(picks)
  <2>1. i \in Nat /\ \A j \in 1..i : picks[j] = greedy[j]
    BY <1>1, <1>2
  <2>. QED
    BY <2>1, CursorOfPrefix
<1>4. \A i \in DOMAIN picks : rewards[i] = greedyPaid[i]
  <2>. TAKE i \in DOMAIN picks
  <2>1. i \in 1..Len(picks) /\ i \in 1..Len(greedy) /\ i - 1 \in 0..Len(picks)
    BY <1>1, <1>2
  <2>2. picks[i] = greedy[i] /\ CursorAfter(picks, i - 1) = CursorAfter(greedy, i - 1)
    BY <1>2, <1>3, <2>1
  <2>3. PaidFor(picks)[i] = PaidFor(greedy)[i]
    BY <2>1, <2>2 DEF PaidFor
  <2>. QED
    BY <1>1, <2>3
<1>5. ASSUME Len(picks) < Horizon
      PROVE  greedy[Len(picks) + 1] \in Revealed(cursor)
  <2>. DEFINE i == Len(picks) + 1
  <2>1. i \in 1..Len(greedy) /\ i - 1 = Len(picks) /\ Len(picks) \in 0..Len(picks)
    BY <1>1, <1>5
  <2>2. greedy[i] \in Nodes /\ greedy[i] # None
    <3>1. greedy[i] \in Nodes
      BY <1>1, <2>1
    <3>. QED
      BY <3>1, NodesFacts, ConstantsAssumption DEF Inv
  <2>3. greedy[i] \in Revealed(CursorAfter(greedy, i - 1))
    BY <1>1, <2>1, <2>2 DEF GroundedPicks
  <2>. QED
    BY <1>1, <1>3, <2>1, <2>3
<1>6. result = None
  <2>. SUFFICES ASSUME Len(picks) = Horizon, picks # greedy PROVE FALSE
    BY DEF Inv, PromotedElse
  <2>1. \A i \in 1..Horizon : picks[i] = greedy[i]
    BY <1>2
  <2>2. /\ picks = [i \in 1..Horizon |-> picks[i]]
        /\ greedy = [i \in 1..Horizon |-> greedy[i]]
    BY <1>1
  <2>. QED
    BY <2>1, <2>2
<1>. QED
  BY <1>4, <1>5, <1>6

(* Whatever the tree, the scores and the weights of the objective: the two  *)
(* copies of the replay agree along the greedy replay's picks, and a program *)
(* that makes those picks to the end is not promoted (policygen.py:206-282, *)
(* 479-533 and 722-822).                                                    *)
THEOREM RolloutReplaysAgree == Spec => []ReplaysAgree
<1>. QED
  BY Agreement, InitInv, StepInv, PTL DEF Spec

-----------------------------------------------------------------------------
(* The rule of visibility and the rule of payment.                          *)

RevealStep ==
  Len(rewards') = Len(rewards) + 1 =>
    /\ Revealed(cursor) \subseteq Revealed(cursor')
    /\ \A k \in Revealed(cursor') \ Revealed(cursor) :
         /\ Revealed(cursor') = Revealed(cursor) \cup {k}
         /\ rewards'[Len(rewards')] = score[k]

LEMMA ExpansionStep ==
  ASSUME Inv, NEW n \in Nodes,
         rewards' = Append(rewards, Reward(cursor, n)),
         cursor' = [cursor EXCEPT ![n] = @ + 1]
  PROVE  RevealStep
<1>1. cursor \in [Nodes -> Nat] /\ rewards \in Seq(Int) /\ World
  BY IntRewards DEF Inv, TypeOK
<1>2. rewards'[Len(rewards')] = Reward(cursor, n)
  BY <1>1
<1>3. /\ Revealed(cursor) \subseteq Revealed(cursor')
      /\ \A k \in Revealed(cursor') \ Revealed(cursor) :
           /\ Revealed(cursor') = Revealed(cursor) \cup {k}
           /\ Reward(cursor, n) = score[k]
  BY <1>1, Expansion
<1>. QED
  BY <1>2, <1>3 DEF RevealStep

LEMMA RevealInv == Inv /\ [Next]_vars => RevealStep
<1>. SUFFICES ASSUME Inv, [Next]_vars PROVE RevealStep
  OBVIOUS
<1>1. rewards \in Seq(Int) /\ cursor \in [Nodes -> Nat] /\ World
  BY IntRewards DEF Inv, TypeOK
<1>2. ASSUME rewards' = rewards \/ rewards' = <<>>
      PROVE  RevealStep
  BY <1>1, <1>2 DEF RevealStep
<1>3. CASE GreedyStep
  <2>1. /\ GreedyPick(cursor) \in Nodes
        /\ SimulatedReward(cursor, GreedyPick(cursor)) = Reward(cursor, GreedyPick(cursor))
    BY <1>1, GreedyPickRevealed, CopiesAgree
  <2>. QED
    BY <1>3, <2>1, ExpansionStep DEF GreedyStep
<1>4. ASSUME NEW n \in Nodes, PickNode(n) PROVE RevealStep
  BY <1>4, ExpansionStep DEF PickNode
<1>5. CASE PickInvalid
  BY <1>5 DEF PickInvalid, RevealStep
<1>6. CASE NoScore
  BY <1>2, <1>6 DEF NoScore, UseGreedy, Load, replay
<1>7. CASE TooYoung \/ ReplyRaises \/ ReplyUnusable \/ CandidateScored \/ UNCHANGED vars
  BY <1>2, <1>7 DEF TooYoung, ReplyRaises, ReplyUnusable, CandidateScored, vars, replay
<1>8. CASE BeginIncumbent \/ BeginGreedy \/ GreedyScored \/ IncumbentScored
  BY <1>2, <1>8 DEF BeginIncumbent, BeginGreedy, UseGreedy, GreedyScored, IncumbentScored, Load
<1>9. ASSUME NEW p \in Sources, ReplyProgram(p) PROVE RevealStep
  BY <1>2, <1>9 DEF ReplyProgram, Load
<1>. QED
  BY <1>3, <1>4, <1>5, <1>6, <1>7, <1>8, <1>9 DEF Next, ReplayFails, BelowValidity

(* In every recorded tree an expansion reveals at most one node and pays    *)
(* the score of the node it reveals (policygen.py:496-532).                 *)
THEOREM RolloutRevealsWhatItPays == Spec => RevealsWhatItPays
<1>1. Inv /\ [Next]_vars => [RevealStep]_vars
  BY RevealInv
<1>. QED
  BY <1>1, InitInv, StepInv, PTL DEF Spec, RevealsWhatItPays, RevealStep

(* A node is recorded after its parent.                                    *)
LEMMA ParentFirst ==
  ASSUME World, NEW m \in Nodes, parent[m] # 0
  PROVE  parent[m] < m /\ parent[m] \in Nat /\ m \in Nat
<1>1. PICK size \in Nat \ {0} :
        /\ parent \in [1..size -> 0..size - 1]
        /\ parent[1] = 0
        /\ \A n \in 2..size : parent[n] \in 1..n - 1
  BY DEF World
<1>2. m \in 1..size /\ m # 1
  BY <1>1 DEF Nodes
<1>3. m \in 2..size
  BY <1>2
<1>. QED
  BY <1>1, <1>3
-----------------------------------------------------------------------------
(* Who descends from whom.  The ancestors of a node are what every set that *)
(* is closed under parents and has the node must have, so that what one     *)
(* knows of them from below and from above needs no induction over the      *)
(* tree.                                                                    *)

Closed(A) == \A k \in A : parent[k] # 0 => parent[k] \in A
Ancestors(j) == {n \in Nodes : \A A \in SUBSET Nodes : Closed(A) /\ j \in A => n \in A}

LEMMA AncestorsClosed ==
  ASSUME World, NEW j \in Nodes
  PROVE  /\ Ancestors(j) \in SUBSET Nodes /\ j \in Ancestors(j) /\ Closed(Ancestors(j))
         /\ \A A \in SUBSET Nodes : Closed(A) /\ j \in A => Ancestors(j) \subseteq A
<1>1. \A n \in Nodes : parent[n] # 0 => parent[n] \in Nodes
  BY NodesFacts
<1>. QED
  BY <1>1, Zenon DEF Ancestors, Closed

(* From below: the node itself, or an ancestor of its parent.               *)
LEMMA AncestorsOfParent ==
  ASSUME World, NEW j \in Nodes, NEW n \in Nodes
  PROVE  n \in Ancestors(j) <=> n = j \/ (parent[j] # 0 /\ n \in Ancestors(parent[j]))
<1>. DEFINE p == parent[j]
<1>1. p # 0 => p \in Nodes
  BY NodesFacts
<1>2. ASSUME n \in Ancestors(j), n # j
      PROVE  p # 0 /\ n \in Ancestors(p)
  <2>1. CASE p = 0
    <3>1. Closed({j}) /\ {j} \in SUBSET Nodes
      BY <2>1 DEF Closed
    <3>2. Ancestors(j) \subseteq {j}
      BY <3>1, AncestorsClosed
    <3>. QED
      BY <1>2, <3>2
  <2>2. CASE p # 0
    <3>. DEFINE A == {j} \cup Ancestors(p)
    <3>1. /\ Ancestors(p) \in SUBSET Nodes /\ p \in Ancestors(p) /\ Closed(Ancestors(p))
      BY <1>1, <2>2, AncestorsClosed
    <3>2. A \in SUBSET Nodes /\ j \in A
      BY <3>1
    <3>3. Closed(A)
      BY <3>1 DEF Closed
    <3>4. Ancestors(j) \subseteq A
      BY <3>2, <3>3, AncestorsClosed
    <3>. QED
      BY <1>2, <2>2, <3>4
  <2>. QED
    BY <2>1, <2>2
<1>3. ASSUME p # 0, n \in Ancestors(p) PROVE n \in Ancestors(j)
  <2>1. p \in Ancestors(j) /\ Closed(Ancestors(j)) /\ Ancestors(j) \in SUBSET Nodes
    BY <1>3, AncestorsClosed DEF Closed
  <2>2. Ancestors(p) \subseteq Ancestors(j)
    BY <1>1, <1>3, <2>1, AncestorsClosed
  <2>. QED
    BY <1>3, <2>2
<1>. QED
  BY <1>2, <1>3, AncestorsClosed

(* From above: an ancestor that is not the node is the parent of another.   *)
LEMMA AncestorsKid ==
  ASSUME World, NEW j \in Nodes, NEW n \in Ancestors(j), n # j
  PROVE  \E k \in Kids(n) : k \in Ancestors(j)
<1>. SUFFICES ASSUME \A k \in Ancestors(j) : parent[k] # n PROVE FALSE
  BY AncestorsClosed DEF Kids
<1>. DEFINE A == Ancestors(j) \ {n}
<1>1. A \in SUBSET Nodes /\ j \in A /\ Closed(A)
  BY AncestorsClosed DEF Closed
<1>2. Ancestors(j) \subseteq A
  <2>. HIDE DEF A
  <2>. QED
    BY <1>1, AncestorsClosed
<1>. QED
  BY <1>2

LEMMA DescendsAncestors ==
  ASSUME World, NEW k \in Nodes, NEW n \in Nodes
  PROVE  Descends(k, n) <=> n \in Ancestors(k)
<1>. DEFINE up[j \in Nodes] == j = n \/ (parent[j] # 0 /\ up[parent[j]])
            f == [j \in Nodes |-> n \in Ancestors(j)]
<1>0. \A j \in Nodes : parent[j] # 0 => parent[j] \in Nodes
  BY NodesFacts
<1>1. \A j \in Nodes : n \in Ancestors(j)
                       <=> j = n \/ (parent[j] # 0 /\ n \in Ancestors(parent[j]))
  BY AncestorsOfParent
<1>2. f = [j \in Nodes |-> j = n \/ (parent[j] # 0 /\ f[parent[j]])]
  <2>1. f = [j \in Nodes |-> f[j]] /\ \A j \in Nodes : f[j] = (n \in Ancestors(j))
    BY Zenon
  <2>. HIDE DEF f
  <2>2. \A j \in Nodes : parent[j] # 0 => (f[parent[j]] <=> n \in Ancestors(parent[j]))
    BY <1>0, <2>1, Zenon
  <2>3. ASSUME NEW j \in Nodes
        PROVE  f[j] = (j = n \/ (parent[j] # 0 /\ f[parent[j]]))
    <3>1. f[j] = (n \in Ancestors(j))
      BY <2>1, Zenon
    <3>2. n \in Ancestors(j) <=> j = n \/ (parent[j] # 0 /\ f[parent[j]])
      BY <1>1, <2>2, Zenon
    <3>3. (n \in Ancestors(j)) = (j = n \/ (parent[j] # 0 /\ f[parent[j]]))
      BY <3>2, SMT
    <3>. QED
      BY <3>1, <3>3, Zenon
  <2>. QED
    BY <2>1, <2>3, Zenon
<1>3. up = [j \in Nodes |-> j = n \/ (parent[j] # 0 /\ up[parent[j]])]
  <2>. HIDE DEF f
  <2>. QED
    BY <1>2
<1>. HIDE DEF up, f
<1>4. \A j \in Nodes : up[j] <=> j = n \/ (parent[j] # 0 /\ up[parent[j]])
  BY <1>3, Zenon
<1>5. \A j \in Nodes : up[j] <=> n \in Ancestors(j)
  <2>. DEFINE bad == {j \in Nodes : ~ (up[j] <=> n \in Ancestors(j))}
  <2>. SUFFICES ASSUME bad # {} PROVE FALSE
    BY Zenon
  <2>1. PICK m \in bad : \A j \in bad : m <= j
    <3>1. bad \in SUBSET Nat
      BY NodesFacts
    <3>. HIDE DEF bad
    <3>. QED
      BY <3>1, LeastNatural
  <2>2. m \in Nodes /\ ~ (up[m] <=> n \in Ancestors(m))
    BY <2>1, Zenon
  <2>3. parent[m] # 0 => parent[m] \notin bad
    <3>1. parent[m] # 0 => parent[m] < m /\ parent[m] \in Nat /\ m \in Nat
      BY <2>2, ParentFirst
    <3>. HIDE DEF bad
    <3>. QED
      BY <2>1, <3>1
  <2>4. parent[m] # 0 => (up[parent[m]] <=> n \in Ancestors(parent[m]))
    BY <1>0, <2>2, <2>3, Zenon
  <2>. QED
    BY <1>1, <1>4, <2>2, <2>4, Zenon
<1>6. Descends(k, n) <=> up[k]
  BY Zenon DEF Descends, up
<1>. QED
  BY <1>5, <1>6, Zenon

-----------------------------------------------------------------------------
(* What a branch has shown.  Below(c, n) is n and what the cursor has       *)
(* revealed under it; its best score obeys the recurrence that AsOf         *)
(* computes, provided that only what is revealed has been expanded.         *)

Below(c, n) == {n} \cup {j \in Revealed(c) : n \in Ancestors(j)}
Best(c, n) == Max({score[j] : j \in Below(c, n)})
OnlyRevealed(c) == \A n \in Nodes : c[n] > 0 => n \in Revealed(c)

LEMMA Greatest ==
  ASSUME NEW S \in SUBSET Nat, IsFiniteSet(S), NEW m \in S, \A y \in S : m >= y
  PROVE  Max(S) = m
<1>1. Max(S) \in S /\ \A y \in S : Max(S) >= y
  BY MaxProperties
<1>2. Max(S) \in Nat /\ m \in Nat /\ Max(S) >= m /\ m >= Max(S)
  BY <1>1
<1>. QED
  BY <1>2

LEMMA BestProperties ==
  ASSUME World, NEW c, NEW n \in Nodes
  PROVE  /\ Below(c, n) \subseteq Nodes /\ n \in Below(c, n)
         /\ Best(c, n) \in Nat
         /\ \E j \in Below(c, n) : Best(c, n) = score[j]
         /\ \A j \in Below(c, n) : Best(c, n) >= score[j]
         /\ IsFiniteSet({score[j] : j \in Below(c, n)})
         /\ {score[j] : j \in Below(c, n)} \in SUBSET Nat
<1>. DEFINE B == Below(c, n)
            V == {score[j] : j \in B}
<1>1. B \subseteq Nodes /\ n \in B
  BY DEF Below, Revealed
<1>. HIDE DEF B
<1>2. IsFiniteSet(B) /\ B \subseteq DOMAIN score
  BY <1>1, NodesFacts, FS_Subset
<1>3. IsFiniteSet(V)
  BY <1>2, ImageFinite
<1>4. V \in SUBSET Nat /\ V # {}
  BY <1>1, NodesFacts
<1>5. Max(V) \in V /\ \A v \in V : Max(V) >= v
  <2>. HIDE DEF V
  <2>. QED
    BY <1>3, <1>4, MaxProperties
<1>6. Best(c, n) = Max(V)
  BY DEF Best, B
<1>. QED
  BY <1>1, <1>3, <1>4, <1>5, <1>6 DEF B

(* The parent of what is revealed is revealed.                              *)
LEMMA RevealedClosed ==
  ASSUME World, NEW c \in [Nodes -> Nat], OnlyRevealed(c)
  PROVE  Revealed(c) \in SUBSET Nodes /\ Closed(Revealed(c))
<1>. SUFFICES ASSUME NEW k \in Nodes, parent[k] # 0, c[parent[k]] > ChildIndex(k)
              PROVE  parent[k] \in Revealed(c)
  BY DEF Closed, Revealed
<1>1. parent[k] \in Nodes /\ ChildIndex(k) \in Nat
  BY NodesFacts, ChildIndexNat
<1>2. c[parent[k]] > 0
  BY <1>1
<1>. QED
  BY <1>1, <1>2 DEF OnlyRevealed

LEMMA NodesPositive ==
  ASSUME World, NEW n \in Nodes
  PROVE  n # 0
<1>1. PICK size \in Nat \ {0} : parent \in [1..size -> 0..size - 1]
  BY DEF World
<1>. QED
  BY <1>1 DEF Nodes

LEMMA BelowKids ==
  ASSUME World, NEW c \in [Nodes -> Nat], OnlyRevealed(c), NEW n \in Nodes
  PROVE  /\ \A k \in Kids(n) \cap Revealed(c) : Below(c, k) \subseteq Below(c, n)
         /\ \A j \in Below(c, n) :
              j = n \/ \E k \in Kids(n) \cap Revealed(c) : j \in Below(c, k)
<1>1. ASSUME NEW k \in Kids(n) \cap Revealed(c), NEW j \in Below(c, k)
      PROVE  j \in Below(c, n)
  <2>1. j \in Nodes /\ k \in Nodes /\ parent[k] = n /\ n # 0 /\ j \in Revealed(c)
        /\ k \in Ancestors(j)
    <3>1. k \in Nodes /\ parent[k] = n
      BY DEF Kids
    <3>2. n # 0
      BY NodesFacts, NodesPositive
    <3>3. k \in Ancestors(k)
      BY <3>1, AncestorsClosed
    <3>. QED
      BY <3>1, <3>2, <3>3 DEF Below, Revealed
  <2>2. n \in Ancestors(j)
    BY <2>1, AncestorsClosed DEF Closed
  <2>. QED
    BY <2>1, <2>2 DEF Below
<1>2. ASSUME NEW j \in Below(c, n), j # n
      PROVE  \E k \in Kids(n) \cap Revealed(c) : j \in Below(c, k)
  <2>1. j \in Revealed(c) /\ j \in Nodes /\ n \in Ancestors(j)
    BY <1>2 DEF Below, Revealed
  <2>2. PICK k \in Kids(n) : k \in Ancestors(j)
    BY <1>2, <2>1, AncestorsKid
  <2>3. Ancestors(j) \subseteq Revealed(c)
    BY <2>1, RevealedClosed, AncestorsClosed
  <2>. QED
    BY <2>1, <2>2, <2>3 DEF Below
<1>. QED
  BY <1>1, <1>2

LEMMA BestOfKids ==
  ASSUME World, NEW c \in [Nodes -> Nat], OnlyRevealed(c), NEW n \in Nodes
  PROVE  Best(c, n) = Max({score[n]} \cup {Best(c, k) : k \in Kids(n) \cap Revealed(c)})
<1>. DEFINE K == Kids(n) \cap Revealed(c)
            b == [k \in Nodes |-> Best(c, k)]
            S == {score[n]} \cup {b[k] : k \in K}
            m == Best(c, n)
<1>1. K \subseteq Nodes /\ IsFiniteSet(K) /\ K \subseteq DOMAIN b
  BY KidsFacts, FS_Subset
<1>2. \A k \in K : b[k] = Best(c, k)
  BY <1>1
<1>. HIDE DEF b
<1>3. IsFiniteSet(S)
  <2>1. IsFiniteSet({b[k] : k \in K})
    <3>. HIDE DEF K
    <3>. QED
      BY <1>1, ImageFinite
  <2>. QED
    BY <2>1, FS_AddElement
<1>4. S \in SUBSET Nat
  <2>1. score[n] \in Nat
    BY NodesFacts
  <2>2. \A k \in K : b[k] \in Nat
    BY <1>1, <1>2, BestProperties
  <2>. QED
    BY <2>1, <2>2
<1>5. \A y \in S : m >= y
  <2>1. m >= score[n]
    BY BestProperties
  <2>2. ASSUME NEW k \in K PROVE m >= b[k]
    <3>1. PICK j \in Below(c, k) : Best(c, k) = score[j]
      BY <1>1, BestProperties
    <3>2. j \in Below(c, n)
      BY <3>1, BelowKids
    <3>. QED
      BY <1>2, <3>1, <3>2, BestProperties
  <2>. HIDE DEF m
  <2>. QED
    BY <2>1, <2>2
<1>6. m \in S
  <2>1. PICK j \in Below(c, n) : m = score[j]
    BY BestProperties
  <2>2. CASE j = n
    BY <2>1, <2>2
  <2>3. CASE j # n
    <3>1. PICK k \in K : j \in Below(c, k)
      BY <2>3, BelowKids
    <3>2. b[k] >= m /\ b[k] \in S /\ b[k] \in Nat
      BY <1>1, <1>2, <2>1, <3>1, BestProperties
    <3>3. m >= b[k] /\ m \in Nat
      BY <1>5, <3>2, BestProperties
    <3>4. m = b[k]
      <4>. HIDE DEF m
      <4>. QED
        BY <3>2, <3>3
    <3>. QED
      BY <3>2, <3>4
  <2>. QED
    BY <2>2, <2>3
<1>7. S = {score[n]} \cup {Best(c, k) : k \in K}
  BY <1>2
<1>8. Max(S) = m
  <2>. HIDE DEF S, m
  <2>. QED
    BY <1>3, <1>4, <1>5, <1>6, Greatest
<1>. QED
  BY <1>7, <1>8

(* The pass from the last node to the first has, after i steps, given the   *)
(* last i nodes their best scores and left the others as they were.         *)
AfterSteps(c, size) ==
  [i \in 0..size |-> [n \in Nodes |-> IF n > size - i THEN Best(c, n) ELSE score[n]]]

LEMMA StepOfPass ==
  ASSUME World, NEW c \in [Nodes -> Nat], OnlyRevealed(c),
         NEW size \in Nat \ {0}, Nodes = 1..size, NEW i \in 1..size
  PROVE  LET asof == AfterSteps(c, size)[i - 1]
             n == size + 1 - i
         IN AfterSteps(c, size)[i] =
              [asof EXCEPT ![n] = Max({@} \cup {asof[k] : k \in Kids(n) \cap Revealed(c)})]
<1>. DEFINE asof == AfterSteps(c, size)[i - 1]
            n == size + 1 - i
            next == AfterSteps(c, size)[i]
            K == Kids(n) \cap Revealed(c)
<1>0. i \in Nat /\ i - 1 \in 0..size /\ i \in 0..size /\ n \in Nodes /\ n \in Nat
  OBVIOUS
<1>1. /\ asof = [m \in Nodes |-> asof[m]] /\ next = [m \in Nodes |-> next[m]]
      /\ \A m \in Nodes : asof[m] = IF m > size - (i - 1) THEN Best(c, m) ELSE score[m]
      /\ \A m \in Nodes : next[m] = IF m > size - i THEN Best(c, m) ELSE score[m]
  BY <1>0 DEF AfterSteps
<1>. HIDE DEF asof, next
<1>2. asof[n] = score[n] /\ next[n] = Best(c, n)
  BY <1>0, <1>1
<1>3. \A m \in Nodes : m # n => next[m] = asof[m]
  <2>. TAKE m \in Nodes
  <2>. HAVE m # n
  <2>1. m > size - (i - 1) <=> m > size - i
    BY <1>0
  <2>. QED
    BY <1>1, <2>1
<1>4. \A k \in K : k \in Nodes /\ asof[k] = Best(c, k)
  <2>. TAKE k \in K
  <2>1. k \in Nodes /\ parent[k] = n /\ n # 0
    BY <1>0 DEF Kids
  <2>2. n < k
    BY <2>1, ParentFirst
  <2>3. k > size - (i - 1)
    BY <2>1, <2>2
  <2>. QED
    BY <1>1, <2>1, <2>3
<1>5. next[n] = Max({asof[n]} \cup {asof[k] : k \in K})
  <2>1. {asof[k] : k \in K} = {Best(c, k) : k \in K}
    BY <1>4
  <2>. QED
    BY <1>0, <1>2, <2>1, BestOfKids
<1>. HIDE DEF n, K
<1>6. next = [asof EXCEPT ![n] = Max({asof[n]} \cup {asof[k] : k \in K})]
  <2>. DEFINE v == Max({asof[n]} \cup {asof[k] : k \in K})
  <2>1. next[n] = v
    BY <1>5
  <2>. HIDE DEF v
  <2>2. next = [asof EXCEPT ![n] = v]
    BY <1>0, <1>1, <1>3, <2>1
  <2>. QED
    BY <2>2 DEF v
<1>. QED
  BY <1>6 DEF next, asof, n, K

LEMMA ScoreFunction ==
  ASSUME World
  PROVE  score = [m \in Nodes |-> score[m]]
<1>1. PICK size \in Nat \ {0} : parent \in [1..size -> 0..size - 1] /\ score \in [1..size -> AnyScore]
  BY DEF World
<1>. QED
  BY <1>1 DEF Nodes

LEMMA AsOfIsBest ==
  ASSUME World, NEW c \in [Nodes -> Nat], OnlyRevealed(c), NEW n \in Nodes
  PROVE  AsOf(c)[n] = Best(c, n)
<1>. DEFINE size == Cardinality(Nodes)
            pass[i \in 0..size] ==
              IF i = 0 THEN score
              ELSE LET asof == pass[i - 1]
                       m == size + 1 - i
                   IN [asof EXCEPT ![m] = Max({@} \cup {asof[k] : k \in Kids(m) \cap Revealed(c)})]
            f == AfterSteps(c, size)
<1>1. size \in Nat \ {0} /\ Nodes = 1..size
  <2>1. PICK s \in Nat \ {0} : parent \in [1..s -> 0..s - 1]
    BY DEF World
  <2>2. Nodes = 1..s /\ Cardinality(1..s) = s
    BY <2>1, FS_Interval DEF Nodes
  <2>. QED
    BY <2>2
<1>. HIDE DEF size
<1>2. f[0] = score
  <2>1. f[0] = [m \in Nodes |-> IF m > size THEN Best(c, m) ELSE score[m]]
    BY <1>1 DEF AfterSteps
  <2>2. \A m \in Nodes : ~ (m > size)
    BY <1>1
  <2>3. score = [m \in Nodes |-> score[m]]
    BY NodesFacts, ScoreFunction
  <2>. QED
    BY <2>1, <2>2, <2>3
<1>3. \A i \in 1..size :
        f[i] = LET asof == f[i - 1]
                   m == size + 1 - i
               IN [asof EXCEPT ![m] = Max({@} \cup {asof[k] : k \in Kids(m) \cap Revealed(c)})]
  BY <1>1, StepOfPass
<1>4. f = [i \in 0..size |-> f[i]]
  BY DEF AfterSteps
<1>. HIDE DEF f
<1>. DEFINE Next1(asof, i) ==
       [asof EXCEPT ![size + 1 - i] =
          Max({@} \cup {asof[k] : k \in Kids(size + 1 - i) \cap Revealed(c)})]
<1>5. pass = [i \in 0..size |-> IF i = 0 THEN score ELSE Next1(pass[i - 1], i)]
  <2>1. \A i \in 0..size : f[i] = IF i = 0 THEN score ELSE Next1(f[i - 1], i)
    <3>. TAKE i \in 0..size
    <3>1. i # 0 => i \in 1..size
      BY <1>1
    <3>. QED
      BY <1>2, <1>3, <3>1
  <2>2. f = [i \in 0..size |-> IF i = 0 THEN score ELSE Next1(f[i - 1], i)]
    <3>. HIDE DEF Next1
    <3>. QED
      BY <1>4, <2>1
  <2>. QED
    BY <2>2
<1>6. \A i \in 0..size : pass[i] = f[i]
  <2>. DEFINE bad == {i \in 0..size : pass[i] # f[i]}
  <2>. SUFFICES ASSUME bad # {} PROVE FALSE
    OBVIOUS
  <2>. HIDE DEF pass, Next1
  <2>1. PICK i \in bad : \A j \in bad : i <= j
    <3>1. bad \in SUBSET Nat
      BY <1>1
    <3>. HIDE DEF bad
    <3>. QED
      BY <3>1, LeastNatural
  <2>2. i \in 0..size /\ pass[i] # f[i]
    BY <2>1
  <2>3. pass[i] = IF i = 0 THEN score ELSE Next1(pass[i - 1], i)
    <3>. HIDE DEF bad
    <3>. QED
      BY <1>5, <2>2
  <2>4. i \in 1..size
    BY <1>1, <1>2, <2>2, <2>3
  <2>5. pass[i - 1] = f[i - 1]
    <3>1. i - 1 \in 0..size /\ ~ (i <= i - 1)
      BY <1>1, <2>4
    <3>. QED
      BY <2>1, <3>1
  <2>6. f[i] = Next1(f[i - 1], i)
    BY <1>3, <2>4 DEF Next1
  <2>7. pass[i] = Next1(f[i - 1], i)
    BY <2>3, <2>4, <2>5
  <2>. QED
    BY <2>2, <2>6, <2>7
<1>7. f[size][n] = Best(c, n)
  BY <1>1 DEF f, AfterSteps
<1>8. AsOf(c) = pass[size]
  BY DEF AsOf, size, pass
<1>9. pass[size] = f[size]
  <2>. HIDE DEF pass
  <2>. QED
    BY <1>1, <1>6
<1>. QED
  BY <1>7, <1>8, <1>9

(* The cursor of a replay has expanded only what it had revealed.           *)
CursorInv == OnlyRevealed(cursor)

LEMMA SameTree ==
  ASSUME parent' = parent
  PROVE  Nodes' = Nodes /\ \A k : ChildIndex(k)' = ChildIndex(k)
<1>1. Nodes' = Nodes
  BY DEF Nodes
<1>2. \A n : Kids(n)' = Kids(n)
  BY <1>1 DEF Kids
<1>3. \A k : ChildIndex(k)' = ChildIndex(k)
  BY <1>2 DEF ChildIndex
<1>. QED
  BY <1>1, <1>3

LEMMA UnfoldCursorInv ==
  ASSUME Nodes' = Nodes, \A k : ChildIndex(k)' = ChildIndex(k), parent' = parent,
         \A m \in Nodes : cursor'[m] > 0 => parent[m] = 0 \/ cursor'[parent[m]] > ChildIndex(m)
  PROVE  CursorInv'
<1>1. \A m \in Nodes' : cursor'[m] > 0 => m \in Revealed(cursor)'
  <2>. SUFFICES ASSUME NEW m \in Nodes, cursor'[m] > 0
                PROVE  m \in Revealed(cursor)'
    OBVIOUS
  <2>1. parent'[m] = 0 \/ cursor'[parent'[m]] > ChildIndex(m)'
    OBVIOUS
  <2>. QED
    BY <2>1 DEF Revealed
<1>. QED
  BY <1>1 DEF CursorInv, OnlyRevealed

LEMMA NothingExpanded ==
  ASSUME cursor' = [n \in Nodes |-> 0], Nodes' = Nodes
  PROVE  CursorInv'
<1>1. \A n \in Nodes : cursor'[n] = 0
  OBVIOUS
<1>. QED
  BY <1>1 DEF CursorInv, OnlyRevealed

LEMMA ExpandedRevealed ==
  ASSUME World, cursor \in [Nodes -> Nat], CursorInv, UNCHANGED world,
         NEW n \in Revealed(cursor), cursor' = [cursor EXCEPT ![n] = @ + 1]
  PROVE  CursorInv'
<1>. DEFINE d == [cursor EXCEPT ![n] = @ + 1]
<1>1. n \in Nodes
  BY DEF Revealed
<1>2. Revealed(cursor) \subseteq Revealed(d)
  BY <1>1, Expansion
<1>3. \A m \in Nodes : m # n => d[m] = cursor[m]
  OBVIOUS
<1>. HIDE DEF d
<1>4. \A m \in Nodes : d[m] > 0 => m \in Revealed(d)
  BY <1>2, <1>3 DEF CursorInv, OnlyRevealed
<1>5. Nodes' = Nodes /\ (\A k : ChildIndex(k)' = ChildIndex(k)) /\ parent' = parent
  BY SameTree DEF world
<1>6. \A m \in Nodes : cursor'[m] > 0 => parent[m] = 0 \/ cursor'[parent[m]] > ChildIndex(m)
  BY <1>4 DEF Revealed, d
<1>. QED
  BY <1>5, <1>6, UnfoldCursorInv

LEMMA CursorStep == Inv /\ CursorInv /\ [Next]_vars => CursorInv'
<1>. SUFFICES ASSUME Inv, CursorInv, [Next]_vars PROVE CursorInv'
  OBVIOUS
<1>0. UNCHANGED world
  BY DEF Next, vars, TooYoung, BeginIncumbent, BeginGreedy, GreedyStep, GreedyScored,
         ReplyRaises, ReplyUnusable, ReplyProgram, PickNode, PickInvalid,
         ReplayFails, BelowValidity, NoScore, IncumbentScored, CandidateScored
<1>1. World /\ cursor \in [Nodes -> Nat]
  BY DEF Inv, TypeOK
<1>2. Nodes' = Nodes /\ (\A k : ChildIndex(k)' = ChildIndex(k)) /\ parent' = parent
  BY <1>0, SameTree DEF world
<1>3. ASSUME cursor' = cursor PROVE CursorInv'
  <2>1. \A m \in Nodes : cursor'[m] > 0 => parent[m] = 0 \/ cursor'[parent[m]] > ChildIndex(m)
    BY <1>3 DEF CursorInv, OnlyRevealed, Revealed
  <2>. QED
    BY <1>2, <2>1, UnfoldCursorInv
<1>4. ASSUME NEW p, Load(p) PROVE CursorInv'
  BY <1>2, <1>4, NothingExpanded DEF Load
<1>5. CASE GreedyStep
  <2>1. GreedyPick(cursor) \in Revealed(cursor)
    BY <1>1, GreedyPickRevealed
  <2>2. cursor' = [cursor EXCEPT ![GreedyPick(cursor)] = @ + 1]
    BY <1>5 DEF GreedyStep
  <2>. QED
    BY <1>0, <1>1, <2>1, <2>2, ExpandedRevealed
<1>6. ASSUME NEW n \in Nodes, PickNode(n) PROVE CursorInv'
  BY <1>0, <1>1, <1>6, ExpandedRevealed DEF PickNode
<1>7. CASE PickInvalid
  BY <1>3, <1>7 DEF PickInvalid
<1>8. CASE NoScore
  BY <1>3, <1>4, <1>8 DEF NoScore, UseGreedy, replay
<1>9. CASE TooYoung \/ ReplyRaises \/ ReplyUnusable \/ CandidateScored \/ UNCHANGED vars
  BY <1>3, <1>9 DEF TooYoung, ReplyRaises, ReplyUnusable, CandidateScored, vars, replay
<1>10. CASE BeginIncumbent \/ BeginGreedy \/ GreedyScored \/ IncumbentScored
  BY <1>4, <1>10 DEF BeginIncumbent, BeginGreedy, UseGreedy, GreedyScored, IncumbentScored
<1>11. ASSUME NEW p \in Sources, ReplyProgram(p) PROVE CursorInv'
  BY <1>4, <1>11 DEF ReplyProgram
<1>. QED
  BY <1>5, <1>6, <1>7, <1>8, <1>9, <1>10, <1>11 DEF Next, ReplayFails, BelowValidity

LEMMA OutcomesFollow == Inv /\ CursorInv => OutcomesFromRevealed
<1>. SUFFICES ASSUME Inv, CursorInv, NEW n \in Revealed(cursor)
              PROVE  AsOf(cursor)[n] =
                       Max({score[k] : k \in {j \in Revealed(cursor) : Descends(j, n)}})
  BY DEF OutcomesFromRevealed, Visible
<1>1. World /\ cursor \in [Nodes -> Nat] /\ OnlyRevealed(cursor)
  BY DEF Inv, TypeOK, CursorInv
<1>2. Revealed(cursor) \subseteq Nodes
  BY DEF Revealed
<1>3. {j \in Revealed(cursor) : Descends(j, n)} = Below(cursor, n)
  <2>1. \A j \in Revealed(cursor) : Descends(j, n) <=> n \in Ancestors(j)
    BY <1>1, <1>2, DescendsAncestors
  <2>2. n \in Ancestors(n)
    BY <1>1, <1>2, AncestorsClosed
  <2>. QED
    BY <2>1, <2>2, Zenon DEF Below
<1>4. AsOf(cursor)[n] = Best(cursor, n)
  BY <1>1, <1>2, AsOfIsBest
<1>. QED
  BY <1>3, <1>4 DEF Best

(* In every recorded tree, whatever a policy expands in whatever order, the *)
(* outcome it is told of a branch is the best score its own picks have      *)
(* revealed there (policygen.py:405-407).                                   *)
THEOREM OutcomesAreRevealed == Spec => []OutcomesFromRevealed
<1>1. Init => CursorInv
  <2>. SUFFICES ASSUME Init PROVE CursorInv
    OBVIOUS
  <2>. QED
    BY DEF Init, CursorInv, OnlyRevealed
<1>. QED
  BY <1>1, InitInv, StepInv, CursorStep, OutcomesFollow, PTL DEF Spec
=============================================================================
