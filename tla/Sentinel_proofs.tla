--------------------------- MODULE Sentinel_proofs ---------------------------
(***************************************************************************)
(* Proofs about the sentinel, for any number of engines, threads, sessions  *)
(* and classes and any bounds of its tables: its types, and that a session  *)
(* is nudged once and noted once per class.                                 *)
(***************************************************************************)
EXTENDS Sentinel, FiniteFacts, SequenceTheorems

-----------------------------------------------------------------------------
(* Bounded sequences.                                                       *)

(* Newest drops from the front, and only what is too much.                  *)
LEMMA NewestProperties ==
  ASSUME NEW S, NEW q \in Seq(S), NEW n \in Nat
  PROVE  /\ Newest(q, n) \in Seq(S)
         /\ Len(Newest(q, n)) = IF Len(q) <= n THEN Len(q) ELSE n
         /\ \A i \in 1..Len(Newest(q, n)) :
              /\ i + (Len(q) - Len(Newest(q, n))) \in 1..Len(q)
              /\ Newest(q, n)[i] = q[i + (Len(q) - Len(Newest(q, n)))]
<1>0. Len(q) \in Nat /\ \A i \in 1..Len(q) : q[i] \in S
  BY LenProperties, ElementOfSeq
<1>1. CASE Len(q) <= n
  BY <1>0, <1>1 DEF Newest
<1>2. CASE ~ (Len(q) <= n)
  <2>. DEFINE m == Len(q) - n + 1
              r == SubSeq(q, m, Len(q))
  <2>1. m \in Int /\ m <= Len(q) + 1 /\ m >= 1 /\ Len(q) - m + 1 = n
    BY <1>0, <1>2
  <2>2. \A i \in m..Len(q) : q[i] \in S
    BY <2>1, <1>0
  <2>3. /\ r \in Seq(S)
        /\ Len(r) = IF m <= Len(q) THEN Len(q) - m + 1 ELSE 0
        /\ \A i \in 1..Len(q) - m + 1 : r[i] = q[m + i - 1]
    <3>. HIDE DEF m
    <3>. QED
      BY <2>1, <2>2, <1>0, SubSeqProperties
  <2>4. Len(r) = n
    BY <2>3, <2>1, <1>0
  <2>5. Newest(q, n) = r
    BY <1>2 DEF Newest
  <2>6. \A i \in 1..n : i + (Len(q) - n) \in 1..Len(q) /\ m + i - 1 = i + (Len(q) - n)
    BY <1>0, <1>2
  <2>. HIDE DEF r, m
  <2>7. \A i \in 1..n : r[i] = q[m + i - 1]
    BY <2>1, <2>3
  <2>. QED
    BY <2>3, <2>4, <2>5, <2>6, <2>7, <1>2
<1>. QED
  BY <1>1, <1>2

(* What is in a sequence, appended to and cut.                              *)
LEMMA ElemsProperties ==
  ASSUME NEW S, NEW q \in Seq(S), NEW x \in S, NEW n \in Nat
  PROVE  /\ Elems(q) \subseteq S
         /\ Elems(Append(q, x)) = Elems(q) \cup {x}
         /\ Elems(Newest(q, n)) \subseteq Elems(q)
         /\ n > 0 => x \in Elems(Newest(Append(q, x), n))
<1>. DEFINE a == Append(q, x)
            w == Newest(a, n)
<1>0. Len(q) \in Nat /\ \A i \in 1..Len(q) : q[i] \in S
  BY LenProperties, ElementOfSeq
<1>1. /\ a \in Seq(S) /\ Len(a) = Len(q) + 1
      /\ \A i \in 1..Len(q) : a[i] = q[i]
      /\ a[Len(q) + 1] = x
  BY AppendProperties
<1>2. Elems(q) \subseteq S
  BY <1>0 DEF Elems
<1>3. Elems(a) = Elems(q) \cup {x}
  <2>. HIDE DEF a
  <2>1. \A y \in Elems(a) : y \in Elems(q) \cup {x}
    <3>1. \A i \in 1..Len(q) + 1 : i \in 1..Len(q) \/ i = Len(q) + 1
      BY <1>0
    <3>. QED
      BY <3>1, <1>1 DEF Elems
  <2>2. \A y \in Elems(q) : y \in Elems(a)
    <3>1. \A i \in 1..Len(q) : i \in 1..Len(q) + 1
      BY <1>0
    <3>. QED
      BY <3>1, <1>1 DEF Elems
  <2>3. x \in Elems(a)
    <3>1. Len(q) + 1 \in 1..Len(q) + 1
      BY <1>0
    <3>. QED
      BY <3>1, <1>1 DEF Elems
  <2>. QED
    BY <2>1, <2>2, <2>3
<1>4. Elems(Newest(q, n)) \subseteq Elems(q)
  <2>. DEFINE v == Newest(q, n)
  <2>1. \A i \in 1..Len(v) : i + (Len(q) - Len(v)) \in 1..Len(q)
                              /\ v[i] = q[i + (Len(q) - Len(v))]
    BY NewestProperties
  <2>. HIDE DEF v
  <2>2. Elems(v) \subseteq Elems(q)
    BY <2>1 DEF Elems
  <2>. QED
    BY <2>2 DEF v
<1>5. ASSUME n > 0 PROVE x \in Elems(w)
  <2>. HIDE DEF a
  <2>1. /\ Len(w) = IF Len(a) <= n THEN Len(a) ELSE n
        /\ \A i \in 1..Len(w) : w[i] = a[i + (Len(a) - Len(w))]
    BY <1>1, NewestProperties
  <2>. HIDE DEF w
  <2>2. /\ Len(w) \in 1..Len(w)
        /\ Len(w) + (Len(a) - Len(w)) = Len(q) + 1
    BY <2>1, <1>0, <1>1, <1>5
  <2>3. w[Len(w)] = x
    BY <2>1, <2>2, <1>1
  <2>. QED
    BY <2>2, <2>3 DEF Elems
<1>. QED
  BY <1>2, <1>3, <1>4, <1>5

Distinct(q) == \A i, j \in 1..Len(q) : q[i] = q[j] => i = j

(* A sequence without repetitions stays one when a new element is appended  *)
(* and when it is cut.                                                      *)
LEMMA DistinctProperties ==
  ASSUME NEW S, NEW q \in Seq(S), Distinct(q), NEW n \in Nat
  PROVE  /\ Distinct(Newest(q, n))
         /\ \A x \in S : x \notin Elems(q) => Distinct(Append(q, x))
<1>0. Len(q) \in Nat
  BY LenProperties
<1>1. Distinct(Newest(q, n))
  <2>. DEFINE w == Newest(q, n)
              k == Len(q) - Len(w)
  <2>1. /\ w \in Seq(S)
        /\ \A i \in 1..Len(w) : i + k \in 1..Len(q) /\ w[i] = q[i + k]
    BY NewestProperties
  <2>2. Len(w) \in Nat
    BY <2>1, LenProperties
  <2>3. k \in Int
    BY <2>2, <1>0
  <2>. HIDE DEF w, k
  <2>4. ASSUME NEW i \in 1..Len(w), NEW j \in 1..Len(w), w[i] = w[j] PROVE i = j
    <3>1. i + k = j + k
      BY <2>1, <2>4 DEF Distinct
    <3>. QED
      BY <3>1, <2>3, <2>2
  <2>. QED
    BY <2>4 DEF Distinct, w
<1>2. ASSUME NEW x \in S, x \notin Elems(q) PROVE Distinct(Append(q, x))
  <2>. DEFINE a == Append(q, x)
  <2>1. /\ Len(a) = Len(q) + 1
        /\ \A i \in 1..Len(q) : a[i] = q[i]
        /\ a[Len(q) + 1] = x
    BY AppendProperties
  <2>2. \A i \in 1..Len(q) : q[i] # x
    BY <1>2 DEF Elems
  <2>3. \A i \in 1..Len(a) : i \in 1..Len(q) \/ i = Len(q) + 1
    BY <2>1, <1>0
  <2>. HIDE DEF a
  <2>4. ASSUME NEW i \in 1..Len(a), NEW j \in 1..Len(a), a[i] = a[j] PROVE i = j
    <3>1. CASE i \in 1..Len(q) /\ j \in 1..Len(q)
      BY <3>1, <2>1, <2>4 DEF Distinct
    <3>2. CASE i = Len(q) + 1 /\ j \in 1..Len(q)
      BY <3>2, <2>1, <2>2, <2>4
    <3>3. CASE j = Len(q) + 1 /\ i \in 1..Len(q)
      BY <3>3, <2>1, <2>2, <2>4
    <3>. QED
      BY <3>1, <3>2, <3>3, <2>3
  <2>. QED
    BY <2>4 DEF Distinct, a
<1>. QED
  BY <1>1, <1>2

(* It is no longer than the set it is drawn from.                           *)
LEMMA DistinctIsShort ==
  ASSUME NEW S, IsFiniteSet(S), NEW q \in Seq(S), Distinct(q)
  PROVE  Len(q) <= Cardinality(S)
<1>1. Len(q) \in Nat /\ q \in [1..Len(q) -> S]
  BY LenProperties
<1>2. q \in Injection(1..Len(q), S)
  BY <1>1 DEF Distinct, Injection, IsInjective
<1>3. Cardinality(1..Len(q)) <= Cardinality(S)
  BY <1>2, FS_Injection
<1>4. Cardinality(1..Len(q)) = Len(q)
  <2>1. Cardinality(1..Len(q)) = IF 1 > Len(q) THEN 0 ELSE Len(q) - 1 + 1
    BY <1>1, FS_Interval
  <2>. QED
    BY <2>1, <1>1
<1>. QED
  BY <1>3, <1>4

-----------------------------------------------------------------------------
(* The tables.                                                              *)

(* A call keeps its own session, whatever has to make room.                 *)
LEMMA InsertProperties ==
  ASSUME NEW q \in Seq(Sessions), NEW s \in Sessions, Len(q) <= MaxSessionsTracked
  PROVE  /\ Insert(q, s) \in Seq(Sessions)
         /\ Len(Insert(q, s)) <= MaxSessionsTracked
         /\ s \in Elems(Insert(q, s))
<1>1. MaxSessionsTracked \in Nat /\ MaxSessionsTracked > 0
  BY ConstantsAssumption
<1>2. Len(q) \in Nat
  BY LenProperties
<1>3. CASE s \in Elems(q)
  BY <1>1, <1>3 DEF Insert, Newest
<1>4. CASE s \notin Elems(q)
  <2>1. Insert(q, s) = Newest(Append(q, s), MaxSessionsTracked)
    BY <1>4 DEF Insert
  <2>2. Append(q, s) \in Seq(Sessions) /\ Len(Append(q, s)) = Len(q) + 1
    BY AppendProperties
  <2>3. s \in Elems(Newest(Append(q, s), MaxSessionsTracked))
    BY <1>1, ElemsProperties
  <2>4. /\ Newest(Append(q, s), MaxSessionsTracked) \in Seq(Sessions)
        /\ Len(Newest(Append(q, s), MaxSessionsTracked))
             = IF Len(Append(q, s)) <= MaxSessionsTracked THEN Len(Append(q, s))
               ELSE MaxSessionsTracked
    BY <1>1, <2>2, NewestProperties
  <2>. QED
    BY <2>1, <2>2, <2>3, <2>4, <1>1, <1>2
<1>. QED
  BY <1>3, <1>4

GoodRecord(r) ==
  /\ r \in Record
  /\ Len(r.sessions) <= MaxSessionsPerSig
  /\ Len(r.notified) <= MaxNotifiedPerSig
  /\ \A s \in Sessions : r.hits[s] > 0 <=> s \in Elems(r.sessions)
  /\ Distinct(r.notified)

GoodLedger(l) ==
  /\ l \in Seq(Record)
  /\ LedgerOK(l)
  /\ \A i \in 1..Len(l) : Distinct(l[i].notified)

LEMMA GoodLedgerRecords ==
  ASSUME NEW l
  PROVE  GoodLedger(l) <=>
           /\ l \in Seq(Record)
           /\ Len(l) <= MaxTracked
           /\ \A i \in 1..Len(l) : GoodRecord(l[i])
           /\ \A i, j \in 1..Len(l) : l[i].sig = l[j].sig => i = j
  BY DEF GoodLedger, LedgerOK, GoodRecord

LEMMA EmptyLedger == GoodLedger(<<>>)
<1>1. <<>> \in Seq(Record) /\ Len(<<>>) = 0
  BY EmptySeq
<1>2. MaxTracked \in Nat
  BY ConstantsAssumption
<1>. QED
  BY <1>1, <1>2 DEF GoodLedger, LedgerOK

LEMMA PlaceProperties ==
  ASSUME NEW l, NEW c, Holds(l, c)
  PROVE  Place(l, c) \in 1..Len(l) /\ l[Place(l, c)].sig = c
  BY DEF Holds, Place

LEMMA RecordOfProperties ==
  ASSUME NEW l, GoodLedger(l), NEW c \in Classes
  PROVE  /\ GoodRecord(RecordOf(l, c))
         /\ RecordOf(l, c).sig = c
         /\ \A i \in 1..Len(l) : l[i].sig = c => RecordOf(l, c) = l[i]
<1>1. CASE Holds(l, c)
  BY <1>1, PlaceProperties, GoodLedgerRecords DEF RecordOf
<1>2. CASE ~ Holds(l, c)
  <2>. DEFINE r == [sig |-> c, sessions |-> <<>>, notified |-> <<>>,
                    hits |-> [s \in Sessions |-> 0]]
  <2>1. RecordOf(l, c) = r
    BY <1>2 DEF RecordOf
  <2>2. <<>> \in Seq(Sessions) /\ Len(<<>>) = 0
    BY EmptySeq
  <2>3. 0 \in 0..Intra /\ MaxSessionsPerSig \in Nat /\ MaxNotifiedPerSig \in Nat
    BY ConstantsAssumption
  <2>4. r \in Record
    BY <2>2, <2>3 DEF Record
  <2>5. GoodRecord(r)
    BY <2>2, <2>3, <2>4 DEF GoodRecord, Elems, Distinct
  <2>. QED
    BY <2>1, <2>5, <1>2 DEF Holds
<1>. QED
  BY <1>1, <1>2

LEMMA HitProperties ==
  ASSUME NEW r, GoodRecord(r), NEW s \in Sessions
  PROVE  /\ GoodRecord(Hit(r, s))
         /\ Hit(r, s).sig = r.sig
         /\ Hit(r, s).notified = r.notified
<1>. DEFINE listed == IF s \in Elems(r.sessions) THEN r.sessions
                      ELSE Newest(Append(r.sessions, s), MaxSessionsPerSig)
            hits == [x \in Sessions |->
                       IF x = s THEN AtMost(Intra, r.hits[s] + 1)
                       ELSE IF x \in Elems(listed) THEN r.hits[x] ELSE 0]
<1>0. /\ r \in Record /\ r.sessions \in Seq(Sessions) /\ r.hits \in [Sessions -> 0..Intra]
      /\ Len(r.sessions) <= MaxSessionsPerSig
      /\ \A x \in Sessions : r.hits[x] > 0 <=> x \in Elems(r.sessions)
  BY DEF GoodRecord, Record
<1>1. MaxSessionsPerSig \in Nat /\ MaxSessionsPerSig > 0 /\ Intra \in Nat /\ Intra > 0
  BY ConstantsAssumption
<1>2. /\ listed \in Seq(Sessions) /\ Len(listed) <= MaxSessionsPerSig
      /\ s \in Elems(listed)
      /\ \A x \in Elems(listed) : x = s \/ x \in Elems(r.sessions)
  <2>1. CASE s \in Elems(r.sessions)
    BY <2>1, <1>0
  <2>2. CASE s \notin Elems(r.sessions)
    <3>. DEFINE a == Append(r.sessions, s)
    <3>0. listed = Newest(a, MaxSessionsPerSig)
      BY <2>2
    <3>1. a \in Seq(Sessions) /\ Len(a) = Len(r.sessions) + 1 /\ Len(r.sessions) \in Nat
      BY <1>0, AppendProperties, LenProperties
    <3>2. Elems(a) = Elems(r.sessions) \cup {s}
      BY <1>0, <1>1, ElemsProperties
    <3>3. s \in Elems(Newest(a, MaxSessionsPerSig))
      BY <1>0, <1>1, ElemsProperties
    <3>. HIDE DEF a
    <3>4. Elems(Newest(a, MaxSessionsPerSig)) \subseteq Elems(a)
      BY <3>1, <1>1, ElemsProperties
    <3>5. /\ Newest(a, MaxSessionsPerSig) \in Seq(Sessions)
          /\ Len(Newest(a, MaxSessionsPerSig))
               = IF Len(a) <= MaxSessionsPerSig THEN Len(a) ELSE MaxSessionsPerSig
      BY <3>1, <1>1, NewestProperties
    <3>. HIDE DEF listed
    <3>. QED
      BY <3>0, <3>1, <3>2, <3>3, <3>4, <3>5, <1>1
  <2>. QED
    BY <2>1, <2>2
<1>. HIDE DEF listed
<1>3. hits \in [Sessions -> 0..Intra]
  BY <1>0, <1>1 DEF AtMost
<1>4. \A x \in Sessions : hits[x] > 0 <=> x \in Elems(listed)
  <2>. TAKE x \in Sessions
  <2>1. CASE x = s
    BY <2>1, <1>0, <1>1, <1>2 DEF AtMost
  <2>2. CASE x # s /\ x \in Elems(listed)
    BY <2>2, <1>0, <1>2
  <2>3. CASE x # s /\ x \notin Elems(listed)
    BY <2>3
  <2>. QED
    BY <2>1, <2>2, <2>3
<1>. HIDE DEF hits
<1>5. Hit(r, s) = [r EXCEPT !.sessions = listed, !.hits = hits]
  BY DEF Hit, listed, hits
<1>6. /\ Hit(r, s) \in Record
      /\ Hit(r, s).sessions = listed /\ Hit(r, s).hits = hits
      /\ Hit(r, s).sig = r.sig /\ Hit(r, s).notified = r.notified
  BY <1>0, <1>2, <1>3, <1>5 DEF Record
<1>. QED
  BY <1>2, <1>4, <1>6 DEF GoodRecord

(* A session is in the list of the notified once it has been noted, and as  *)
(* long as the list has room for all sessions, whoever was in it remains.   *)
LEMMA NotifiedProperties ==
  ASSUME NEW r, GoodRecord(r), NEW s \in Sessions
  PROVE  /\ GoodRecord(Notified(r, s))
         /\ Notified(r, s).sig = r.sig
         /\ IsFiniteSet(Sessions) /\ Cardinality(Sessions) <= MaxNotifiedPerSig =>
              /\ Recurring(r, s) => s \in Elems(Notified(r, s).notified)
              /\ Elems(r.notified) \subseteq Elems(Notified(r, s).notified)
<1>1. CASE ~ Recurring(r, s)
  BY <1>1 DEF Notified
<1>2. CASE Recurring(r, s)
  <2>. DEFINE a == Append(r.notified, s)
              w == Newest(a, MaxNotifiedPerSig)
  <2>0. /\ r \in Record /\ r.notified \in Seq(Sessions) /\ Distinct(r.notified)
        /\ s \notin Elems(r.notified) /\ MaxNotifiedPerSig \in Nat
    BY <1>2, ConstantsAssumption DEF GoodRecord, Record, Recurring
  <2>1. /\ a \in Seq(Sessions) /\ Len(a) \in Nat
        /\ Elems(a) = Elems(r.notified) \cup {s}
        /\ Distinct(a)
    BY <2>0, AppendProperties, LenProperties, ElemsProperties, DistinctProperties
  <2>. HIDE DEF a
  <2>2. /\ w \in Seq(Sessions) /\ Distinct(w)
        /\ Len(w) = IF Len(a) <= MaxNotifiedPerSig THEN Len(a) ELSE MaxNotifiedPerSig
    BY <2>0, <2>1, NewestProperties, DistinctProperties
  <2>3. ASSUME IsFiniteSet(Sessions), Cardinality(Sessions) <= MaxNotifiedPerSig
        PROVE  w = a
    <3>1. Len(a) <= Cardinality(Sessions) /\ Cardinality(Sessions) \in Nat
      BY <2>1, <2>3, DistinctIsShort, FS_CardinalityType
    <3>2. Len(a) <= MaxNotifiedPerSig
      BY <3>1, <2>3, <2>1, <2>0
    <3>. QED
      BY <3>2 DEF Newest
  <2>. HIDE DEF w
  <2>4. Notified(r, s) = [r EXCEPT !.notified = w]
    BY <1>2 DEF Notified, a, w
  <2>5. /\ Notified(r, s) \in Record /\ Notified(r, s).notified = w
        /\ Notified(r, s).sig = r.sig /\ Notified(r, s).sessions = r.sessions
        /\ Notified(r, s).hits = r.hits
    BY <2>0, <2>2, <2>4 DEF Record
  <2>6. GoodRecord(Notified(r, s))
    BY <2>0, <2>1, <2>2, <2>5 DEF GoodRecord
  <2>. QED
    BY <2>1, <2>3, <2>5, <2>6
<1>. QED
  BY <1>1, <1>2

(* What is left of a ledger without class c.                                *)
LEMMA OthersProperties ==
  ASSUME NEW l, GoodLedger(l), NEW c \in Classes
  PROVE  /\ Others(l, c) \in Seq(Record)
         /\ \A i \in 1..Len(Others(l, c)) :
              /\ Others(l, c)[i].sig # c
              /\ \E j \in 1..Len(l) : Others(l, c)[i] = l[j]
         /\ \A i, j \in 1..Len(Others(l, c)) :
              Others(l, c)[i].sig = Others(l, c)[j].sig => i = j
<1>. DEFINE o == Others(l, c)
<1>0. /\ l \in Seq(Record) /\ Len(l) \in Nat
      /\ \A i \in 1..Len(l) : l[i] \in Record
      /\ \A i, j \in 1..Len(l) : l[i].sig = l[j].sig => i = j
  BY GoodLedgerRecords, LenProperties, ElementOfSeq
<1>1. CASE ~ Holds(l, c)
  <2>1. o = l
    BY <1>1 DEF Others
  <2>. HIDE DEF o
  <2>2. \A i \in 1..Len(l) : l[i].sig # c
    BY <1>1 DEF Holds
  <2>3. o \in Seq(Record)
    BY <2>1, <1>0
  <2>4. \A i \in 1..Len(o) : o[i].sig # c /\ \E j \in 1..Len(l) : o[i] = l[j]
    BY <2>1, <2>2
  <2>5. \A i, j \in 1..Len(o) : o[i].sig = o[j].sig => i = j
    BY <2>1, <1>0
  <2>. QED
    BY <2>3, <2>4, <2>5 DEF o
<1>2. CASE Holds(l, c)
  <2>. DEFINE p == Place(l, c)
              at(i) == IF i < p THEN i ELSE i + 1
  <2>1. p \in 1..Len(l) /\ l[p].sig = c
    BY <1>2, PlaceProperties
  <2>2. o = SubSeq(l, 1, p - 1) \o SubSeq(l, p + 1, Len(l))
    BY <1>2 DEF Others, RemoveAt
  <2>. HIDE DEF p, o
  <2>3. /\ o \in Seq(Record) /\ Len(o) = Len(l) - 1
        /\ \A i \in 1..Len(o) : IF i < p THEN i \in 1..Len(l) /\ o[i] = l[i]
                                ELSE i + 1 \in 1..Len(l) /\ o[i] = l[i + 1]
    BY <1>0, <2>1, <2>2, WithoutOne
  <2>4. \A i \in 1..Len(o) : at(i) \in 1..Len(l) /\ at(i) # p /\ o[i] = l[at(i)]
    <3>. TAKE i \in 1..Len(o)
    <3>1. p \in Int /\ i \in Int
      BY <1>0, <2>1, <2>3
    <3>2. CASE i < p
      <4>1. at(i) = i /\ i \in 1..Len(l) /\ o[i] = l[i]
        BY <2>3, <3>2
      <4>. QED
        BY <3>1, <3>2, <4>1
    <3>3. CASE ~(i < p)
      <4>1. at(i) = i + 1 /\ i + 1 \in 1..Len(l) /\ o[i] = l[i + 1]
        BY <2>3, <3>3
      <4>. QED
        BY <3>1, <3>3, <4>1
    <3>. QED
      BY <3>2, <3>3
  <2>5. \A i, j \in 1..Len(o) : at(i) = at(j) => i = j
    BY <2>1, <2>3, <1>0
  <2>. HIDE DEF at
  <2>6. \A i \in 1..Len(o) : o[i].sig # c /\ \E j \in 1..Len(l) : o[i] = l[j]
    BY <2>4, <2>1, <1>0
  <2>7. \A i, j \in 1..Len(o) : o[i].sig = o[j].sig => i = j
    BY <2>4, <2>5, <1>0
  <2>. QED
    BY <2>3, <2>6, <2>7 DEF o
<1>. QED
  BY <1>1, <1>2

(* One more hit: the ledger keeps its bounds, the class hit is in it, and    *)
(* every other record in it was there before.                               *)
LEMMA CountHitProperties ==
  ASSUME NEW l, GoodLedger(l), NEW c \in Classes, NEW s \in Sessions
  PROVE  /\ GoodLedger(CountHit(l, c, s))
         /\ \A i \in 1..Len(CountHit(l, c, s)) :
              \/ CountHit(l, c, s)[i] = Notified(Hit(RecordOf(l, c), s), s)
              \/ /\ CountHit(l, c, s)[i].sig # c
                 /\ \E j \in 1..Len(l) : CountHit(l, c, s)[i] = l[j]
<1>. DEFINE rec == Notified(Hit(RecordOf(l, c), s), s)
            o == Others(l, c)
            a == Append(o, rec)
            w == Newest(a, MaxTracked)
            k == Len(a) - Len(w)
<1>1. GoodRecord(rec) /\ rec \in Record /\ rec.sig = c
  <2>1. GoodRecord(RecordOf(l, c)) /\ RecordOf(l, c).sig = c
    BY RecordOfProperties
  <2>2. GoodRecord(Hit(RecordOf(l, c), s)) /\ Hit(RecordOf(l, c), s).sig = c
    BY <2>1, HitProperties
  <2>3. GoodRecord(rec) /\ rec.sig = c
    BY <2>2, NotifiedProperties
  <2>. QED
    BY <2>3 DEF GoodRecord
<1>2. /\ o \in Seq(Record)
      /\ \A i \in 1..Len(o) : o[i].sig # c /\ \E j \in 1..Len(l) : o[i] = l[j]
      /\ \A i, j \in 1..Len(o) : o[i].sig = o[j].sig => i = j
  BY OthersProperties
<1>3. CountHit(l, c, s) = w
  BY DEF CountHit
<1>4. MaxTracked \in Nat
  BY ConstantsAssumption
<1>. HIDE DEF rec, o
<1>5. /\ a \in Seq(Record) /\ Len(a) = Len(o) + 1 /\ Len(o) \in Nat
      /\ \A i \in 1..Len(o) : a[i] = o[i]
      /\ a[Len(o) + 1] = rec
  BY <1>1, <1>2, AppendProperties, LenProperties
<1>6. \A i \in 1..Len(a) : i \in 1..Len(o) \/ i = Len(o) + 1
  BY <1>5
<1>. HIDE DEF a
<1>7. \A i \in 1..Len(a) :
        \/ a[i] = rec
        \/ a[i].sig # c /\ \E j \in 1..Len(l) : a[i] = l[j]
  BY <1>2, <1>5, <1>6
<1>8. \A i, j \in 1..Len(a) : a[i].sig = a[j].sig => i = j
  <2>. SUFFICES ASSUME NEW i \in 1..Len(a), NEW j \in 1..Len(a), a[i].sig = a[j].sig
                PROVE  i = j
    OBVIOUS
  <2>1. CASE i \in 1..Len(o) /\ j \in 1..Len(o)
    BY <2>1, <1>2, <1>5
  <2>2. CASE i = Len(o) + 1 /\ j \in 1..Len(o)
    BY <2>2, <1>1, <1>2, <1>5
  <2>3. CASE j = Len(o) + 1 /\ i \in 1..Len(o)
    BY <2>3, <1>1, <1>2, <1>5
  <2>. QED
    BY <2>1, <2>2, <2>3, <1>6
<1>9. /\ w \in Seq(Record) /\ Len(w) = IF Len(a) <= MaxTracked THEN Len(a) ELSE MaxTracked
      /\ \A i \in 1..Len(w) : i + k \in 1..Len(a) /\ w[i] = a[i + k]
  BY <1>4, <1>5, NewestProperties
<1>10. Len(w) \in Nat /\ Len(w) <= MaxTracked /\ k \in Int
  BY <1>4, <1>5, <1>9
<1>. HIDE DEF w, k
<1>11. \A i \in 1..Len(w) :
         \/ w[i] = rec
         \/ w[i].sig # c /\ \E j \in 1..Len(l) : w[i] = l[j]
  BY <1>7, <1>9
<1>12. \A i \in 1..Len(w) : GoodRecord(w[i])
  BY <1>11, <1>1, GoodLedgerRecords
<1>13. \A i, j \in 1..Len(w) : w[i].sig = w[j].sig => i = j
  <2>. SUFFICES ASSUME NEW i \in 1..Len(w), NEW j \in 1..Len(w), w[i].sig = w[j].sig
                PROVE  i = j
    OBVIOUS
  <2>1. i + k = j + k
    BY <1>8, <1>9
  <2>. QED
    BY <2>1, <1>10
<1>14. GoodLedger(w)
  BY <1>9, <1>10, <1>12, <1>13, GoodLedgerRecords
<1>. QED
  BY <1>3, <1>11, <1>14 DEF rec

-----------------------------------------------------------------------------
(* The types.                                                               *)

Counters ==
  /\ tracked \in [Engines -> Seq(Sessions)]
  /\ \A e \in Engines : Len(tracked[e]) <= MaxSessionsTracked
  /\ used \in [Engines -> [Sessions -> 0..MaxTrigger]]
  /\ nudged \in [Engines -> SUBSET Sessions]
  /\ notes \in [Engines -> [Sessions -> 0..MaxNotes]]

CallHistories ==
  /\ seen \in [Engines -> SUBSET Sessions]
  /\ nudges \in [Engines -> [Sessions -> 0..2]]
  /\ due \in [Engines -> SUBSET Sessions]

Ledgers ==
  /\ ledger \in [Engines -> Seq(Record)]
  /\ \A e \in Engines : GoodLedger(ledger[e])
  /\ GoodLedger(disk)

Reports ==
  /\ up \subseteq Engines
  /\ failing \in [Threads -> [engine : Engines, session : Sessions, class : Classes]
                             \cup {Clean}]
  /\ \A t \in Threads : failing[t] # Clean => failing[t].engine \in up

Histories ==
  /\ apart \in BOOLEAN
  /\ told \in [Classes -> [Sessions -> 0..2]]

Typed == Counters /\ CallHistories /\ Ledgers /\ Reports /\ Histories

LEMMA TypedIsTypeOK == Typed => TypeOK
  BY DEF Typed, Counters, CallHistories, Ledgers, Reports, Histories, TypeOK, GoodLedger

LEMMA InitTyped == Init => Typed
<1>. SUFFICES ASSUME Init PROVE Typed
  OBVIOUS
<1>1. /\ MaxTrigger \in Nat /\ MaxNotes \in Nat /\ MaxSessionsTracked \in Nat
      /\ 0 \in 0..MaxTrigger /\ 0 \in 0..MaxNotes /\ 0 \in 0..2
  BY ConstantsAssumption
<1>2. <<>> \in Seq(Sessions) /\ <<>> \in Seq(Record) /\ Len(<<>>) = 0
  BY EmptySeq
<1>3. Counters
  BY <1>1, <1>2 DEF Init, Counters
<1>4. Ledgers
  BY <1>2, EmptyLedger DEF Init, Ledgers
<1>5. Reports
  BY DEF Init, Reports
<1>6. Histories
  BY <1>1 DEF Init, Histories
<1>7. CallHistories
  BY <1>1 DEF Init, CallHistories
<1>. QED
  BY <1>3, <1>4, <1>5, <1>6, <1>7 DEF Typed

(* One more call of session s of engine e, where dead are those that have to *)
(* make room and n is the new count.                                        *)
Counts(e, s, b, dead, n) ==
  /\ dead = Elems(tracked[e]) \ Elems(Insert(tracked[e], s))
  /\ tracked' = [tracked EXCEPT ![e] = Insert(tracked[e], s)]
  /\ used' = [used EXCEPT ![e] = [x \in Sessions |->
                IF x \in dead THEN 0 ELSE IF x = s THEN n ELSE used[e][x]]]
  /\ nudged' = [nudged EXCEPT ![e] = (nudged[e] \ dead) \cup
                                     (IF n >= b /\ s \notin nudged[e] THEN {s} ELSE {})]
  /\ notes' = [notes EXCEPT ![e] = [x \in Sessions |->
                IF x \in dead THEN 0 ELSE notes[e][x]]]
  /\ Nudge(e, s, n >= b, n >= b /\ s \notin nudged[e])

(* What a call counts: some sessions, never its own, lose their counters.   *)
LEMMA CountCallEffect ==
  ASSUME Counters, NEW e \in Engines, NEW s \in Sessions, NEW b \in Triggers,
         CountCall(e, s, b), b # 0
  PROVE  \E dead \in SUBSET Sessions, n \in 0..MaxTrigger :
           s \notin dead /\ Counts(e, s, b, dead, n)
<1>. DEFINE kept == Insert(tracked[e], s)
            dead == Elems(tracked[e]) \ Elems(kept)
            n == AtMost(MaxTrigger, used[e][s] + 1)
<1>1. tracked[e] \in Seq(Sessions) /\ Len(tracked[e]) <= MaxSessionsTracked
  BY DEF Counters
<1>2. s \in Elems(kept)
  BY <1>1, InsertProperties
<1>3. Elems(tracked[e]) \subseteq Sessions
  BY <1>1, ElementOfSeq DEF Elems
<1>4. dead \in SUBSET Sessions /\ s \notin dead
  BY <1>2, <1>3
<1>5. n \in 0..MaxTrigger
  <2>1. used[e][s] \in 0..MaxTrigger /\ MaxTrigger \in Nat
    BY ConstantsAssumption DEF Counters
  <2>. QED
    BY <2>1 DEF AtMost
<1>6. Counts(e, s, b, dead, n)
  BY Zenon DEF CountCall, Counts
<1>. HIDE DEF dead, n
<1>. QED
  BY <1>4, <1>5, <1>6

LEMMA NudgeTyped ==
  ASSUME Counters, CallHistories, NEW e \in Engines, NEW s \in Sessions, NEW b \in Triggers,
         CountCall(e, s, b)
  PROVE  CallHistories'
<1>1. CASE b = 0
  BY <1>1 DEF CountCall, CallHistories, counters
<1>2. CASE b # 0
  <2>1. PICK dead \in SUBSET Sessions, n \in 0..MaxTrigger : Counts(e, s, b, dead, n)
    BY <1>2, CountCallEffect
  <2>2. Nudge(e, s, n >= b, n >= b /\ s \notin nudged[e])
    BY <2>1, Zenon DEF Counts
  <2>3. seen' \in [Engines -> SUBSET Sessions]
    BY <2>2 DEF Nudge, CallHistories
  <2>4. due' \in [Engines -> SUBSET Sessions]
    BY <2>2 DEF Nudge, CallHistories
  <2>5. nudges' \in [Engines -> [Sessions -> 0..2]]
    <3>1. \A x \in Sessions : nudges[e][x] \in 0..2 /\ AtMost(2, nudges[e][x] + 1) \in 0..2
      BY DEF CallHistories, AtMost
    <3>. QED
      BY <2>2, <3>1 DEF Nudge, CallHistories
  <2>. QED
    BY <2>3, <2>4, <2>5 DEF CallHistories
<1>. QED
  BY <1>1, <1>2

LEMMA CountCallTyped ==
  ASSUME Counters, NEW e \in Engines, NEW s \in Sessions, NEW b \in Triggers,
         CountCall(e, s, b)
  PROVE  Counters'
<1>1. CASE b = 0
  BY <1>1 DEF CountCall, Counters, counters
<1>2. CASE b # 0
  <2>1. PICK dead \in SUBSET Sessions, n \in 0..MaxTrigger :
          s \notin dead /\ Counts(e, s, b, dead, n)
    BY <1>2, CountCallEffect
  <2>2. /\ Insert(tracked[e], s) \in Seq(Sessions)
        /\ Len(Insert(tracked[e], s)) <= MaxSessionsTracked
    BY InsertProperties DEF Counters
  <2>3. /\ tracked' \in [Engines -> Seq(Sessions)]
        /\ \A x \in Engines : Len(tracked'[x]) <= MaxSessionsTracked
    BY <2>1, <2>2 DEF Counters, Counts
  <2>4. used' \in [Engines -> [Sessions -> 0..MaxTrigger]]
    <3>1. [x \in Sessions |-> IF x \in dead THEN 0 ELSE IF x = s THEN n ELSE used[e][x]]
            \in [Sessions -> 0..MaxTrigger]
      BY ConstantsAssumption DEF Counters
    <3>. QED
      BY <3>1, <2>1 DEF Counters, Counts
  <2>5. notes' \in [Engines -> [Sessions -> 0..MaxNotes]]
    <3>1. [x \in Sessions |-> IF x \in dead THEN 0 ELSE notes[e][x]]
            \in [Sessions -> 0..MaxNotes]
      BY ConstantsAssumption DEF Counters
    <3>. QED
      BY <3>1, <2>1 DEF Counters, Counts
  <2>6. nudged' \in [Engines -> SUBSET Sessions]
    BY <2>1 DEF Counters, Counts
  <2>. QED
    BY <2>3, <2>4, <2>5, <2>6 DEF Counters
<1>. QED
  BY <1>1, <1>2

LEMMA FreshTyped ==
  ASSUME Counters, CallHistories, NEW e \in Engines, Fresh(e)
  PROVE  Counters' /\ CallHistories'
<1>1. /\ 0 \in 0..MaxTrigger /\ 0 \in 0..MaxNotes /\ 0 \in 0..2
      /\ MaxSessionsTracked \in Nat
  BY ConstantsAssumption
<1>2. <<>> \in Seq(Sessions) /\ Len(<<>>) = 0
  BY EmptySeq
<1>. QED
  BY <1>1, <1>2 DEF Counters, CallHistories, Fresh

(* One more hit of class c in session s of engine e.                        *)
Hits(e, s, c) ==
  LET l == CountHit(ledger[e], c, s)
      crossed == Recurring(Hit(RecordOf(ledger[e], c), s), s)
      noted == crossed /\ ~Capped(e, s)
  IN /\ GoodLedger(l)
     /\ Write(l)
     /\ ledger' = [ledger EXCEPT ![e] = l]
     /\ notes' = [notes EXCEPT ![e][s] = IF noted THEN AtMost(MaxNotes, @ + 1) ELSE @]
     /\ told' = [k \in Classes |-> [x \in Sessions |->
                   IF apart' \/ ~Holds(l, k) THEN 0
                   ELSE IF crossed /\ <<k, x>> = <<c, s>>
                        THEN AtMost(2, told[k][x] + 1) ELSE told[k][x]]]

(* The hit of a report: e is the engine, s the session, c the class.        *)
LEMMA ErrorEffect ==
  ASSUME Typed, NEW t \in Threads, ObserveError(t)
  PROVE  \E e \in up, s \in Sessions, c \in Classes :
           Hits(e, s, c)
<1>. DEFINE e == failing[t].engine
            s == failing[t].session
            c == failing[t].class
<1>1. failing[t] # Clean
  BY DEF ObserveError
<1>2. /\ failing[t] \in [engine : Engines, session : Sessions, class : Classes]
      /\ failing[t].engine \in up /\ up \subseteq Engines
  BY <1>1 DEF Typed, Reports
<1>3. e \in up /\ e \in Engines /\ s \in Sessions /\ c \in Classes
  BY <1>2
<1>4. GoodLedger(CountHit(ledger[e], c, s))
  <2>1. GoodLedger(ledger[e])
    BY <1>3 DEF Typed, Ledgers
  <2>. HIDE DEF e, s, c
  <2>. QED
    BY <1>3, <2>1, CountHitProperties
<1>. QED
  BY <1>3, <1>4, Zenon DEF ObserveError, Hits

LEMMA TypedStep == Typed /\ [Next]_vars => Typed'
<1>. SUFFICES ASSUME Typed, [Next]_vars PROVE Typed'
  OBVIOUS
<1>0. Counters /\ CallHistories /\ Ledgers /\ Reports /\ Histories
  BY DEF Typed
<1>1. ASSUME NEW e \in Engines, Start(e) PROVE Typed'
  <2>1. Counters' /\ CallHistories'
    BY <1>0, <1>1 DEF Start, Counters, CallHistories, counters
  <2>2. Ledgers'
    <3>1. /\ ledger' \in [Engines -> Seq(Record)]
          /\ \A x \in Engines : GoodLedger(ledger'[x])
      BY <1>0, <1>1 DEF Start, Ledgers, GoodLedger
    <3>2. disk' = disk /\ GoodLedger(disk)
      BY <1>0, <1>1 DEF Start, Ledgers
    <3>. QED
      BY <3>1, <3>2 DEF Ledgers, GoodLedger, LedgerOK
  <2>3. Reports'
    BY <1>0, <1>1 DEF Start, Reports
  <2>4. Histories'
    BY <1>0, <1>1 DEF Start, Histories
  <2>. QED
    BY <2>1, <2>2, <2>3, <2>4 DEF Typed
<1>2. ASSUME NEW e \in Engines, Exit(e) PROVE Typed'
  <2>1. Counters' /\ CallHistories'
    BY <1>0, <1>2, FreshTyped DEF Exit
  <2>2. Ledgers'
    <3>1. <<>> \in Seq(Record)
      BY EmptySeq
    <3>2. /\ ledger' \in [Engines -> Seq(Record)]
          /\ \A x \in Engines : GoodLedger(ledger'[x])
      BY <3>1, <1>0, <1>2, EmptyLedger DEF Exit, Ledgers
    <3>. QED
      BY <3>2, <1>0, <1>2 DEF Exit, Ledgers
  <2>3. Reports'
    BY <1>0, <1>2 DEF Exit, Reports
  <2>4. Histories'
    BY <1>0, <1>2 DEF Exit, Histories
  <2>. QED
    BY <2>1, <2>2, <2>3, <2>4 DEF Typed
<1>3. ASSUME NEW e \in Engines, Reset(e) PROVE Typed'
  <2>1. Counters' /\ CallHistories'
    BY <1>0, <1>3, FreshTyped DEF Reset
  <2>2. Ledgers'
    <3>1. <<>> \in Seq(Record)
      BY EmptySeq
    <3>2. /\ ledger' \in [Engines -> Seq(Record)]
          /\ \A x \in Engines : GoodLedger(ledger'[x])
      BY <3>1, <1>0, <1>3, EmptyLedger DEF Reset, Ledgers
    <3>3. GoodLedger(disk')
      BY <1>0, <1>3, EmptyLedger DEF Reset, Ledgers, Write
    <3>. QED
      BY <3>2, <3>3 DEF Ledgers
  <2>3. Reports'
    BY <1>0, <1>3 DEF Reset, Reports
  <2>4. Histories'
    <3>1. apart' \in BOOLEAN
      BY <1>0, <1>3 DEF Reset, Histories, Write
    <3>2. told' \in [Classes -> [Sessions -> 0..2]]
      BY <1>3 DEF Reset
    <3>. QED
      BY <3>1, <3>2 DEF Histories
  <2>. QED
    BY <2>1, <2>2, <2>3, <2>4 DEF Typed
<1>4. ASSUME NEW t \in Threads, NEW e \in Engines, NEW s \in Sessions, NEW b \in Triggers,
             ObserveClean(t, e, s, b)
      PROVE  Typed'
  <2>1. Counters' /\ CallHistories'
    BY <1>0, <1>4, CountCallTyped, NudgeTyped DEF ObserveClean
  <2>2. Ledgers' /\ Reports' /\ Histories'
    BY <1>0, <1>4 DEF ObserveClean, Ledgers, Reports, Histories
  <2>. QED
    BY <2>1, <2>2 DEF Typed
<1>5. ASSUME NEW t \in Threads, NEW e \in Engines, NEW s \in Sessions, NEW b \in Triggers,
             NEW c \in Classes, ObserveFailing(t, e, s, b, c)
      PROVE  Typed'
  <2>1. Counters' /\ CallHistories'
    BY <1>0, <1>5, CountCallTyped, NudgeTyped DEF ObserveFailing
  <2>2. Ledgers' /\ Histories'
    BY <1>0, <1>5 DEF ObserveFailing, Ledgers, Histories
  <2>3. Reports'
    BY <1>0, <1>5 DEF ObserveFailing, Reports
  <2>. QED
    BY <2>1, <2>2, <2>3 DEF Typed
<1>6. ASSUME NEW t \in Threads, ObserveError(t) PROVE Typed'
  <2>1. PICK e \in up, s \in Sessions, c \in Classes :
           Hits(e, s, c)
    BY <1>6, ErrorEffect
  <2>. DEFINE l == CountHit(ledger[e], c, s)
  <2>2. GoodLedger(l) /\ l \in Seq(Record) /\ Write(l) /\ ledger' = [ledger EXCEPT ![e] = l]
    BY <2>1 DEF GoodLedger, Hits
  <2>. HIDE DEF l
  <2>3. Counters'
    <3>1. e \in Engines /\ notes[e][s] \in 0..MaxNotes /\ MaxNotes \in Nat
      BY <1>0, ConstantsAssumption DEF Counters, Reports
    <3>2. AtMost(MaxNotes, notes[e][s] + 1) \in 0..MaxNotes
      BY <3>1 DEF AtMost
    <3>3. notes' \in [Engines -> [Sessions -> 0..MaxNotes]]
      BY <3>1, <3>2, <2>1, <1>0 DEF Counters, Hits
    <3>. QED
      BY <3>3, <1>0, <1>6 DEF Counters, ObserveError, counters
  <2>4. Ledgers'
    BY <2>2, <1>0 DEF Ledgers, Write
  <2>5. Reports'
    BY <1>0, <1>6 DEF Reports, ObserveError
  <2>6. apart' \in BOOLEAN
    BY <2>2, <1>0 DEF Histories, Write
  <2>7. told' \in [Classes -> [Sessions -> 0..2]]
    <3>1. \A k \in Classes, x \in Sessions :
            told[k][x] \in 0..2 /\ AtMost(2, told[k][x] + 1) \in 0..2
      BY <1>0 DEF Histories, AtMost
    <3>. QED
      BY <3>1, <2>1 DEF Hits
  <2>8. CallHistories'
    BY <1>0, <1>6 DEF CallHistories, ObserveError, counters
  <2>. QED
    BY <2>3, <2>4, <2>5, <2>6, <2>7, <2>8 DEF Typed, Histories
<1>7. CASE UNCHANGED vars
  BY <1>0, <1>7 DEF vars, counters, Typed, Counters, CallHistories, Ledgers, Reports, Histories
<1>. QED
  BY <1>1, <1>2, <1>3, <1>4, <1>5, <1>6, <1>7, Zenon DEF Next

LEMMA TypedAlways == Spec => []Typed
<1>. QED
  BY InitTyped, TypedStep, PTL DEF Spec

(* TypeOK: every table of every engine stays within its bound (sentinel.py: *)
(* 62-64), whatever is evicted from the others, restarted or reset, and the *)
(* hits of a class are those of the listed sessions.                        *)
THEOREM SentinelTyped == Spec => []TypeOK
  BY TypedAlways, TypedIsTypeOK, PTL

-----------------------------------------------------------------------------
(* The nudge.  It is remembered with the calls that are counted, and as long *)
(* as an engine has not seen more sessions than it tracks, it has counted    *)
(* the calls of all of them.                                                *)

Counted(e) ==
  /\ nudged[e] \subseteq Elems(tracked[e])
  /\ Distinct(tracked[e])
  /\ IsFiniteSet(seen[e])
  /\ Elems(tracked[e]) \subseteq seen[e]
  /\ Few(seen[e]) =>
       /\ seen[e] \subseteq Elems(tracked[e])
       /\ due[e] = nudged[e]
       /\ \A s \in Sessions : nudges[e][s] = IF s \in nudged[e] THEN 1 ELSE 0

NudgeInv == \A e \in Engines : Counted(e)

LEMMA CountedSame ==
  ASSUME NEW e, Counted(e), tracked'[e] = tracked[e], nudged'[e] = nudged[e],
         seen'[e] = seen[e], due'[e] = due[e], nudges'[e] = nudges[e]
  PROVE  Counted(e)'
BY DEF Counted, Few

(* No session has to make room for one of the few.                          *)
LEMMA RoomForFew ==
  ASSUME NEW q \in Seq(Sessions), Len(q) <= MaxSessionsTracked, Distinct(q),
         NEW s \in Sessions, NEW S \in SUBSET Sessions, IsFiniteSet(S), Few(S),
         Elems(q) \subseteq S, s \in S
  PROVE  Elems(Insert(q, s)) = Elems(q) \cup {s}
<1>1. MaxSessionsTracked \in Nat /\ Len(q) \in Nat
  BY ConstantsAssumption, LenProperties
<1>2. CASE s \in Elems(q)
  BY <1>1, <1>2 DEF Insert, Newest
<1>3. CASE s \notin Elems(q)
  <2>. DEFINE a == Append(q, s)
  <2>1. /\ a \in Seq(Sessions) /\ Elems(a) = Elems(q) \cup {s} /\ Distinct(a)
        /\ Insert(q, s) = Newest(a, MaxSessionsTracked)
    BY <1>1, <1>3, AppendProperties, ElemsProperties, DistinctProperties DEF Insert
  <2>. HIDE DEF a
  <2>2. a \in Seq(S) /\ Len(a) \in Nat
    <3>1. \A i \in 1..Len(a) : a[i] \in S
      BY <2>1 DEF Elems
    <3>. QED
      BY <2>1, <3>1, LenProperties
  <2>3. Len(a) <= Cardinality(S) /\ Cardinality(S) \in Nat
    BY <2>1, <2>2, DistinctIsShort, FS_CardinalityType
  <2>4. Len(a) <= MaxSessionsTracked
    BY <1>1, <2>2, <2>3 DEF Few
  <2>. QED
    BY <2>1, <2>4 DEF Newest
<1>. QED
  BY <1>2, <1>3

LEMMA CallCounted ==
  ASSUME Typed, NEW e \in Engines, Counted(e), NEW s \in Sessions, NEW b \in Triggers,
         CountCall(e, s, b)
  PROVE  Counted(e)'
<1>1. CASE b = 0
  BY <1>1, CountedSame DEF CountCall, counters
<1>2. CASE b # 0
  <2>1. Counters /\ CallHistories
    BY DEF Typed
  <2>2. PICK dead \in SUBSET Sessions, n \in 0..MaxTrigger :
          s \notin dead /\ Counts(e, s, b, dead, n)
    BY <1>2, <2>1, CountCallEffect
  <2>. DEFINE kept == Insert(tracked[e], s)
              now == seen[e] \cup {s}
  <2>3. /\ tracked[e] \in Seq(Sessions) /\ Len(tracked[e]) <= MaxSessionsTracked
        /\ seen[e] \in SUBSET Sessions /\ nudged[e] \in SUBSET Sessions
        /\ nudges[e] \in [Sessions -> 0..2]
    BY <2>1 DEF Counters, CallHistories
  <2>4. /\ tracked'[e] = kept /\ dead = Elems(tracked[e]) \ Elems(kept)
        /\ nudged'[e] = (nudged[e] \ dead) \cup
                          (IF n >= b /\ s \notin nudged[e] THEN {s} ELSE {})
    BY <2>1, <2>2 DEF Counters, Counts
  <2>5. Nudge(e, s, n >= b, n >= b /\ s \notin nudged[e])
    BY <2>2, Zenon DEF Counts
  <2>6. seen'[e] = now
    BY <2>1, <2>5 DEF Nudge, CallHistories
  <2>7. /\ s \in Elems(kept) /\ Distinct(kept)
        /\ Elems(kept) \subseteq Elems(tracked[e]) \cup {s}
    <3>1. MaxSessionsTracked \in Nat
      BY ConstantsAssumption
    <3>2. s \in Elems(kept)
      BY <2>3, InsertProperties
    <3>3. Append(tracked[e], s) \in Seq(Sessions)
      BY <2>3, AppendProperties
    <3>4. CASE s \in Elems(tracked[e])
      <4>1. kept = Newest(tracked[e], MaxSessionsTracked)
        BY <3>4 DEF Insert
      <4>. HIDE DEF kept
      <4>2. Distinct(kept) /\ Elems(kept) \subseteq Elems(tracked[e])
        BY <2>3, <3>1, <4>1, DistinctProperties, ElemsProperties DEF Counted
      <4>. QED
        BY <3>2, <4>2 DEF kept
    <3>5. CASE s \notin Elems(tracked[e])
      <4>. DEFINE a == Append(tracked[e], s)
      <4>1. kept = Newest(a, MaxSessionsTracked)
        BY <3>5 DEF Insert
      <4>2. Distinct(a) /\ Elems(a) = Elems(tracked[e]) \cup {s}
        BY <2>3, <3>1, <3>5, DistinctProperties, ElemsProperties DEF Counted
      <4>. HIDE DEF kept, a
      <4>3. Distinct(kept) /\ Elems(kept) \subseteq Elems(a)
        BY <3>1, <3>3, <4>1, <4>2, DistinctProperties, ElemsProperties DEF a
      <4>. QED
        BY <3>2, <4>2, <4>3 DEF kept
    <3>. QED
      BY <3>4, <3>5
  <2>8. IsFiniteSet(now)
    BY FS_AddElement DEF Counted
  <2>9. ASSUME Few(now)
        PROVE  /\ now \subseteq Elems(kept) /\ dead = {}
               /\ Few(seen[e])
    <3>1. Few(seen[e])
      <4>. DEFINE S == seen[e]
      <4>1. Cardinality(S) <= Cardinality(now)
        <5>1. S \in SUBSET now
          OBVIOUS
        <5>. HIDE DEF now, S
        <5>. QED
          BY <2>8, <5>1, FS_Subset
      <4>2. Cardinality(S) \in Nat /\ Cardinality(now) \in Nat /\ MaxSessionsTracked \in Nat
        BY <2>8, FS_CardinalityType, ConstantsAssumption DEF Counted
      <4>. HIDE DEF S, now
      <4>3. Few(S)
        BY <2>9, <4>1, <4>2 DEF Few
      <4>. QED
        BY <4>3 DEF S
    <3>2. Elems(tracked[e]) = seen[e]
      BY <3>1 DEF Counted
    <3>3. Elems(kept) = Elems(tracked[e]) \cup {s}
      <4>1. now \in SUBSET Sessions /\ Elems(tracked[e]) \subseteq now /\ s \in now
        BY <2>3, <3>2
      <4>. HIDE DEF now
      <4>. QED
        BY <2>3, <2>8, <2>9, <4>1, RoomForFew DEF Counted
    <3>. HIDE DEF kept
    <3>. QED
      BY <2>4, <3>1, <3>2, <3>3
  <2>10. ASSUME Few(now)
         PROVE  /\ due'[e] = due[e] \cup (IF n >= b THEN {s} ELSE {})
                /\ nudges'[e] = [nudges[e] EXCEPT ![s] =
                     IF n >= b /\ s \notin nudged[e] THEN AtMost(2, @ + 1) ELSE @]
    BY <2>1, <2>5, <2>10 DEF Nudge, CallHistories
  <2>. HIDE DEF kept, now
  <2>11. ASSUME Few(now)
         PROVE  /\ due'[e] = nudged'[e]
                /\ \A x \in Sessions : nudges'[e][x] = IF x \in nudged'[e] THEN 1 ELSE 0
    <3>1. /\ due[e] = nudged[e]
          /\ \A x \in Sessions : nudges[e][x] = IF x \in nudged[e] THEN 1 ELSE 0
      BY <2>9, <2>11 DEF Counted
    <3>2. nudged'[e] = nudged[e] \cup (IF n >= b /\ s \notin nudged[e] THEN {s} ELSE {})
      BY <2>4, <2>9, <2>11
    <3>3. CASE n >= b /\ s \notin nudged[e]
      <4>1. nudges'[e] = [nudges[e] EXCEPT ![s] = 1]
        BY <2>10, <2>11, <3>1, <3>3 DEF AtMost
      <4>. QED
        BY <2>3, <2>10, <2>11, <3>1, <3>2, <3>3, <4>1
    <3>4. CASE ~ (n >= b /\ s \notin nudged[e])
      <4>1. nudges'[e] = nudges[e]
        BY <2>3, <2>10, <2>11, <3>4
      <4>. QED
        BY <2>10, <2>11, <3>1, <3>2, <3>4, <4>1
    <3>. QED
      BY <3>3, <3>4
  <2>12. nudged'[e] \subseteq Elems(kept)
    BY <2>4, <2>7 DEF Counted
  <2>13. Elems(kept) \subseteq now
    BY <2>7 DEF Counted, now
  <2>. QED
    BY <2>4, <2>6, <2>7, <2>8, <2>9, <2>11, <2>12, <2>13 DEF Counted
<1>. QED
  BY <1>1, <1>2

LEMMA NudgeStep == Typed /\ NudgeInv /\ [Next]_vars => NudgeInv'
<1>. SUFFICES ASSUME Typed, NudgeInv, [Next]_vars, NEW e \in Engines PROVE Counted(e)'
  BY DEF NudgeInv
<1>0. Counted(e) /\ Counters /\ CallHistories
  BY DEF NudgeInv, Typed
<1>1. CASE UNCHANGED counters
  BY <1>0, <1>1, CountedSame DEF counters
<1>2. ASSUME NEW f \in Engines, NEW s \in Sessions, NEW b \in Triggers, CountCall(f, s, b)
      PROVE  Counted(e)'
  <2>1. CASE f = e
    BY <1>0, <1>2, <2>1, CallCounted
  <2>2. CASE f # e /\ b # 0
    <3>1. PICK dead \in SUBSET Sessions, n \in 0..MaxTrigger : Counts(f, s, b, dead, n)
      BY <1>0, <1>2, <2>2, CountCallEffect
    <3>2. Nudge(f, s, n >= b, n >= b /\ s \notin nudged[f])
      BY <3>1, Zenon DEF Counts
    <3>3. seen'[e] = seen[e] /\ due'[e] = due[e] /\ nudges'[e] = nudges[e]
      BY <1>0, <2>2, <3>2 DEF Nudge, CallHistories
    <3>4. tracked'[e] = tracked[e] /\ nudged'[e] = nudged[e]
      BY <1>0, <2>2, <3>1 DEF Counts, Counters
    <3>. QED
      BY <1>0, <3>3, <3>4, CountedSame
  <2>3. CASE b = 0
    BY <1>1, <1>2, <2>3 DEF CountCall
  <2>. QED
    BY <2>1, <2>2, <2>3
<1>3. ASSUME NEW f \in Engines, Fresh(f) PROVE Counted(e)'
  <2>1. CASE f = e
    <3>1. /\ tracked'[e] = <<>> /\ nudged'[e] = {} /\ seen'[e] = {} /\ due'[e] = {}
          /\ nudges'[e] = [s \in Sessions |-> 0]
      BY <1>0, <1>3, <2>1 DEF Fresh, Counters, CallHistories
    <3>. QED
      BY <3>1, FS_EmptySet DEF Counted, Distinct, Elems
  <2>2. CASE f # e
    <3>1. /\ tracked'[e] = tracked[e] /\ nudged'[e] = nudged[e]
          /\ seen'[e] = seen[e] /\ due'[e] = due[e] /\ nudges'[e] = nudges[e]
      BY <1>0, <1>3, <2>2 DEF Fresh, Counters, CallHistories
    <3>. QED
      BY <1>0, <3>1, CountedSame
  <2>. QED
    BY <2>1, <2>2
<1>. QED
  BY <1>1, <1>2, <1>3
     DEF Next, vars, Start, Exit, Reset, ObserveClean, ObserveFailing, ObserveError

(* NudgedOnce: the finalize nudge fires at most once per session, and for    *)
(* every session a call of which reaches the trigger of its own budget, as   *)
(* long as no more sessions than MAX_SESSIONS_TRACKED have reported to the   *)
(* engine (sentinel.py:24, 398-416), for any budgets.                       *)
THEOREM NudgesAreOnce == Spec => []NudgedOnce
<1>1. Init => NudgeInv
  <2>. SUFFICES ASSUME Init, NEW e \in Engines PROVE Counted(e)
    BY DEF NudgeInv
  <2>1. /\ tracked[e] = <<>> /\ nudged[e] = {} /\ seen[e] = {} /\ due[e] = {}
        /\ nudges[e] = [s \in Sessions |-> 0]
    BY DEF Init
  <2>. QED
    BY <2>1, FS_EmptySet DEF Counted, Distinct, Elems
<1>2. NudgeInv => NudgedOnce
  BY DEF NudgeInv, Counted, NudgedOnce
<1>. QED
  BY <1>1, <1>2, NudgeStep, TypedAlways, PTL DEF Spec

-----------------------------------------------------------------------------
(* One note per class and session.                                          *)

(* As long as nothing has driven them apart, one engine runs at most, and    *)
(* what it holds is what is on disk.                                        *)
InStep ==
  ~apart => \A e \in up : ledger[e] = disk /\ \A f \in up : e = f

(* Whom the ledger's bounds have not made it forget is listed with the class. *)
Remembered ==
  ~apart => \A c \in Classes, s \in Sessions : told[c][s] > 0 =>
              \E i \in 1..Len(disk) : disk[i].sig = c /\ s \in Elems(disk[i].notified)

LEMMA InStepStep == Typed /\ InStep /\ [Next]_vars => InStep'
<1>. SUFFICES ASSUME Typed, InStep, [Next]_vars, ~apart'
              PROVE  \A e \in up' : ledger'[e] = disk' /\ \A f \in up' : e = f
  BY DEF InStep
<1>0. /\ ledger \in [Engines -> Seq(Record)] /\ up \subseteq Engines
      /\ apart \in BOOLEAN
      /\ ~apart => \A e \in up : ledger[e] = disk /\ \A f \in up : e = f
  BY DEF Typed, Ledgers, Reports, InStep, Histories
<1>1. ASSUME NEW e \in Engines, Start(e)
      PROVE  \A x \in up' : ledger'[x] = disk' /\ \A f \in up' : x = f
  <2>1. up = {} /\ up' = {e} /\ disk' = disk /\ ledger'[e] = disk
    BY <1>0, <1>1 DEF Start
  <2>. QED
    BY <2>1
<1>2. ASSUME NEW e \in Engines, Exit(e)
      PROVE  \A x \in up' : ledger'[x] = disk' /\ \A f \in up' : x = f
  BY <1>0, <1>2 DEF Exit
<1>3. ASSUME NEW e \in up, NEW l, Write(l), ledger' = [ledger EXCEPT ![e] = l], up' = up
      PROVE  \A x \in up' : ledger'[x] = disk' /\ \A f \in up' : x = f
  <2>1. disk' = l /\ ~apart
    BY <1>0, <1>3 DEF Write
  <2>2. up = {e}
    BY <2>1, <1>0
  <2>. QED
    BY <2>1, <2>2, <1>0, <1>3
<1>4. ASSUME NEW e \in Engines, Reset(e)
      PROVE  \A x \in up' : ledger'[x] = disk' /\ \A f \in up' : x = f
  BY <1>3, <1>4 DEF Reset
<1>5. ASSUME NEW t \in Threads, ObserveError(t)
      PROVE  \A x \in up' : ledger'[x] = disk' /\ \A f \in up' : x = f
  <2>1. PICK e \in up, s \in Sessions, c \in Classes : Hits(e, s, c)
    BY <1>5, ErrorEffect
  <2>2. /\ Write(CountHit(ledger[e], c, s)) /\ up' = up
        /\ ledger' = [ledger EXCEPT ![e] = CountHit(ledger[e], c, s)]
    BY <2>1, <1>5 DEF Hits, ObserveError
  <2>. QED
    BY <2>2, <1>3
<1>6. CASE UNCHANGED <<up, ledger, disk, apart>>
  BY <1>0, <1>6
<1>. QED
  BY <1>1, <1>2, <1>4, <1>5, <1>6
     DEF Next, vars, ObserveClean, ObserveFailing

LEMMA NotedStep ==
  ASSUME IsFiniteSet(Sessions), Cardinality(Sessions) <= MaxNotifiedPerSig
  PROVE  Typed /\ InStep /\ Remembered /\ NotedOnce /\ [Next]_vars
           => Remembered' /\ NotedOnce'
<1>. SUFFICES ASSUME Typed, InStep, Remembered, NotedOnce, [Next]_vars, ~apart'
              PROVE  \A k \in Classes, x \in Sessions :
                       /\ told'[k][x] <= 1
                       /\ told'[k][x] > 0 =>
                            \E i \in 1..Len(disk') :
                              disk'[i].sig = k /\ x \in Elems(disk'[i].notified)
  BY DEF Remembered, NotedOnce
<1>0. /\ GoodLedger(disk) /\ up \subseteq Engines /\ apart \in BOOLEAN
      /\ told \in [Classes -> [Sessions -> 0..2]]
      /\ ~apart => \A e \in up : ledger[e] = disk
      /\ ~apart => \A k \in Classes, x \in Sessions :
                     /\ told[k][x] <= 1
                     /\ told[k][x] > 0 =>
                          \E i \in 1..Len(disk) :
                            disk[i].sig = k /\ x \in Elems(disk[i].notified)
  BY DEF Typed, Ledgers, Reports, Histories, InStep, Remembered, NotedOnce
<1>1. CASE UNCHANGED <<told, disk>> /\ (apart => apart')
  BY <1>0, <1>1
<1>2. ASSUME NEW e \in Engines, Reset(e)
      PROVE  \A k \in Classes, x \in Sessions : told'[k][x] = 0
  BY <1>2 DEF Reset
<1>3. ASSUME NEW t \in Threads, ObserveError(t),
             NEW k \in Classes, NEW x \in Sessions
      PROVE  /\ told'[k][x] <= 1
             /\ told'[k][x] > 0 =>
                  \E i \in 1..Len(disk') :
                    disk'[i].sig = k /\ x \in Elems(disk'[i].notified)
  <2>1. PICK e \in up, s \in Sessions, c \in Classes : Hits(e, s, c)
    BY <1>3, ErrorEffect
  <2>. DEFINE r == RecordOf(disk, c)
              h == Hit(r, s)
              rec == Notified(h, s)
              l == CountHit(disk, c, s)
  <2>2. /\ Write(CountHit(ledger[e], c, s))
        /\ told' = [kk \in Classes |-> [xx \in Sessions |->
                      IF apart' \/ ~Holds(CountHit(ledger[e], c, s), kk) THEN 0
                      ELSE IF Recurring(Hit(RecordOf(ledger[e], c), s), s)
                               /\ <<kk, xx>> = <<c, s>>
                           THEN AtMost(2, told[kk][xx] + 1) ELSE told[kk][xx]]]
    BY <2>1, Zenon DEF Hits
  <2>3. ~apart /\ disk' = CountHit(ledger[e], c, s)
    BY <2>2, <1>0 DEF Write
  <2>4. ledger[e] = disk
    BY <2>3, <1>0
  <2>5. /\ disk' = l
        /\ told'[k][x] = IF ~Holds(l, k) THEN 0
                         ELSE IF Recurring(h, s) /\ <<k, x>> = <<c, s>>
                              THEN AtMost(2, told[k][x] + 1) ELSE told[k][x]
    BY <2>2, <2>3, <2>4
  <2>6. /\ GoodRecord(h) /\ h.sig = c /\ h.notified = r.notified
        /\ \A i \in 1..Len(disk) : disk[i].sig = c => r = disk[i]
    <3>1. /\ GoodRecord(r) /\ r.sig = c
          /\ \A i \in 1..Len(disk) : disk[i].sig = c => r = disk[i]
      BY <1>0, RecordOfProperties
    <3>. HIDE DEF r
    <3>. QED
      BY <3>1, HitProperties
  <2>7. /\ rec.sig = c
        /\ Recurring(h, s) => s \in Elems(rec.notified)
        /\ Elems(h.notified) \subseteq Elems(rec.notified)
    <3>. HIDE DEF h
    <3>. QED
      BY <2>6, NotifiedProperties
  <2>8. \A i \in 1..Len(l) :
          \/ l[i] = rec
          \/ l[i].sig # c /\ \E j \in 1..Len(disk) : l[i] = disk[j]
    BY <1>0, CountHitProperties
  <2>9. \A i, j \in 1..Len(disk) : disk[i].sig = disk[j].sig => i = j
    BY <1>0, GoodLedgerRecords
  <2>10. /\ told[k][x] \in 0..2 /\ told[k][x] <= 1
         /\ told[k][x] > 0 =>
              \E i \in 1..Len(disk) :
                disk[i].sig = k /\ x \in Elems(disk[i].notified)
    BY <2>3, <1>0
  <2>11. Recurring(h, s) => s \notin Elems(r.notified)
    BY <2>6 DEF Recurring
  <2>. HIDE DEF r, h, rec, l
  <2>12. told[c][s] > 0 => s \in Elems(r.notified)
    <3>. SUFFICES ASSUME told[c][s] > 0 PROVE s \in Elems(r.notified)
      OBVIOUS
    <3>1. PICK i \in 1..Len(disk) : disk[i].sig = c /\ s \in Elems(disk[i].notified)
      BY <2>3, <1>0
    <3>. QED
      BY <3>1, <2>6
  <2>13. told[c][s] \in 0..2
    BY <1>0
  <2>14. told'[k][x] <= 1
    <3>1. CASE Recurring(h, s) /\ <<k, x>> = <<c, s>>
      <4>1. told[c][s] = 0 /\ k = c /\ x = s
        BY <3>1, <2>11, <2>12, <2>13
      <4>. QED
        BY <4>1, <2>5 DEF AtMost
    <3>2. CASE ~ (Recurring(h, s) /\ <<k, x>> = <<c, s>>)
      BY <3>2, <2>5, <2>10
    <3>. QED
      BY <3>1, <3>2
  <2>15. ASSUME told'[k][x] > 0
         PROVE  \E i \in 1..Len(l) : l[i].sig = k /\ x \in Elems(l[i].notified)
    <3>1. PICK i \in 1..Len(l) : l[i].sig = k
      BY <2>5, <2>15 DEF Holds
    <3>2. CASE k = c
      <4>1. l[i] = rec
        BY <3>1, <3>2, <2>8
      <4>2. CASE Recurring(h, s) /\ x = s
        BY <4>1, <4>2, <3>1, <2>7
      <4>3. CASE ~ (Recurring(h, s) /\ x = s)
        <5>1. told[k][x] > 0
          BY <4>3, <2>5, <2>15
        <5>2. PICK j \in 1..Len(disk) : disk[j].sig = k /\ x \in Elems(disk[j].notified)
          BY <5>1, <2>10
        <5>3. x \in Elems(r.notified)
          BY <5>2, <3>2, <2>6
        <5>. QED
          BY <5>3, <4>1, <3>1, <2>6, <2>7
      <4>. QED
        BY <4>2, <4>3
    <3>3. CASE k # c
      <4>1. told[k][x] > 0
        BY <3>3, <2>5, <2>15
      <4>2. PICK j \in 1..Len(disk) : disk[j].sig = k /\ x \in Elems(disk[j].notified)
        BY <4>1, <2>10
      <4>3. PICK m \in 1..Len(disk) : l[i] = disk[m]
        BY <3>1, <3>3, <2>7, <2>8
      <4>4. m = j
        BY <4>2, <4>3, <3>1, <2>9
      <4>. QED
        BY <4>2, <4>3, <4>4, <3>1
    <3>. QED
      BY <3>2, <3>3
  <2>. QED
    BY <2>5, <2>14, <2>15
<1>4. CASE UNCHANGED vars
  BY <1>1, <1>4 DEF vars
<1>5. ASSUME NEW e \in Engines, Start(e) \/ Exit(e)
      PROVE  UNCHANGED <<told, disk>> /\ (apart => apart')
  BY <1>5, <1>0 DEF Start, Exit
<1>6. ASSUME NEW t \in Threads, NEW e \in Engines, NEW s \in Sessions, NEW b \in Triggers,
             ObserveClean(t, e, s, b) \/ \E c \in Classes : ObserveFailing(t, e, s, b, c)
      PROVE  UNCHANGED <<told, disk>> /\ (apart => apart')
  BY <1>6, <1>0 DEF ObserveClean, ObserveFailing
<1>7. CASE \E e \in Engines : Reset(e)
  <2>1. \A k \in Classes, x \in Sessions : told'[k][x] = 0
    BY <1>2, <1>7
  <2>. QED
    BY <2>1
<1>8. CASE \E t \in Threads : ObserveError(t)
  BY <1>3, <1>8
<1>. QED
  BY <1>1, <1>4, <1>5, <1>6, <1>7, <1>8 DEF Next

(* NotedOnce: one note per class and session (sentinel.py:23), across        *)
(* restarts, resets and evictions, as long as the ledger keeps the class and *)
(* no save fails and no second engine runs beside the first.                 *)
THEOREM NotesAreOnce ==
  ASSUME IsFiniteSet(Sessions)
  PROVE  Spec => []NotedOnce
<1>1. CASE ~ (Cardinality(Sessions) <= MaxNotifiedPerSig)
  <2>1. NotedOnce
    BY <1>1 DEF NotedOnce
  <2>. QED
    BY <2>1, PTL
<1>2. CASE Cardinality(Sessions) <= MaxNotifiedPerSig
  <2>1. Init => InStep /\ Remembered /\ NotedOnce
    BY DEF Init, InStep, Remembered, NotedOnce
  <2>2. Typed /\ InStep /\ Remembered /\ NotedOnce /\ [Next]_vars
          => Remembered' /\ NotedOnce'
    BY <1>2, NotedStep
  <2>. QED
    BY <2>1, <2>2, InStepStep, TypedAlways, PTL DEF Spec
<1>. QED
  BY <1>1, <1>2

=============================================================================
