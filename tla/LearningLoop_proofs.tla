-------------------------- MODULE LearningLoop_proofs --------------------------
(***************************************************************************)
(* Proofs about LearningLoop, for every queue, every budget and every      *)
(* number of attempts and repairs.                                         *)
(***************************************************************************)
EXTENDS LearningLoop, FiniteFacts, SequenceTheorems

Counts == used \in Nat /\ reported \in Nat /\ before \in Nat /\ tries \in Nat

BudgetInv == Counts /\ BudgetBound

(* The steps of the specification, one by one. *)
LEMMA Steps ==
  ASSUME [Next]_vars
  PROVE  \/ Begin \/ Pick \/ EndCycle
         \/ Propose \/ RenderRaises \/ JudgeSkipped \/ Judge \/ EndTries
         \/ Dream \/ Evolve \/ EvolveSkipped \/ Archive \/ Count
         \/ Sync("recipe", "sync_recipe", "dream")
         \/ Sync("params", "sync_params", "evolve")
         \/ Sync("program", "sync_program", "archive")
         \/ Week \/ Crash
         \/ SyncFails("recipe", "sync_recipe")
         \/ SyncFails("params", "sync_params")
         \/ SyncFails("program", "sync_program")
         \/ UNCHANGED vars
BY DEF Next, Run, Cycle, Episode, Offline, Failure

(* A cycle never makes more calls than the budget and the repairs of one     *)
(* generation: every call but a repair is made after a look at the budget.   *)
THEOREM BudgetKept == Spec => []BudgetBound
<1>. USE ConstantsAssumption DEF ConstantsAssumption, BudgetInv, Counts, BudgetBound
<1>1. Init => BudgetInv
  BY DEF Init
<1>2. BudgetInv /\ [Next]_vars => BudgetInv'
  <2> SUFFICES ASSUME BudgetInv, [Next]_vars PROVE BudgetInv'
    OBVIOUS
  <2>1. CASE Begin \/ Pick \/ EndCycle \/ Count \/ Crash \/ RenderRaises
    <3>1. CASE Pick \/ EndCycle \/ Count
      BY <2>1, <3>1, SMTT(30) DEF Pick, EndCycle, Count, Forget, cycleVars
    <3>2. CASE Begin \/ Crash \/ RenderRaises
      <4>1. used' = 0 /\ reported' = 0
        BY <3>2 DEF Begin, Crash, RenderRaises, Abort
      <4>2. before' \in Nat /\ tries' \in Nat
        BY <3>2 DEF Begin, Crash, RenderRaises, Abort, Forget, episodeVars
      <4>. QED
        BY <4>1, <4>2
    <3>. QED
      BY <2>1, <3>1, <3>2
  <2>2. CASE Propose
    <3>1. used < Budget
      BY <2>2 DEF Propose, Trying, Exhausted
    <3>2. used' = used + 1 /\ reported' = reported + 1 /\ tries' = tries + 1
      BY <2>2 DEF Propose, Call
    <3>3. before' = before
      BY <2>2 DEF Propose, Verdict
    <3>. QED
      BY <3>1, <3>2, <3>3
  <2>3. CASE Judge
    <3>1. used < Budget /\ used' = used + 1 /\ reported' = reported + 1
      BY <2>3 DEF Judge, Exhausted, Call
    <3>2. before' = before /\ tries' = tries
      BY <2>3 DEF Judge, Verdict
    <3>. QED
      BY <3>1, <3>2
  <2>4. CASE Evolve
    <3>1. PICK n \in 0 .. 1 + MaxRepair : Call(n)
      BY <2>4 DEF Evolve
    <3>2. ~Exhausted /\ UNCHANGED <<before, tries>>
      BY <2>4 DEF Evolve, Evolvable, episodeVars
    <3>. QED
      BY <3>1, <3>2 DEF Call, Exhausted
  <2>5. CASE JudgeSkipped \/ EndTries \/ EvolveSkipped \/ Archive \/ Dream \/ Week \/ UNCHANGED vars
    BY <2>5 DEF JudgeSkipped, EndTries, EvolveSkipped, Archive, Dream, Week, vars, cycleVars, episodeVars
  <2>6. ASSUME NEW k, NEW place, NEW next, Sync(k, place, next)
        PROVE  BudgetInv'
    BY <2>6 DEF Sync, cycleVars, episodeVars
  <2>7. ASSUME NEW k, NEW place, SyncFails(k, place)
        PROVE  BudgetInv'
    <3>1. CASE Abort
      BY <3>1 DEF Abort, Forget
    <3>2. CASE UNCHANGED <<cycleVars, episodeVars>>
      BY <3>2 DEF cycleVars, episodeVars
    <3>. QED
      BY <2>7, <3>1, <3>2 DEF SyncFails
  <2>. QED
    BY <2>1, <2>2, <2>3, <2>4, <2>5, <2>6, <2>7, Steps
<1>. QED
  BY <1>1, <1>2, PTL DEF Spec

-----------------------------------------------------------------------------
(* The order of a cycle.                                                    *)

Counters == attempts \in [Tasks -> Nat]
Last == Len(Queue)
At(k) == CHOOSE j \in 1 .. Last : Place(j) = k - 1

LEMMA QueueFacts ==
  /\ Last \in Nat \ {0}
  /\ \A j \in 1 .. Last : Queue[j] \in Tasks
  /\ \A j, k \in 1 .. Last : Queue[j] = Queue[k] => j = k
  /\ \A t \in Tasks : \E j \in 1 .. Last : Queue[j] = t
<1>1. Queue \in Seq(Tasks) /\ Queue # <<>>
  BY ConstantsAssumption
<1>2. Last \in Nat \ {0}
  BY <1>1 DEF Last
<1>. QED
  BY <1>2, ConstantsAssumption DEF Tasks, Last

LEMMA AheadFacts ==
  ASSUME Counters
  PROVE  /\ \A j \in 1 .. Last : ~Ahead(j, j)
         /\ \A j, k \in 1 .. Last : j # k => Ahead(j, k) \/ Ahead(k, j)
         /\ \A i, j, k \in 1 .. Last : Ahead(i, j) /\ Ahead(j, k) => Ahead(i, k)
         /\ \A j, k \in 1 .. Last : Ahead(j, k) => attempts[Queue[j]] <= attempts[Queue[k]]
<1>1. \A j \in 1 .. Last : attempts[Queue[j]] \in Nat
  BY QueueFacts DEF Counters
<1>2. 1 .. Last \subseteq Nat
  BY QueueFacts
<1>. QED
  BY <1>1, <1>2 DEF Ahead

LEMMA PlaceOrder ==
  ASSUME Counters, NEW j \in 1 .. Last, NEW k \in 1 .. Last, Ahead(j, k)
  PROVE  Place(j) < Place(k)
<1>. DEFINE lower == {i \in 1 .. Last : Ahead(i, j)}
            upper == {i \in 1 .. Last : Ahead(i, k)}
<1>1. lower \in SUBSET upper /\ j \in upper /\ j \notin lower
  BY AheadFacts
<1>2. IsFiniteSet(upper)
  <2>1. IsFiniteSet(1 .. Last) /\ upper \subseteq 1 .. Last
    BY QueueFacts, FS_Interval
  <2>. HIDE DEF upper
  <2>. QED
    BY <2>1, FS_Subset
<1>3. Cardinality(lower) < Cardinality(upper)
  <2>. HIDE DEF lower, upper
  <2>. QED
    BY <1>1, <1>2, StrictSubset
<1>. QED
  BY <1>3 DEF Place, Last

LEMMA PlaceBound ==
  ASSUME Counters, NEW j \in 1 .. Last
  PROVE  Place(j) \in 0 .. Last - 1
<1>. DEFINE lower == {i \in 1 .. Last : Ahead(i, j)}
<1>1. lower \in SUBSET (1 .. Last) /\ j \notin lower
  BY AheadFacts
<1>2. IsFiniteSet(1 .. Last) /\ Cardinality(1 .. Last) = Last /\ Last \in Nat
  BY QueueFacts, FS_Interval
<1>3. Cardinality(lower) < Last /\ Cardinality(lower) \in Nat
  <2>. HIDE DEF lower
  <2>1. Cardinality(lower) < Cardinality(1 .. Last)
    BY <1>1, <1>2, StrictSubset
  <2>2. IsFiniteSet(lower)
    BY <1>1, <1>2, FS_Subset
  <2>. QED
    BY <1>2, <2>1, <2>2, FS_CardinalityType
<1>. QED
  BY <1>2, <1>3 DEF Place, Last

(* Places are taken once and all of them are: each cycle has every task in   *)
(* its order, once.                                                          *)
LEMMA AtFacts ==
  ASSUME Counters
  PROVE  /\ \A k \in 1 .. Last : At(k) \in 1 .. Last /\ Place(At(k)) = k - 1
         /\ \A j \in 1 .. Last : \E k \in 1 .. Last : At(k) = j
<1>1. \A j, k \in 1 .. Last : Place(j) = Place(k) => j = k
  <2>. SUFFICES ASSUME NEW j \in 1 .. Last, NEW k \in 1 .. Last, j # k
                PROVE  Place(j) # Place(k)
    OBVIOUS
  <2>1. Place(j) \in Int /\ Place(k) \in Int
    BY PlaceBound, QueueFacts
  <2>2. Place(j) < Place(k) \/ Place(k) < Place(j)
    BY AheadFacts, PlaceOrder
  <2>. QED
    BY <2>1, <2>2
<1>. DEFINE f == [j \in 1 .. Last |-> Place(j)]
<1>2. f \in Injection(1 .. Last, 0 .. Last - 1)
  <2>1. \A j \in 1 .. Last : f[j] = Place(j) /\ Place(j) \in 0 .. Last - 1
    BY PlaceBound
  <2>2. f \in [1 .. Last -> 0 .. Last - 1]
    BY <2>1
  <2>3. DOMAIN f = 1 .. Last /\ \A j, k \in 1 .. Last : f[j] = f[k] => j = k
    BY <1>1, <2>1
  <2>. HIDE DEF f
  <2>. QED
    BY <2>2, <2>3 DEF Injection, IsInjective
<1>3. f \in Surjection(1 .. Last, 0 .. Last - 1)
  <2>1. Last \in Nat \ {0}
    BY QueueFacts
  <2>2. IsFiniteSet(0 .. Last - 1) /\ Cardinality(0 .. Last - 1) = Last
    BY <2>1, FS_Interval
  <2>3. Cardinality(1 .. Last) = Last
    BY <2>1, FS_Interval
  <2>. HIDE DEF f
  <2>. QED
    BY <1>2, <2>2, <2>3, FS_Injection
<1>4. \A k \in 1 .. Last : \E j \in 1 .. Last : Place(j) = k - 1
  <2>. TAKE k \in 1 .. Last
  <2>1. k - 1 \in 0 .. Last - 1
    BY QueueFacts
  <2>. QED
    BY <1>3, <2>1 DEF Surjection
<1>5. \A k \in 1 .. Last : At(k) \in 1 .. Last /\ Place(At(k)) = k - 1
  BY <1>4 DEF At
<1>6. \A j \in 1 .. Last : \E k \in 1 .. Last : At(k) = j
  <2>. TAKE j \in 1 .. Last
  <2>. DEFINE k == Place(j) + 1
  <2>1. k \in 1 .. Last /\ k - 1 = Place(j)
    BY PlaceBound, QueueFacts
  <2>2. At(k) \in 1 .. Last /\ Place(At(k)) = Place(j)
    BY <2>1, <1>5
  <2>. HIDE DEF k
  <2>. QED
    BY <2>1, <2>2, <1>1
<1>. QED
  BY <1>5, <1>6

LEMMA LeastAttemptedFacts ==
  ASSUME Counters
  PROVE  /\ LeastAttempted \in Seq(Tasks)
         /\ \A k, l \in 1 .. Len(LeastAttempted) :
              k < l => /\ LeastAttempted[k] # LeastAttempted[l]
                       /\ attempts[LeastAttempted[k]] <= attempts[LeastAttempted[l]]
         /\ \A t \in Tasks : \E k \in 1 .. Len(LeastAttempted) : LeastAttempted[k] = t
<1>1. LeastAttempted = [k \in 1 .. Last |-> Queue[At(k)]]
  BY DEF LeastAttempted, At, Last
<1>2. \A k \in 1 .. Last : At(k) \in 1 .. Last /\ Place(At(k)) = k - 1 /\ Queue[At(k)] \in Tasks
  BY AtFacts, QueueFacts
<1>3. LeastAttempted \in Seq(Tasks) /\ Len(LeastAttempted) = Last
  BY <1>1, <1>2, QueueFacts
<1>4. ASSUME NEW k \in 1 .. Last, NEW l \in 1 .. Last, k < l
      PROVE  /\ Queue[At(k)] # Queue[At(l)]
             /\ attempts[Queue[At(k)]] <= attempts[Queue[At(l)]]
  <2>1. k \in Int /\ l \in Int
    BY QueueFacts
  <2>2. At(k) # At(l)
    BY <1>2, <1>4, <2>1
  <2>3. ~Ahead(At(l), At(k))
    <3>1. SUFFICES ASSUME Ahead(At(l), At(k)) PROVE FALSE
      OBVIOUS
    <3>2. Place(At(l)) < Place(At(k))
      BY <1>2, <3>1, PlaceOrder
    <3>. QED
      BY <1>2, <1>4, <2>1, <3>2
  <2>4. Ahead(At(k), At(l))
    BY <1>2, <2>2, <2>3, AheadFacts
  <2>. QED
    BY <1>2, <2>2, <2>4, AheadFacts, QueueFacts
<1>5. \A t \in Tasks : \E k \in 1 .. Last : Queue[At(k)] = t
  BY AtFacts, QueueFacts
<1>6. \A k \in 1 .. Last : LeastAttempted[k] = Queue[At(k)]
  BY <1>1
<1>. QED
  BY <1>3, <1>4, <1>5, <1>6

(* Counts are kept by their differences.                                    *)
LEMMA LevelledFacts ==
  ASSUME NEW f \in [Tasks -> Nat]
  PROVE  \E m \in Nat : /\ Levelled(f) = [t \in Tasks |-> f[t] - m]
                        /\ \A t \in Tasks : m <= f[t]
                        /\ \E t \in Tasks : m = f[t]
<1>. DEFINE counts == {f[t] : t \in Tasks}
            least == CHOOSE n \in counts : \A t \in Tasks : n <= f[t]
<1>1. \E n \in counts : \A t \in Tasks : n <= f[t]
  <2>1. counts \in SUBSET Nat /\ counts # {}
    BY QueueFacts
  <2>2. PICK n \in counts : \A c \in counts : n <= c
    <3>. HIDE DEF counts
    <3>. QED
      BY <2>1, LeastNatural
  <2>. QED
    BY <2>2
<1>2. least \in counts /\ \A t \in Tasks : least <= f[t]
  <2>. HIDE DEF counts
  <2>. QED
    BY <1>1
<1>3. Levelled(f) = [t \in Tasks |-> f[t] - least]
  BY DEF Levelled
<1>. HIDE DEF least
<1>. QED
  BY <1>2, <1>3

-----------------------------------------------------------------------------
(* Types.                                                                   *)

CycleTyped == left \in Seq(Tasks) /\ used \in Nat /\ reported \in Nat
EpisodeTyped ==
  /\ task \in Tasks /\ tries \in Nat /\ solved \in BOOLEAN
  /\ before \in Nat /\ nodes \in 0 .. MaxSteps
StoresTyped ==
  /\ stored \in [Stores -> [Categories -> Values]]
  /\ mirrored \in [Stores -> [Categories -> Values]]
  /\ old \subseteq Stores \X Categories
OthersTyped ==
  /\ malformed \subseteq Unchecked /\ faults \in 0 .. MaxFaults
  /\ unsynced \subseteq Stores \X Categories /\ orphaned \subseteq Categories

LEMMA TypeParts ==
  TypeOK <=> /\ pc \in Places /\ CycleTyped /\ EpisodeTyped /\ StoresTyped
             /\ steps \in [Tasks -> 0 .. MaxSteps] /\ attempts \in [Tasks -> Nat]
             /\ OthersTyped
BY DEF TypeOK, OthersTyped, CycleTyped, EpisodeTyped, StoresTyped

LEMMA PutTyped ==
  ASSUME NEW f \in [Stores -> [Categories -> Values]], NEW k \in Stores, NEW v \in Values,
         task \in Tasks
  PROVE  /\ Put(f, k, v) \in [Stores -> [Categories -> Values]]
         /\ Cat \in Categories
<1>1. Cat \in Categories
  BY ConstantsAssumption DEF Cat
<1>2. f[k] \in [Categories -> Values]
  OBVIOUS
<1>. QED
  BY <1>1, <1>2 DEF Put

LEMMA StoresPut ==
  ASSUME TypeOK
  PROVE  \A k \in Stores, v \in Values : Put(stored, k, v) \in [Stores -> [Categories -> Values]]
<1>1. stored \in [Stores -> [Categories -> Values]] /\ task \in Tasks
  BY DEF TypeOK
<1>. QED
  BY <1>1, PutTyped

LEMMA Values0 == /\ 0 \in Values /\ Scores \subseteq Values /\ Params \subseteq Values
                 /\ 0 .. MaxSteps \subseteq Values
                 /\ Queue[1] \in Tasks /\ 0 \in 0 .. MaxSteps
                 /\ 0 \in 0 .. MaxFaults
BY ConstantsAssumption, QueueFacts DEF Values, ConstantsAssumption

LEMMA ForgetTyped ==
  ASSUME Forget
  PROVE  EpisodeTyped'
BY Values0 DEF Forget, EpisodeTyped

LEMMA GrowTyped ==
  ASSUME nodes \in 0 .. MaxSteps, Grow
  PROVE  nodes' \in 0 .. MaxSteps /\ nodes' >= nodes
<1>1. MaxSteps \in Nat /\ nodes \in Nat /\ nodes <= MaxSteps
  BY ConstantsAssumption DEF ConstantsAssumption
<1>2. nodes' = nodes \/ (nodes < MaxSteps /\ nodes' = nodes + 1)
  BY DEF Grow
<1>. QED
  BY <1>1, <1>2

LEMMA CallTyped ==
  ASSUME CycleTyped, NEW n \in Nat, Call(n), left' = left
  PROVE  CycleTyped'
BY DEF CycleTyped, Call

(* A verdict has a place, a tree and stores of their types.                 *)
LEMMA VerdictTyped ==
  ASSUME TypeOK, Verdict
  PROVE  /\ pc' \in Places /\ nodes' \in 0 .. MaxSteps /\ solved' \in BOOLEAN
         /\ StoresTyped'
<1>1. nodes' \in 0 .. MaxSteps
  BY GrowTyped DEF TypeOK, Verdict
<1>2. mirrored' = mirrored /\ old' = old
  BY DEF Verdict, almVars
<1>3. CASE pc' = "try" /\ UNCHANGED <<solved, stored>>
  BY <1>1, <1>2, <1>3 DEF TypeOK, Places, StoresTyped
<1>4. ASSUME NEW score \in Scores, Learn(score)
      PROVE  pc' \in Places /\ solved' \in BOOLEAN /\ StoresTyped'
  <2>1. pc' \in {"sync_recipe", "dream"} /\ solved' = TRUE
    BY <1>4 DEF Learn
  <2>2. stored' = stored \/ stored' = Put(stored, "recipe", score)
    BY <1>4 DEF Learn
  <2>3. score \in Values /\ task \in Tasks /\ "recipe" \in Stores
    BY Values0 DEF TypeOK, Stores
  <2>4. stored' \in [Stores -> [Categories -> Values]]
    <3>1. stored \in [Stores -> [Categories -> Values]]
      BY DEF TypeOK
    <3>2. Put(stored, "recipe", score) \in [Stores -> [Categories -> Values]]
      BY <2>3, StoresPut
    <3>. QED
      BY <2>2, <3>1, <3>2
  <2>. QED
    BY <1>2, <2>1, <2>4 DEF TypeOK, Places, Syncs, StoresTyped
<1>. QED
  BY <1>1, <1>3, <1>4 DEF Verdict

LEMMA MirrorTyped ==
  ASSUME TypeOK, NEW k \in Stores
  PROVE  /\ task \in Tasks /\ Cat \in Categories
         /\ stored[k][Cat] \in Values /\ mirrored[k][Cat] \in Values
         /\ \A v \in Values : Mirror(k, v) =>
              /\ mirrored' \in [Stores -> [Categories -> Values]]
              /\ old' \subseteq old
<1>1. task \in Tasks /\ Cat \in Categories
  BY ConstantsAssumption DEF TypeOK, Cat
<1>2. stored[k][Cat] \in Values /\ mirrored[k][Cat] \in Values
  BY <1>1 DEF TypeOK
<1>3. ASSUME NEW v \in Values, Mirror(k, v)
      PROVE  mirrored' \in [Stores -> [Categories -> Values]] /\ old' \subseteq old
  <2>1. mirrored \in [Stores -> [Categories -> Values]]
    BY DEF TypeOK
  <2>2. Put(mirrored, k, v) \in [Stores -> [Categories -> Values]]
    BY <1>1, <2>1, PutTyped
  <2>. QED
    BY <1>3, <2>2 DEF Mirror
<1>. QED
  BY <1>1, <1>2, <1>3

LEMMA SyncTyped ==
  ASSUME TypeOK, NEW k \in Stores, NEW place, NEW next \in Places, Sync(k, place, next)
  PROVE  TypeOK'
<1>1. mirrored' \in [Stores -> [Categories -> Values]] /\ old' \subseteq old
  BY MirrorTyped DEF Sync
<1>2. unsynced' \subseteq unsynced
  BY DEF Sync
<1>. QED
  BY <1>1, <1>2 DEF TypeOK, Sync, cycleVars, episodeVars

LEMMA AbortTyped ==
  ASSUME Abort
  PROVE  pc' \in Places /\ CycleTyped' /\ EpisodeTyped'
<1>1. EpisodeTyped'
  BY ForgetTyped DEF Abort
<1>2. CycleTyped' /\ pc' \in Places
  BY DEF Abort, CycleTyped, Places
<1>. QED
  BY <1>1, <1>2

LEMMA SyncFailsTyped ==
  ASSUME TypeOK, NEW k \in Stores, NEW place, SyncFails(k, place)
  PROVE  TypeOK'
<1>1. PICK v \in {mirrored[k][Cat], 0, stored[k][Cat]} : Mirror(k, v)
  BY DEF SyncFails
<1>2. v \in Values
  BY <1>1, MirrorTyped, Values0
<1>3. mirrored' \in [Stores -> [Categories -> Values]] /\ old' \subseteq Stores \X Categories
  BY <1>1, <1>2, MirrorTyped DEF TypeOK
<1>4. faults' \in 0 .. MaxFaults
  <2>1. faults < MaxFaults /\ faults' = faults + 1
    BY DEF SyncFails, Strike
  <2>2. faults \in 0 .. MaxFaults /\ MaxFaults \in Nat
    BY ConstantsAssumption DEF TypeOK
  <2>. QED
    BY <2>1, <2>2
<1>5. unsynced' \subseteq Stores \X Categories
  BY MirrorTyped DEF SyncFails, TypeOK
<1>6. orphaned' \subseteq Categories
  <2>1. orphaned \subseteq Categories /\ Cat \in Categories
    BY MirrorTyped DEF TypeOK
  <2>. QED
    BY <2>1 DEF SyncFails
<1>7. pc' \in Places /\ CycleTyped' /\ EpisodeTyped'
  <2>1. CASE Abort
    BY <2>1, AbortTyped
  <2>2. CASE pc' = "archive" /\ UNCHANGED <<cycleVars, episodeVars>>
    BY <2>2 DEF cycleVars, episodeVars, TypeOK, CycleTyped, EpisodeTyped, Places
  <2>. QED
    BY <2>1, <2>2 DEF SyncFails
<1>8. StoresTyped' /\ OthersTyped'
  BY <1>3, <1>4, <1>5, <1>6 DEF SyncFails, TypeOK, StoresTyped, OthersTyped
<1>. QED
  BY <1>7, <1>8
     DEF SyncFails, TypeOK, CycleTyped, EpisodeTyped, StoresTyped, OthersTyped

(* One attempt on task t is counted, and the counts are levelled.           *)
LEMMA CountTyped ==
  ASSUME NEW f \in [Tasks -> Nat]
  PROVE  Levelled(f) \in [Tasks -> Nat]
<1>1. PICK m \in Nat : /\ Levelled(f) = [t \in Tasks |-> f[t] - m]
                       /\ \A t \in Tasks : m <= f[t]
  BY LevelledFacts
<1>2. \A t \in Tasks : f[t] - m \in Nat
  BY <1>1
<1>. QED
  BY <1>1, <1>2

LEMMA TypeStep == TypeOK /\ [Next]_vars => TypeOK'
<1> SUFFICES ASSUME TypeOK, [Next]_vars PROVE TypeOK'
  OBVIOUS
<1>. USE DEF cycleVars, episodeVars, durableVars, almVars, others, history
<1>1. CASE Begin
  <2>1. left' \in Seq(Tasks)
    BY <1>1, LeastAttemptedFacts DEF Begin, TypeOK, Counters
  <2>. QED
    BY <1>1, <2>1 DEF Begin, TypeOK, Places
<1>2. CASE Pick
  <2>1. Head(left) \in Tasks /\ Tail(left) \in Seq(Tasks)
    BY <1>2 DEF Pick, TypeOK
  <2>2. CycleTyped'
    BY <1>2, <2>1 DEF Pick, TypeOK, CycleTyped
  <2>3. task' \in Tasks /\ steps[task'] \in 0 .. MaxSteps
    BY <1>2, <2>1 DEF Pick, TypeOK
  <2>4. EpisodeTyped'
    BY <1>2, <2>3, Values0 DEF Pick, TypeOK, EpisodeTyped
  <2>. QED
    BY <1>2, <2>2, <2>4, TypeParts
       DEF Pick, TypeOK, Places, CycleTyped, EpisodeTyped, StoresTyped, OthersTyped
<1>3. CASE EndCycle
  <2>1. EpisodeTyped'
    BY <1>3, ForgetTyped DEF EndCycle
  <2>2. mirrored' \in [Stores -> [Categories -> Values]]
    BY <1>3, Values0 DEF EndCycle, Retire, TypeOK
  <2>3. left' \in Seq(Tasks)
    BY <1>3 DEF EndCycle
  <2>. QED
    BY <1>3, <2>1, <2>2, <2>3 DEF EndCycle, EpisodeTyped, TypeOK, Places
<1>4. CASE Propose
  <2>1. CycleTyped'
    <3>1. left' = left /\ Call(1)
      BY <1>4 DEF Propose, Verdict
    <3>. QED
      BY <3>1, CallTyped DEF TypeOK, CycleTyped
  <2>2. tries' \in Nat
    BY <1>4 DEF Propose, TypeOK
  <2>3. CASE Verdict
    BY <2>1, <2>2, <2>3, VerdictTyped, TypeParts
       DEF Verdict, TypeOK, CycleTyped, EpisodeTyped, StoresTyped, OthersTyped
  <2>4. CASE UNCHANGED <<left, task, solved, before, nodes, durableVars, others>>
             /\ (pc' = pc \/ pc' = "judge")
    BY <2>1, <2>2, <2>4, TypeParts
       DEF TypeOK, CycleTyped, EpisodeTyped, StoresTyped, OthersTyped, Places
  <2>. QED
    BY <1>4, <2>3, <2>4 DEF Propose
<1>5. CASE JudgeSkipped
  <2>1. nodes' \in 0 .. MaxSteps
    BY <1>5, GrowTyped DEF TypeOK, JudgeSkipped
  <2>. QED
    BY <1>5, <2>1 DEF JudgeSkipped, TypeOK, Places
<1>6. CASE Judge
  <2>1. CycleTyped'
    <3>1. left' = left /\ Call(1)
      BY <1>6 DEF Judge, Verdict
    <3>. QED
      BY <3>1, CallTyped DEF TypeOK, CycleTyped
  <2>2. Verdict /\ tries' = tries
    BY <1>6 DEF Judge
  <2>. QED
    BY <2>1, <2>2, VerdictTyped, TypeParts
       DEF Verdict, TypeOK, CycleTyped, EpisodeTyped, StoresTyped, OthersTyped
<1>7. CASE EndTries \/ EvolveSkipped
  BY <1>7 DEF EndTries, EvolveSkipped, TypeOK, Places
<1>8. CASE Dream
  <2>1. PICK best \in Params :
          \/ stored' = Put(stored, "params", best) /\ pc' = "sync_params"
          \/ stored' = stored /\ pc' = "evolve"
    BY <1>8 DEF Dream
  <2>2. stored' \in [Stores -> [Categories -> Values]]
    <3>1. "params" \in Stores /\ best \in Values /\ task \in Tasks
      BY Values0 DEF Stores, TypeOK
    <3>. QED
      BY <2>1, <3>1, StoresPut DEF TypeOK
  <2>3. pc' \in Places
    BY <2>1 DEF Places, Syncs
  <2>. QED
    BY <1>8, <2>2, <2>3 DEF Dream, TypeOK
<1>9. CASE Evolve
  <2>1. PICK n \in 0 .. 1 + MaxRepair :
          /\ Call(n)
          /\ \/ pc' = "archive" /\ stored' = stored
             \/ stored' = Put(stored, "program", nodes) /\ pc' = "sync_program"
    BY <1>9 DEF Evolve
  <2>2. stored' \in [Stores -> [Categories -> Values]]
    <3>1. "program" \in Stores /\ nodes \in Values /\ task \in Tasks
      BY Values0 DEF Stores, TypeOK
    <3>. QED
      BY <2>1, <3>1, StoresPut DEF TypeOK
  <2>3. pc' \in Places
    BY <2>1 DEF Places, Syncs
  <2>4. CycleTyped'
    <3>1. left' = left /\ n \in Nat
      BY <1>9, ConstantsAssumption DEF Evolve, ConstantsAssumption
    <3>. QED
      BY <2>1, <3>1, CallTyped DEF TypeOK, CycleTyped
  <2>. QED
    BY <1>9, <2>2, <2>3, <2>4, TypeParts
       DEF Evolve, TypeOK, CycleTyped, EpisodeTyped, StoresTyped, OthersTyped
<1>10. CASE Archive
  BY <1>10 DEF Archive, TypeOK, Places
<1>11. CASE Count
  <2>1. EpisodeTyped'
    BY <1>11, ForgetTyped DEF Count
  <2>2. attempts' \in [Tasks -> Nat]
    <3>1. [attempts EXCEPT ![task] = @ + 1] \in [Tasks -> Nat]
      BY DEF TypeOK
    <3>. QED
      BY <1>11, <3>1, CountTyped DEF Count
  <2>. QED
    BY <1>11, <2>1, <2>2 DEF Count, EpisodeTyped, TypeOK, Places
<1>12. CASE Week
  <2>1. old' \subseteq Stores \X Categories
    BY <1>12 DEF Week, TypeOK
  <2>. QED
    BY <1>12, <2>1 DEF Week, TypeOK
<1>13. CASE Crash \/ RenderRaises
  <2>1. pc' \in Places /\ CycleTyped' /\ EpisodeTyped'
    BY <1>13, AbortTyped DEF Crash, RenderRaises
  <2>2. faults' \in 0 .. MaxFaults
    <3>1. faults' = faults \/ (faults < MaxFaults /\ faults' = faults + 1)
      BY <1>13 DEF Crash, Strike, RenderRaises
    <3>2. faults \in 0 .. MaxFaults /\ MaxFaults \in Nat
      BY ConstantsAssumption DEF TypeOK, ConstantsAssumption
    <3>. QED
      BY <3>1, <3>2
  <2>3. orphaned' \subseteq Categories
    <3>1. orphaned \subseteq Categories /\ Cat \in Categories
      BY ConstantsAssumption DEF TypeOK, Cat
    <3>. QED
      BY <1>13, <3>1 DEF Crash, RenderRaises, history
  <2>4. UNCHANGED <<durableVars, malformed, unsynced>>
    BY <1>13 DEF Crash, RenderRaises, history
  <2>. QED
    BY <2>1, <2>2, <2>3, <2>4 DEF TypeOK, CycleTyped, EpisodeTyped
<1>14. CASE \/ Sync("recipe", "sync_recipe", "dream")
            \/ Sync("params", "sync_params", "evolve")
            \/ Sync("program", "sync_program", "archive")
  <2>1. {"recipe", "params", "program"} \subseteq Stores /\ {"dream", "evolve", "archive"} \subseteq Places
    BY DEF Stores, Places
  <2>. QED
    BY <1>14, <2>1, SyncTyped
<1>15. CASE \/ SyncFails("recipe", "sync_recipe")
            \/ SyncFails("params", "sync_params")
            \/ SyncFails("program", "sync_program")
  BY <1>15, SyncFailsTyped DEF Stores
<1>16. CASE UNCHANGED vars
  BY <1>16 DEF TypeOK, vars
<1>. QED
  BY <1>1, <1>2, <1>3, <1>4, <1>5, <1>6, <1>7, <1>8, <1>9, <1>10, <1>11, <1>12, <1>13, <1>14,
     <1>15, <1>16, Steps

LEMMA TypeInit == Init => TypeOK
<1> SUFFICES ASSUME Init PROVE TypeOK
  OBVIOUS
<1>1. stored \in [Stores -> [Categories -> Values]] /\ mirrored = stored /\ old = {}
  BY Values0 DEF Init
<1>2. steps \in [Tasks -> 0 .. MaxSteps] /\ attempts \in [Tasks -> Nat]
  BY Values0 DEF Init
<1>3. left \in Seq(Tasks) /\ used = 0 /\ reported = 0
  BY DEF Init
<1>4. EpisodeTyped
  BY Values0 DEF Init, EpisodeTyped
<1>. QED
  BY <1>1, <1>2, <1>3, <1>4, Values0 DEF Init, EpisodeTyped, TypeOK, Places

(* Every variable of the loop keeps its type.                               *)
THEOREM LoopTyped == Spec => []TypeOK
BY TypeInit, TypeStep, PTL DEF Spec

-----------------------------------------------------------------------------
(* An episode is begun with a call left, and has made one once it has tried; *)
(* it ends without a try only where the task is granted none.                *)

AfterTries == {"dream", "evolve", "archive", "count"} \cup Syncs
SpendInv ==
  /\ pc = "try" /\ tries = 0 => ~Exhausted /\ reported = before
  /\ pc \in {"try", "judge"} /\ tries > 0 => reported > before
  /\ pc = "judge" => tries > 0
  /\ pc \in AfterTries /\ MaxTries[task] > 0 => reported > before

(* No episode is counted as an attempt on its task that has not asked the    *)
(* model, unless the task is granted no attempt: a cycle whose budget is     *)
(* used up does not advance the rotation.                                    *)
THEOREM EpisodesSpend == Spec => []EpisodeSpends
<1>. USE DEF AfterTries, Syncs
<1>1. Init => SpendInv
  BY DEF Init, SpendInv
<1>2. TypeOK /\ SpendInv /\ [Next]_vars => TypeOK' /\ SpendInv'
  <2> SUFFICES ASSUME TypeOK, SpendInv, [Next]_vars PROVE SpendInv'
    BY TypeStep
  <2>. USE DEF SpendInv
  <2>0. /\ used \in Int /\ reported \in Int /\ before \in Int /\ tries \in Nat
        /\ Budget \in Int /\ task \in Tasks /\ MaxTries[task] \in Int
    BY ConstantsAssumption DEF TypeOK, ConstantsAssumption
  <2>1. CASE Begin \/ EndCycle \/ Count \/ Crash \/ RenderRaises
    <3>1. pc' \in {"pick", "idle"}
      BY <2>1 DEF Begin, EndCycle, Count, Crash, RenderRaises, Abort
    <3>. QED
      BY <3>1
  <2>2. CASE Pick
    BY <2>0, <2>2 DEF Pick, Exhausted
  <2>3. CASE Propose
    <3>1. /\ reported' = reported + 1 /\ before' = before
          /\ tries' = tries + 1 /\ pc = "try"
      BY <2>3 DEF Propose, Trying, Call, Verdict
    <3>2. reported' > before' /\ tries' > 0
      BY <2>0, <3>1
    <3>. QED
      BY <3>2
  <2>4. CASE Judge
    <3>1. /\ reported' = reported + 1 /\ before' = before
          /\ tries' = tries /\ pc = "judge"
      BY <2>4 DEF Judge, Call, Verdict
    <3>2. reported' > before' /\ tries' > 0
      BY <2>0, <3>1
    <3>. QED
      BY <3>2
  <2>5. CASE JudgeSkipped
    <3>1. UNCHANGED <<reported, before, tries>> /\ pc = "judge" /\ pc' = "try"
      BY <2>5 DEF JudgeSkipped, cycleVars
    <3>. QED
      BY <2>0, <3>1
  <2>6. CASE EndTries
    <3>1. UNCHANGED <<reported, before, tries, task>> /\ pc = "try" /\ pc' = "dream"
      BY <2>6 DEF EndTries, cycleVars, episodeVars
    <3>2. MaxTries[task] > 0 => tries > 0
      BY <2>0, <2>6 DEF EndTries
    <3>. QED
      BY <2>0, <3>1, <3>2
  <2>7. CASE Evolve
    <3>1. PICK n \in 0 .. 1 + MaxRepair : Call(n)
      BY <2>7 DEF Evolve
    <3>2. /\ UNCHANGED <<before, task>> /\ pc = "evolve"
          /\ pc' \in {"archive", "sync_program"}
      BY <2>7 DEF Evolve, episodeVars
    <3>. QED
      BY <2>0, <3>1, <3>2, ConstantsAssumption DEF Call, ConstantsAssumption
  <2>8. CASE Dream \/ EvolveSkipped \/ Archive
    <3>1. /\ UNCHANGED <<reported, before, task>> /\ pc \in AfterTries
          /\ pc' \in {"sync_params", "evolve", "archive", "count"}
      BY <2>8 DEF Dream, EvolveSkipped, Archive, cycleVars, episodeVars
    <3>. QED
      BY <3>1
  <2>9. ASSUME NEW k, NEW place \in Syncs, NEW next \in AfterTries, Sync(k, place, next)
        PROVE  SpendInv'
    <3>1. UNCHANGED <<reported, before, task>> /\ pc = place /\ pc' = next
      BY <2>9 DEF Sync, cycleVars, episodeVars
    <3>. QED
      BY <3>1
  <2>10. ASSUME NEW k, NEW place \in Syncs, SyncFails(k, place)
         PROVE  SpendInv'
    <3>1. CASE Abort
      BY <3>1 DEF Abort
    <3>2. CASE pc' = "archive" /\ UNCHANGED <<cycleVars, episodeVars>>
      BY <2>10, <3>2 DEF SyncFails, cycleVars, episodeVars
    <3>. QED
      BY <2>10, <3>1, <3>2 DEF SyncFails
  <2>11. CASE Week \/ UNCHANGED vars
    BY <2>11 DEF Week, vars, cycleVars, episodeVars, Exhausted
  <2>12. CASE \/ Sync("recipe", "sync_recipe", "dream")
              \/ Sync("params", "sync_params", "evolve")
              \/ Sync("program", "sync_program", "archive")
    BY <2>9, <2>12
  <2>13. CASE \/ SyncFails("recipe", "sync_recipe")
              \/ SyncFails("params", "sync_params")
              \/ SyncFails("program", "sync_program")
    BY <2>10, <2>13
  <2>. QED
    BY <2>1, <2>2, <2>3, <2>4, <2>5, <2>6, <2>7, <2>8, <2>11, <2>12, <2>13, Steps
<1>3. SpendInv => EpisodeSpends
  BY DEF SpendInv, EpisodeSpends
<1>. QED
  BY <1>1, <1>2, <1>3, TypeInit, PTL DEF Spec

-----------------------------------------------------------------------------
(* The rotation.  FairGap is not inductive: that no task is two ahead holds  *)
(* because the tasks of a cycle are taken by their counts, so that a task    *)
(* which is ahead is only worked on when all that are behind are still to    *)
(* come, of which then there would be none.                                  *)

Working == pc \notin {"idle", "pick"}
Waiting(t) == (Working /\ t = task) \/ \E k \in 1 .. Len(left) : left[k] = t

InOrder ==
  \A k, l \in 1 .. Len(left) : k < l => /\ left[k] # left[l]
                                        /\ attempts[left[k]] <= attempts[left[l]]
First ==
  Working => \A k \in 1 .. Len(left) : /\ left[k] # task
                                       /\ attempts[task] <= attempts[left[k]]
BehindWait ==
  (\E t \in Tasks : Waiting(t) /\ attempts[t] = 1)
    => \A t \in Tasks : attempts[t] = 0 => Waiting(t)

FairInv ==
  /\ FairGap
  /\ \E t \in Tasks : attempts[t] = 0
  /\ InOrder /\ First /\ BehindWait

LEMMA FairInit == Init => FairInv
<1> SUFFICES ASSUME Init PROVE FairInv
  OBVIOUS
<1>1. \A t \in Tasks : attempts[t] = 0
  BY DEF Init
<1>2. left = <<>> /\ pc = "idle" /\ Len(left) = 0
  BY DEF Init
<1>. QED
  BY <1>1, <1>2, QueueFacts DEF FairInv, FairGap, InOrder, First, BehindWait, Working, Waiting

(* Nothing of the rotation is touched within an episode.                    *)
LEMMA FairSame ==
  ASSUME FairInv, UNCHANGED <<left, task, attempts>>, Working, Working'
  PROVE  FairInv'
BY DEF FairInv, FairGap, InOrder, First, BehindWait, Waiting

(* The end of a cycle, a kill, and the weeks between cycles.                *)
LEMMA FairEnd ==
  ASSUME FairInv, attempts' = attempts, left' = <<>>, pc' = "idle"
  PROVE  FairInv'
<1>1. Len(left') = 0 /\ ~Working'
  BY DEF Working
<1>. QED
  BY <1>1 DEF FairInv, FairGap, InOrder, First, BehindWait, Waiting

LEMMA FairBegin ==
  ASSUME TypeOK, FairInv, Begin
  PROVE  FairInv'
<1>1. left' = LeastAttempted /\ attempts' = attempts /\ ~Working'
  BY DEF Begin, Working, durableVars
<1>2. Counters
  BY DEF TypeOK, Counters
<1>3. InOrder'
  BY <1>1, <1>2, LeastAttemptedFacts DEF InOrder
<1>4. \A t \in Tasks : Waiting(t)'
  BY <1>1, <1>2, LeastAttemptedFacts DEF Waiting
<1>. QED
  BY <1>1, <1>3, <1>4 DEF FairInv, FairGap, First, BehindWait

LEMMA FairPick ==
  ASSUME TypeOK, FairInv, Pick
  PROVE  FairInv'
<1>1. /\ left # <<>> /\ task' = Head(left) /\ left' = Tail(left) /\ attempts' = attempts
      /\ ~Working /\ Working'
  BY DEF Pick, Working, durableVars
<1>2. left \in Seq(Tasks)
  BY DEF TypeOK
<1>3. /\ Len(left) \in Nat \ {0} /\ task' = left[1] /\ Len(left') = Len(left) - 1
      /\ \A k \in 1 .. Len(left') : left'[k] = left[k + 1] /\ k + 1 \in 1 .. Len(left) /\ 1 < k + 1
      /\ 1 \in 1 .. Len(left)
  BY <1>1, <1>2
<1>4. InOrder'
  <2>1. \A k, l \in 1 .. Len(left') : k < l => k + 1 < l + 1
    BY <1>3
  <2>. QED
    BY <1>1, <1>3, <2>1 DEF FairInv, InOrder
<1>5. First'
  BY <1>1, <1>3 DEF FairInv, InOrder, First
<1>6. \A t \in Tasks : Waiting(t)' <=> Waiting(t)
  <2>1. \A k \in 1 .. Len(left) : k = 1 \/ (k - 1 \in 1 .. Len(left') /\ left'[k - 1] = left[k])
    BY <1>3
  <2>. QED
    BY <1>1, <1>3, <2>1, ZenonT(60) DEF Waiting
<1>. QED
  BY <1>1, <1>4, <1>5, <1>6 DEF FairInv, FairGap, BehindWait

LEMMA FairCount ==
  ASSUME TypeOK, FairInv, Count
  PROVE  FairInv'
<1>. DEFINE f == [attempts EXCEPT ![task] = @ + 1]
<1>1. /\ attempts' = Levelled(f) /\ left' = left
      /\ Working /\ ~Working'
  BY DEF Count, Working, cycleVars
<1>2. task \in Tasks /\ left \in Seq(Tasks) /\ attempts \in [Tasks -> Nat] /\ Len(left) \in Nat
  BY DEF TypeOK
<1>3. \A t \in Tasks : attempts[t] = 0 \/ attempts[t] = 1
  BY <1>2 DEF FairInv, FairGap
<1>4. \A k \in 1 .. Len(left) : left[k] \in Tasks /\ left[k] # task
  BY <1>1, <1>2 DEF FairInv, First
<1>5. attempts[task] = 0
  <2> SUFFICES ASSUME attempts[task] = 1 PROVE FALSE
    BY <1>2, <1>3
  <2>1. Waiting(task)
    BY <1>1 DEF Waiting
  <2>2. PICK t \in Tasks : attempts[t] = 0
    BY DEF FairInv
  <2>3. Waiting(t)
    BY <1>2, <2>1, <2>2 DEF FairInv, BehindWait
  <2>4. PICK k \in 1 .. Len(left) : left[k] = t
    BY <2>2, <2>3 DEF Waiting
  <2>5. attempts[task] <= attempts[t]
    BY <1>1, <2>4 DEF FairInv, First
  <2>. QED
    BY <2>2, <2>5
<1>6. f \in [Tasks -> Nat] /\ f[task] = 1 /\ \A t \in Tasks : t # task => f[t] = attempts[t]
  BY <1>2, <1>5
<1>7. PICK m \in Nat : /\ attempts' = [t \in Tasks |-> f[t] - m]
                       /\ \A t \in Tasks : m <= f[t]
                       /\ \E t \in Tasks : m = f[t]
  <2>. HIDE DEF f
  <2>. QED
    BY <1>1, <1>6, LevelledFacts
<1>. HIDE DEF f
<1>8. \A t \in Tasks : f[t] = 0 \/ f[t] = 1
  BY <1>3, <1>6
<1>9. \A t \in Tasks : attempts'[t] = f[t] - m /\ attempts'[t] \in Nat
  BY <1>6, <1>7
<1>10. FairGap' /\ \E t \in Tasks : attempts'[t] = 0
  <2>1. \A t \in Tasks : attempts'[t] <= 1
    BY <1>8, <1>9
  <2>2. \E t \in Tasks : attempts'[t] = 0
    BY <1>6, <1>7, <1>9
  <2>. QED
    BY <2>1, <2>2 DEF FairGap
<1>11. InOrder'
  <2>1. \A k, l \in 1 .. Len(left) : k < l => /\ left[k] # left[l]
                                              /\ f[left[k]] <= f[left[l]]
    BY <1>4, <1>6 DEF FairInv, InOrder
  <2>2. \A k, l \in 1 .. Len(left) :
          f[left[k]] <= f[left[l]] => attempts'[left[k]] <= attempts'[left[l]]
    BY <1>4, <1>6, <1>9
  <2>. QED
    BY <1>1, <2>1, <2>2 DEF InOrder
<1>12. First'
  BY <1>1 DEF First
<1>13. BehindWait'
  <2>1. CASE m = 0
    <3>1. \A t \in Tasks : attempts'[t] = f[t]
      BY <1>6, <1>9, <2>1
    <3>2. ASSUME NEW t \in Tasks, Waiting(t)', attempts'[t] = 1,
                 NEW u \in Tasks, attempts'[u] = 0
          PROVE  Waiting(u)'
      <4>1. PICK k \in 1 .. Len(left) : left[k] = t
        BY <1>1, <3>2 DEF Waiting
      <4>2. t # task /\ attempts[t] = 1 /\ Waiting(t)
        BY <1>4, <1>6, <3>1, <3>2, <4>1 DEF Waiting
      <4>3. u # task /\ attempts[u] = 0
        BY <1>6, <3>1, <3>2
      <4>4. Waiting(u)
        BY <4>2, <4>3 DEF FairInv, BehindWait
      <4>. QED
        BY <1>1, <4>3, <4>4 DEF Waiting
    <3>. QED
      BY <3>2 DEF BehindWait
  <2>2. CASE m # 0
    <3>1. \A t \in Tasks : attempts'[t] = 0
      BY <1>7, <1>8, <1>9, <2>2
    <3>. QED
      BY <3>1 DEF BehindWait
  <2>. QED
    BY <2>1, <2>2
<1>. QED
  BY <1>10, <1>11, <1>12, <1>13 DEF FairInv

LEMMA FairStep == TypeOK /\ FairInv /\ [Next]_vars => FairInv'
<1> SUFFICES ASSUME TypeOK, FairInv, [Next]_vars PROVE FairInv'
  OBVIOUS
<1>. USE DEF cycleVars, episodeVars, durableVars
<1>1. CASE Begin \/ Pick \/ Count
  BY <1>1, FairBegin, FairPick, FairCount
<1>2. CASE EndCycle \/ Crash \/ RenderRaises
  BY <1>2, FairEnd DEF EndCycle, Crash, RenderRaises, Abort
<1>3. CASE Propose \/ Judge \/ JudgeSkipped
  <2>1. pc \in {"try", "judge"} /\ UNCHANGED <<left, task, attempts>>
    BY <1>3 DEF Propose, Trying, Judge, JudgeSkipped, Verdict
  <2>2. pc' \in {"try", "judge", "sync_recipe", "dream"}
    BY <1>3, <2>1 DEF Propose, Judge, JudgeSkipped, Verdict, Learn
  <2>. QED
    BY <2>1, <2>2, FairSame DEF Working
<1>4. CASE EndTries \/ Dream \/ Evolve \/ EvolveSkipped \/ Archive
  <2>1. pc \in {"try", "dream", "evolve", "archive"} /\ UNCHANGED <<left, task, attempts>>
    BY <1>4 DEF EndTries, Dream, Evolve, EvolveSkipped, Archive
  <2>2. pc' \in {"dream", "sync_params", "evolve", "archive", "sync_program", "count"}
    BY <1>4 DEF EndTries, Dream, Evolve, EvolveSkipped, Archive
  <2>. QED
    BY <2>1, <2>2, FairSame DEF Working
<1>5. CASE \/ Sync("recipe", "sync_recipe", "dream")
           \/ Sync("params", "sync_params", "evolve")
           \/ Sync("program", "sync_program", "archive")
  <2>1. pc \in Syncs /\ pc' \in {"dream", "evolve", "archive"} /\ UNCHANGED <<left, task, attempts>>
    BY <1>5 DEF Sync, Syncs
  <2>. QED
    BY <2>1, FairSame DEF Working, Syncs
<1>6. CASE Week \/ UNCHANGED vars
  <2>1. UNCHANGED <<pc, left, task, attempts>>
    BY <1>6 DEF Week, vars
  <2>. QED
    BY <2>1 DEF FairInv, FairGap, InOrder, First, BehindWait, Waiting, Working
<1>7. ASSUME NEW k, NEW place \in Syncs, SyncFails(k, place)
      PROVE  FairInv'
  <2>1. attempts' = attempts /\ pc \in Syncs
    BY <1>7 DEF SyncFails
  <2>2. CASE Abort
    BY <2>1, <2>2, FairEnd DEF Abort
  <2>3. CASE pc' = "archive" /\ UNCHANGED <<cycleVars, episodeVars>>
    BY <2>1, <2>3, FairSame DEF Working, Syncs
  <2>. QED
    BY <1>7, <2>2, <2>3 DEF SyncFails
<1>8. CASE \/ SyncFails("recipe", "sync_recipe")
           \/ SyncFails("params", "sync_params")
           \/ SyncFails("program", "sync_program")
  BY <1>7, <1>8 DEF Syncs
<1>. QED
  BY <1>1, <1>2, <1>3, <1>4, <1>5, <1>6, <1>8, Steps

(* No task of the queue is ever more than one counted episode ahead of       *)
(* another, for every queue, budget and order of solutions and kills.        *)
THEOREM RotationIsFair == Spec => []FairGap
<1>1. TypeOK /\ FairInv /\ [Next]_vars => TypeOK' /\ FairInv'
  BY TypeStep, FairStep
<1>2. FairInv => FairGap
  BY DEF FairInv
<1>. QED
  BY <1>1, <1>2, TypeInit, FairInit, PTL DEF Spec

-----------------------------------------------------------------------------
(* The stores and the lifecycle manager.  Within an episode a store may be   *)
(* ahead of its mirror, in one place: right before that store is synced.     *)

SyncOf == [recipe |-> "sync_recipe", params |-> "sync_params", program |-> "sync_program"]

Mirrors(k, c) ==
  \/ mirrored[k][c] = stored[k][c]
  \/ mirrored[k][c] = 0 /\ <<k, c>> \in old

MirrorInv ==
  \A k \in Stores, c \in Categories :
    Mirrors(k, c) \/ <<k, c>> \in unsynced \/ (c = Cat /\ pc = SyncOf[k])

LEMMA SyncOfFacts ==
  /\ \A k \in Stores : SyncOf[k] \in Syncs
  /\ \A k, l \in Stores : SyncOf[k] = SyncOf[l] => k = l
BY DEF SyncOf, Stores, Syncs

(* All that is written of the stores is entry k of the category at hand.     *)
WritesOnly(k) ==
  \A l \in Stores, c \in Categories : stored'[l][c] = stored[l][c] \/ (l = k /\ c = Cat)

LEMMA PutWritesOnly ==
  ASSUME TypeOK, NEW k \in Stores, NEW v \in Values, stored' = Put(stored, k, v)
  PROVE  WritesOnly(k) /\ stored'[k][Cat] = v /\ Cat \in Categories
<1>1. stored \in [Stores -> [Categories -> Values]] /\ task \in Tasks
  BY DEF TypeOK
<1>2. Cat \in Categories
  BY <1>1, PutTyped
<1>3. \A l \in Stores, c \in Categories :
        Put(stored, k, v)[l][c] = IF l = k /\ c = Cat THEN v ELSE stored[l][c]
  BY <1>1, <1>2 DEF Put
<1>. QED
  BY <1>2, <1>3 DEF WritesOnly

(* Either nothing is written, or one entry, which is synced next.            *)
Written(k) == pc' = SyncOf[k] /\ task' = task /\ WritesOnly(k)

LEMMA VerdictWrites ==
  ASSUME TypeOK, Verdict
  PROVE  \/ stored' = stored /\ pc' \in {"try", "dream"}
         \/ Written("recipe")
<1>1. CASE pc' = "try" /\ UNCHANGED <<solved, stored>>
  BY <1>1
<1>2. ASSUME NEW score \in Scores, Learn(score)
      PROVE  (stored' = stored /\ pc' = "dream") \/ Written("recipe")
  <2>1. CASE stored' = stored /\ pc' = "dream"
    BY <2>1
  <2>2. CASE stored' = Put(stored, "recipe", score) /\ pc' = "sync_recipe"
    <3>1. "recipe" \in Stores /\ score \in Values /\ SyncOf["recipe"] = "sync_recipe"
      BY Values0 DEF Stores, SyncOf
    <3>2. task' = task
      BY DEF Verdict
    <3>3. WritesOnly("recipe")
      BY <2>2, <3>1, PutWritesOnly
    <3>. QED
      BY <2>2, <3>1, <3>2, <3>3 DEF Written
  <2>. QED
    BY <1>2, <2>1, <2>2 DEF Learn
<1>. QED
  BY <1>1, <1>2 DEF Verdict

LEMMA DreamWrites ==
  ASSUME TypeOK, Dream
  PROVE  \/ stored' = stored /\ pc' = "evolve"
         \/ Written("params")
<1>1. PICK best \in Params :
        \/ stored' = stored /\ pc' = "evolve"
        \/ stored' = Put(stored, "params", best) /\ pc' = "sync_params"
  BY DEF Dream
<1>2. "params" \in Stores /\ best \in Values /\ SyncOf["params"] = "sync_params"
  BY Values0 DEF Stores, SyncOf
<1>3. task' = task
  BY DEF Dream, episodeVars
<1>4. stored' = Put(stored, "params", best) => WritesOnly("params")
  BY <1>2, PutWritesOnly
<1>. QED
  BY <1>1, <1>2, <1>3, <1>4 DEF Written

LEMMA EvolveWrites ==
  ASSUME TypeOK, Evolve
  PROVE  \/ stored' = stored /\ pc' = "archive"
         \/ Written("program") /\ stored'["program"][Cat] = nodes
<1>1. \/ stored' = stored /\ pc' = "archive"
      \/ stored' = Put(stored, "program", nodes) /\ pc' = "sync_program"
  BY DEF Evolve
<1>2. "program" \in Stores /\ nodes \in Values /\ SyncOf["program"] = "sync_program"
  BY Values0 DEF Stores, SyncOf, TypeOK
<1>3. task' = task
  BY DEF Evolve, episodeVars
<1>4. stored' = Put(stored, "program", nodes)
        => WritesOnly("program") /\ stored'["program"][Cat] = nodes
  BY <1>2, PutWritesOnly
<1>. QED
  BY <1>1, <1>2, <1>3, <1>4 DEF Written

-----------------------------------------------------------------------------
LEMMA MirrorSame ==
  ASSUME MirrorInv, UNCHANGED <<stored, mirrored>>, old \subseteq old',
         unsynced \subseteq unsynced', pc \notin Syncs
  PROVE  MirrorInv'
BY SyncOfFacts DEF MirrorInv, Mirrors

LEMMA MirrorWrite ==
  ASSUME MirrorInv, UNCHANGED <<mirrored, old, unsynced>>, pc \notin Syncs,
         NEW k \in Stores, Written(k)
  PROVE  MirrorInv'
<1> SUFFICES ASSUME NEW l \in Stores, NEW c \in Categories
             PROVE  (Mirrors(l, c) \/ <<l, c>> \in unsynced \/ (c = Cat /\ pc = SyncOf[l]))'
  BY DEF MirrorInv
<1>1. Mirrors(l, c) \/ <<l, c>> \in unsynced
  BY SyncOfFacts DEF MirrorInv
<1>2. stored'[l][c] = stored[l][c] \/ (l = k /\ c = Cat)
  BY DEF Written, WritesOnly
<1>3. Cat' = Cat /\ pc' = SyncOf[k]
  BY DEF Written, Cat
<1>. QED
  BY <1>1, <1>2, <1>3 DEF Mirrors

(* The manager is told of one entry: what it holds elsewhere stays, and so   *)
(* do the ages.                                                              *)
LEMMA MirrorOne ==
  ASSUME TypeOK, NEW k \in Stores, NEW v \in Values, Mirror(k, v),
         NEW l \in Stores, NEW c \in Categories
  PROVE  /\ mirrored'[l][c] = IF l = k /\ c = Cat THEN v ELSE mirrored[l][c]
         /\ ~(l = k /\ c = Cat) => (<<l, c>> \in old => <<l, c>> \in old')
<1>1. Cat \in Categories
  BY MirrorTyped
<1>2. mirrored \in [Stores -> [Categories -> Values]]
  BY DEF TypeOK
<1>3. Put(mirrored, k, v)[l][c] = IF l = k /\ c = Cat THEN v ELSE mirrored[l][c]
  BY <1>1, <1>2 DEF Put
<1>. QED
  BY <1>3 DEF Mirror

LEMMA MirrorSync ==
  ASSUME TypeOK, MirrorInv, NEW k \in Stores, NEW next, Sync(k, SyncOf[k], next)
  PROVE  MirrorInv'
<1> SUFFICES ASSUME NEW l \in Stores, NEW c \in Categories
             PROVE  (Mirrors(l, c) \/ <<l, c>> \in unsynced)'
  BY DEF MirrorInv
<1>1. stored' = stored /\ pc = SyncOf[k] /\ unsynced' = unsynced \ {<<k, Cat>>}
  BY DEF Sync
<1>. DEFINE v == stored[k][Cat]
<1>2. v \in Values /\ Mirror(k, v)
  BY MirrorTyped DEF Sync
<1>3. /\ mirrored'[l][c] = IF l = k /\ c = Cat THEN v ELSE mirrored[l][c]
      /\ ~(l = k /\ c = Cat) => (<<l, c>> \in old => <<l, c>> \in old')
  <2>. HIDE DEF v
  <2>. QED
    BY <1>2, MirrorOne
<1>4. CASE l = k /\ c = Cat
  BY <1>1, <1>3, <1>4 DEF Mirrors
<1>5. CASE ~(l = k /\ c = Cat)
  <2>1. Mirrors(l, c) \/ <<l, c>> \in unsynced
    BY <1>1, <1>5, SyncOfFacts DEF MirrorInv
  <2>2. <<l, c>> \in unsynced => <<l, c>> \in unsynced'
    BY <1>1, <1>5
  <2>. QED
    BY <1>1, <1>3, <1>5, <2>1, <2>2 DEF Mirrors
<1>. QED
  BY <1>4, <1>5

LEMMA MirrorSyncFails ==
  ASSUME TypeOK, MirrorInv, NEW k \in Stores, SyncFails(k, SyncOf[k])
  PROVE  MirrorInv'
<1> SUFFICES ASSUME NEW l \in Stores, NEW c \in Categories
             PROVE  (Mirrors(l, c) \/ <<l, c>> \in unsynced)'
  BY DEF MirrorInv
<1>1. stored' = stored /\ pc = SyncOf[k] /\ unsynced' = unsynced \cup {<<k, Cat>>}
  BY DEF SyncFails
<1>2. PICK v \in {mirrored[k][Cat], 0, stored[k][Cat]} : Mirror(k, v)
  BY DEF SyncFails
<1>3. v \in Values
  BY <1>2, MirrorTyped, Values0
<1>4. /\ mirrored'[l][c] = IF l = k /\ c = Cat THEN v ELSE mirrored[l][c]
      /\ ~(l = k /\ c = Cat) => (<<l, c>> \in old => <<l, c>> \in old')
  BY <1>2, <1>3, MirrorOne
<1>5. CASE l = k /\ c = Cat
  BY <1>1, <1>5
<1>6. CASE ~(l = k /\ c = Cat)
  <2>1. Mirrors(l, c) \/ <<l, c>> \in unsynced
    BY <1>1, <1>6, SyncOfFacts DEF MirrorInv
  <2>. QED
    BY <1>1, <1>4, <1>6, <2>1 DEF Mirrors
<1>. QED
  BY <1>5, <1>6

LEMMA MirrorRetire ==
  ASSUME TypeOK, MirrorInv, Retire, UNCHANGED <<stored, old, unsynced>>, pc \notin Syncs
  PROVE  MirrorInv'
<1> SUFFICES ASSUME NEW l \in Stores, NEW c \in Categories
             PROVE  (Mirrors(l, c) \/ <<l, c>> \in unsynced)'
  BY DEF MirrorInv
<1>1. Mirrors(l, c) \/ <<l, c>> \in unsynced
  BY SyncOfFacts DEF MirrorInv
<1>2. mirrored'[l][c] = IF <<l, c>> \in old THEN 0 ELSE mirrored[l][c]
  BY DEF Retire
<1>. QED
  BY <1>1, <1>2 DEF Mirrors

LEMMA MirrorStep == TypeOK /\ MirrorInv /\ [Next]_vars => MirrorInv'
<1> SUFFICES ASSUME TypeOK, MirrorInv, [Next]_vars PROVE MirrorInv'
  OBVIOUS
<1>. USE DEF cycleVars, episodeVars, durableVars, almVars, others, history
<1>1. CASE Begin \/ Pick \/ JudgeSkipped \/ EndTries \/ EvolveSkipped \/ Archive \/ Count
           \/ Week \/ Crash \/ RenderRaises
  <2>1. UNCHANGED <<stored, mirrored, unsynced>> /\ old \subseteq old' /\ pc \notin Syncs
    BY <1>1 DEF Begin, Pick, JudgeSkipped, EndTries, EvolveSkipped, Archive, Count, Week,
                   Crash, RenderRaises, Trying, Syncs
  <2>. QED
    BY <2>1, MirrorSame
<1>2. CASE EndCycle
  <2>1. Retire /\ UNCHANGED <<stored, old, unsynced>> /\ pc \notin Syncs
    BY <1>2 DEF EndCycle, Syncs
  <2>. QED
    BY <2>1, MirrorRetire
<1>3. CASE Propose \/ Judge
  <2>1. UNCHANGED <<mirrored, old, unsynced>> /\ pc \notin Syncs
    BY <1>3 DEF Propose, Trying, Judge, Verdict, Syncs
  <2>2. stored' = stored \/ Written("recipe")
    BY <1>3, VerdictWrites DEF Propose, Judge
  <2>3. "recipe" \in Stores
    BY DEF Stores
  <2>. QED
    BY <2>1, <2>2, <2>3, MirrorSame, MirrorWrite
<1>4. CASE Dream
  <2>1. UNCHANGED <<mirrored, old, unsynced>> /\ pc \notin Syncs /\ "params" \in Stores
    BY <1>4 DEF Dream, Syncs, Stores
  <2>. QED
    BY <1>4, <2>1, DreamWrites, MirrorSame, MirrorWrite
<1>5. CASE Evolve
  <2>1. UNCHANGED <<mirrored, old, unsynced>> /\ pc \notin Syncs /\ "program" \in Stores
    BY <1>5 DEF Evolve, Syncs, Stores
  <2>. QED
    BY <1>5, <2>1, EvolveWrites, MirrorSame, MirrorWrite
<1>6. CASE \/ Sync("recipe", "sync_recipe", "dream")
           \/ Sync("params", "sync_params", "evolve")
           \/ Sync("program", "sync_program", "archive")
  <2>1. /\ SyncOf["recipe"] = "sync_recipe" /\ SyncOf["params"] = "sync_params"
        /\ SyncOf["program"] = "sync_program" /\ {"recipe", "params", "program"} \subseteq Stores
    BY DEF SyncOf, Stores
  <2>. QED
    BY <1>6, <2>1, MirrorSync
<1>7. CASE \/ SyncFails("recipe", "sync_recipe")
           \/ SyncFails("params", "sync_params")
           \/ SyncFails("program", "sync_program")
  <2>1. /\ SyncOf["recipe"] = "sync_recipe" /\ SyncOf["params"] = "sync_params"
        /\ SyncOf["program"] = "sync_program" /\ {"recipe", "params", "program"} \subseteq Stores
    BY DEF SyncOf, Stores
  <2>. QED
    BY <1>7, <2>1, MirrorSyncFails
<1>8. CASE UNCHANGED vars
  BY <1>8 DEF vars, MirrorInv, Mirrors, Cat
<1>. QED
  BY <1>1, <1>2, <1>3, <1>4, <1>5, <1>6, <1>7, <1>8, Steps

(* Between cycles the lifecycle manager holds what the stores hold, or       *)
(* nothing where an artifact has gone STALE, but for the promotions whose    *)
(* own mirroring was cut short.                                              *)
THEOREM MirrorKept == Spec => []MirrorInStep
<1>1. Init => MirrorInv
  BY DEF Init, MirrorInv, Mirrors
<1>2. TypeOK /\ MirrorInv /\ [Next]_vars => TypeOK' /\ MirrorInv'
  BY TypeStep, MirrorStep
<1>3. MirrorInv => MirrorInStep
  <2>1. pc = "idle" => pc \notin Syncs
    BY DEF Syncs
  <2>. QED
    BY <2>1, SyncOfFacts DEF MirrorInv, Mirrors, MirrorInStep
<1>. QED
  BY <1>1, <1>2, <1>3, TypeInit, PTL DEF Spec

-----------------------------------------------------------------------------
(* The evidence of a policy program.  Between the promotion and the archive  *)
(* it is the tree in memory that holds it.                                   *)

Evidence(c, n) == \E t \in Tasks : Category[t] = c /\ steps[t] >= n

Growing == {"try", "judge", "dream", "evolve", "archive"} \cup Syncs

EvidenceInv ==
  /\ pc \in Growing => nodes >= steps[task]
  /\ \A c \in Categories \ orphaned :
       stored["program"][c] # 0 =>
         \/ Evidence(c, stored["program"][c])
         \/ c = Cat /\ pc \in {"sync_program", "archive"} /\ nodes >= stored["program"][c]

ProgramsSame == \A c \in Categories : stored'["program"][c] = stored["program"][c]

LEMMA OtherStore ==
  ASSUME NEW k \in Stores, k # "program", WritesOnly(k)
  PROVE  ProgramsSame
<1>1. "program" \in Stores
  BY DEF Stores
<1>. QED
  BY <1>1 DEF WritesOnly, ProgramsSame

(* No program is promoted, no tree archived, and the tree in memory grows.   *)
LEMMA EvidenceSame ==
  ASSUME EvidenceInv, ProgramsSame, steps' = steps, orphaned \subseteq orphaned',
         pc \in {"sync_program", "archive"}
           => \/ pc' \in {"sync_program", "archive"} /\ UNCHANGED <<task, nodes>>
              \/ Cat \in orphaned',
         pc' \in Growing => nodes' >= steps[task']
  PROVE  EvidenceInv'
<1> SUFFICES ASSUME NEW c \in Categories \ orphaned', stored'["program"][c] # 0
             PROVE  \/ Evidence(c, stored["program"][c])'
                    \/ c = Cat' /\ pc' \in {"sync_program", "archive"} /\ nodes' >= stored'["program"][c]
  BY DEF EvidenceInv
<1>1. stored'["program"][c] = stored["program"][c]
  BY DEF ProgramsSame
<1>2. \/ Evidence(c, stored["program"][c])
      \/ c = Cat /\ pc \in {"sync_program", "archive"} /\ nodes >= stored["program"][c]
  BY <1>1 DEF EvidenceInv
<1>. QED
  BY <1>1, <1>2 DEF Evidence, Cat

LEMMA EvidencePromoted ==
  ASSUME TypeOK, EvidenceInv, pc = "evolve", Written("program"),
         stored'["program"][Cat] = nodes, UNCHANGED <<steps, orphaned, nodes>>
  PROVE  EvidenceInv'
<1>1. task' = task /\ pc' = "sync_program" /\ Cat' = Cat /\ "program" \in Stores
  BY DEF Written, SyncOf, Cat, Stores
<1>2. ASSUME NEW c \in Categories \ orphaned, stored'["program"][c] # 0
      PROVE  \/ Evidence(c, stored["program"][c])'
             \/ c = Cat' /\ nodes' >= stored'["program"][c]
  <2>1. CASE c = Cat
    <3>1. nodes \in Int
      BY DEF TypeOK
    <3>. QED
      BY <1>1, <2>1, <3>1
  <2>2. CASE c # Cat
    <3>1. stored'["program"][c] = stored["program"][c]
      BY <1>1, <2>2 DEF Written, WritesOnly
    <3>. QED
      BY <1>2, <3>1 DEF EvidenceInv, Evidence
  <2>. QED
    BY <2>1, <2>2
<1>. QED
  BY <1>1, <1>2 DEF EvidenceInv, Growing

LEMMA EvidenceArchived ==
  ASSUME TypeOK, EvidenceInv, Archive
  PROVE  EvidenceInv'
<1>1. /\ steps' = [steps EXCEPT ![task] = nodes] /\ UNCHANGED <<stored, orphaned, task, nodes>>
      /\ pc = "archive" /\ pc' = "count"
  BY DEF Archive, episodeVars, others, history
<1>2. task \in Tasks /\ nodes \in Int /\ steps \in [Tasks -> Int]
  <2>1. 0 .. MaxSteps \subseteq Int
    OBVIOUS
  <2>. QED
    BY <2>1 DEF TypeOK
<1>3. steps'[task] = nodes /\ \A t \in Tasks : t # task => steps'[t] = steps[t]
  BY <1>1, <1>2
<1>4. ASSUME NEW c \in Categories \ orphaned, stored["program"][c] # 0
      PROVE  Evidence(c, stored["program"][c])'
  <2>0. stored["program"][c] \in Int
    BY DEF TypeOK, Stores, Values
  <2>1. nodes >= steps[task]
    BY <1>1, <1>4 DEF EvidenceInv, Growing
  <2>2. CASE c = Cat /\ nodes >= stored["program"][c]
    BY <1>1, <1>2, <1>3, <2>2 DEF Evidence, Cat
  <2>3. CASE Evidence(c, stored["program"][c])
    <3>1. PICK t \in Tasks : Category[t] = c /\ steps[t] >= stored["program"][c]
      BY <2>3 DEF Evidence
    <3>2. steps'[t] >= stored["program"][c]
      BY <1>2, <1>3, <2>0, <2>1, <3>1
    <3>. QED
      BY <1>1, <3>1, <3>2 DEF Evidence
  <2>. QED
    BY <1>4, <2>2, <2>3 DEF EvidenceInv
<1>. QED
  BY <1>1, <1>4 DEF EvidenceInv, Growing, Syncs

LEMMA EvidenceStep == TypeOK /\ EvidenceInv /\ [Next]_vars => EvidenceInv'
<1> SUFFICES ASSUME TypeOK, EvidenceInv, [Next]_vars PROVE EvidenceInv'
  OBVIOUS
<1>. USE DEF cycleVars, episodeVars, durableVars, almVars, others, history
<1>0. pc \in Growing => nodes >= steps[task]
  BY DEF EvidenceInv
<1>1. CASE Begin \/ EndCycle \/ Count \/ Week \/ RenderRaises
  <2>1. /\ UNCHANGED <<stored, steps, orphaned>> /\ pc \notin {"sync_program", "archive"}
        /\ pc' \notin Growing
    BY <1>1 DEF Begin, EndCycle, Count, Week, RenderRaises, Trying, Abort, Growing, Syncs
  <2>. QED
    BY <2>1, EvidenceSame DEF ProgramsSame
<1>2. CASE Pick
  <2>1. UNCHANGED <<stored, steps, orphaned>> /\ pc = "pick" /\ nodes' = steps[task']
    BY <1>2 DEF Pick
  <2>2. task' \in Tasks
    BY <1>2 DEF Pick, TypeOK
  <2>3. steps[task'] \in Int
    <3>1. steps[task'] \in 0 .. MaxSteps
      BY <2>2 DEF TypeOK
    <3>. QED
      BY <3>1
  <2>. QED
    BY <2>1, <2>3, EvidenceSame DEF ProgramsSame
<1>3. CASE Propose \/ Judge \/ JudgeSkipped
  <2>1. /\ UNCHANGED <<steps, orphaned, task>> /\ pc \in {"try", "judge"}
        /\ nodes' = nodes \/ Grow
    BY <1>3 DEF Propose, Trying, Judge, JudgeSkipped, Verdict
  <2>2. nodes' >= nodes
    BY <2>1, GrowTyped DEF TypeOK
  <2>3. stored' = stored \/ Written("recipe")
    BY <1>3, VerdictWrites DEF Propose, Judge, JudgeSkipped
  <2>4. ProgramsSame
    <3>1. "recipe" \in Stores /\ "recipe" # "program"
      BY DEF Stores
    <3>. QED
      BY <2>3, <3>1, OtherStore DEF ProgramsSame, Written
  <2>5. nodes' >= steps[task']
    <3>1. steps[task] \in 0 .. MaxSteps /\ nodes \in 0 .. MaxSteps /\ nodes' \in 0 .. MaxSteps
      BY <2>1, GrowTyped DEF TypeOK
    <3>2. steps[task] \in Int /\ nodes \in Int /\ nodes' \in Int
      BY <3>1
    <3>. QED
      BY <1>0, <2>1, <2>2, <3>2 DEF Growing
  <2>. QED
    BY <2>1, <2>4, <2>5, EvidenceSame
<1>4. CASE EndTries \/ EvolveSkipped
  <2>1. /\ UNCHANGED <<steps, orphaned, task, nodes, stored>> /\ pc \in {"try", "evolve"}
    BY <1>4 DEF EndTries, EvolveSkipped
  <2>. QED
    BY <1>0, <2>1, EvidenceSame DEF ProgramsSame, Growing
<1>5. CASE Dream
  <2>1. /\ UNCHANGED <<steps, orphaned, task, nodes>> /\ pc = "dream"
    BY <1>5 DEF Dream
  <2>2. ProgramsSame
    <3>1. "params" \in Stores /\ "params" # "program"
      BY DEF Stores
    <3>. QED
      BY <1>5, <3>1, DreamWrites, OtherStore DEF ProgramsSame, Written
  <2>. QED
    BY <1>0, <2>1, <2>2, EvidenceSame DEF Growing
<1>6. CASE Evolve
  <2>1. /\ UNCHANGED <<steps, orphaned, task, nodes>> /\ pc = "evolve"
    BY <1>6 DEF Evolve
  <2>2. CASE stored' = stored
    BY <1>0, <2>1, <2>2, EvidenceSame DEF ProgramsSame, Growing
  <2>3. CASE Written("program") /\ stored'["program"][Cat] = nodes
    BY <2>1, <2>3, EvidencePromoted
  <2>. QED
    BY <1>6, <2>2, <2>3, EvolveWrites
<1>7. CASE Archive
  BY <1>7, EvidenceArchived
<1>8. CASE \/ Sync("recipe", "sync_recipe", "dream")
           \/ Sync("params", "sync_params", "evolve")
           \/ Sync("program", "sync_program", "archive")
  <2>1. /\ UNCHANGED <<steps, orphaned, task, nodes, stored>> /\ pc \in Syncs
        /\ pc \in {"sync_program", "archive"} => pc' \in {"sync_program", "archive"}
    BY <1>8 DEF Sync, Syncs
  <2>. QED
    BY <1>0, <2>1, EvidenceSame DEF ProgramsSame, Growing
<1>9. ASSUME Abort, UNCHANGED <<stored, steps>>,
             orphaned' = IF Promoting THEN orphaned \cup {Cat} ELSE orphaned
      PROVE  EvidenceInv'
  <2>1. pc' \notin Growing
    BY <1>9 DEF Abort, Growing, Syncs
  <2>2. orphaned \subseteq orphaned' /\ (Promoting => Cat \in orphaned')
    BY <1>9
  <2>. QED
    BY <1>9, <2>1, <2>2, EvidenceSame DEF ProgramsSame, Promoting
<1>10. CASE Crash
  BY <1>9, <1>10 DEF Crash
<1>11. ASSUME NEW k, NEW place \in Syncs, k = "program" => place = "sync_program",
              SyncFails(k, place)
       PROVE  EvidenceInv'
  <2>1. UNCHANGED <<stored, steps>> /\ pc = place
    BY <1>11 DEF SyncFails
  <2>2. CASE Abort /\ orphaned' = IF Promoting THEN orphaned \cup {Cat} ELSE orphaned
    BY <1>9, <2>1, <2>2
  <2>3. CASE pc' = "archive" /\ UNCHANGED <<cycleVars, episodeVars, orphaned>>
    BY <1>0, <2>1, <2>3, EvidenceSame DEF ProgramsSame, Growing
  <2>. QED
    BY <1>11, <2>2, <2>3 DEF SyncFails
<1>12. CASE \/ SyncFails("recipe", "sync_recipe")
            \/ SyncFails("params", "sync_params")
            \/ SyncFails("program", "sync_program")
  BY <1>11, <1>12 DEF Syncs
<1>13. CASE UNCHANGED vars
  BY <1>13 DEF vars, EvidenceInv, Evidence, Cat
<1>. QED
  BY <1>1, <1>2, <1>3, <1>4, <1>5, <1>6, <1>7, <1>8, <1>10, <1>12, <1>13, Steps

(* Between cycles some archived tree of the category holds all the replay    *)
(* evidence its policy program names, unless a cycle was killed between the  *)
(* promotion and the archive.                                                *)
THEOREM ProgramsAreBacked == Spec => []ProgramHasEvidence
<1>1. Init => EvidenceInv
  <2> SUFFICES ASSUME Init PROVE EvidenceInv
    OBVIOUS
  <2>1. \A c \in Categories : stored["program"][c] = 0
    BY DEF Init, Stores
  <2>. QED
    BY <2>1 DEF Init, EvidenceInv, Growing, Syncs
<1>2. TypeOK /\ EvidenceInv /\ [Next]_vars => TypeOK' /\ EvidenceInv'
  BY TypeStep, EvidenceStep
<1>3. EvidenceInv => ProgramHasEvidence
  BY DEF EvidenceInv, Evidence, ProgramHasEvidence
<1>. QED
  BY <1>1, <1>2, <1>3, TypeInit, PTL DEF Spec
=============================================================================
