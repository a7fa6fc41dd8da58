---------------------- MODULE ArtifactLifecycle_proofs ----------------------
(***************************************************************************)
(* Proofs about ArtifactLifecycle, for every set of types, slots, payloads *)
(* and identities, every threshold and every bound: types, the view and the *)
(* log, states.json, versions, identities, deletion, and the refinement.    *)
(***************************************************************************)
EXTENDS ArtifactLifecycle, FiniteSetTheorems, SequenceTheorems, TLAPS

(* The calls that may stand anywhere in the queue of an operation. *)
Queued == MoveCall \cup DeleteCall \cup CollectCall

(* A creation, or a call that only marks an artifact, comes first; the      *)
(* creation is within the bound and the marked artifact is there.           *)
QueueShape(q) ==
  /\ q \in Seq(Call)
  /\ \A k \in 2 .. Len(q) : q[k] \in Queued
  /\ q # <<>> => \/ q[1] \in Queued
                 \/ q[1] \in CreateCall /\ created < MaxCreated
                 \/ q[1] \in NoteCall \cup MarkCall /\ view[q[1].id] # Absent

Shaped == TypeOK /\ QueueShape(todo)

(* The inductive invariant: a manager that is not running has no operation. *)
IInv == Shaped /\ (up \/ todo = <<>>)

-----------------------------------------------------------------------------
(* Queues. *)

(* A sequence is a sequence of whatever its elements are.  *)
LEMMA ElementsInSeq ==
  ASSUME NEW S, NEW T, NEW q \in Seq(S), \A k \in 1 .. Len(q) : q[k] \in T
  PROVE  q \in Seq(T)
<1>1. Len(q) \in Nat /\ q \in [1 .. Len(q) -> S]
  BY LenProperties
<1>2. q \in [1 .. Len(q) -> T]
  BY <1>1
<1>. QED
  BY <1>1, <1>2, SeqDef

(* A queue of calls that may stand anywhere has the shape. *)
LEMMA QueuedShape ==
  ASSUME NEW q \in Seq(Queued)
  PROVE  QueueShape(q)
<1>1. Queued \subseteq Call
  BY DEF Queued, Call
<1>2. q \in Seq(Call)
  BY <1>1, SeqMonotonic
<1>3. \A k \in 1 .. Len(q) : q[k] \in Queued
  BY ElementOfSeq
<1>4. q # <<>> => 1 \in 1 .. Len(q)
  BY EmptySeq, LenProperties
<1>. QED
  BY <1>2, <1>3, <1>4, LenProperties DEF QueueShape

(* So has such a queue behind a creation that is within the bound. *)
LEMMA CreateShape ==
  ASSUME NEW c \in CreateCall, NEW d \in Queued, NEW q \in Seq(Queued),
         created < MaxCreated
  PROVE  QueueShape(<<c, d>> \o q)
<1>0. Queued \subseteq Call /\ CreateCall \subseteq Call
  BY DEF Queued, Call
<1>1. <<c, d>> \in Seq(Call) /\ q \in Seq(Call)
  BY <1>0, SeqMonotonic
<1>2. /\ <<c, d>> \o q \in Seq(Call)
      /\ Len(<<c, d>> \o q) = 2 + Len(q)
      /\ \A i \in 1 .. 2 + Len(q) :
           (<<c, d>> \o q)[i] = IF i <= 2 THEN <<c, d>>[i] ELSE q[i - 2]
  BY <1>1, ConcatProperties
<1>3. \A k \in 1 .. Len(q) : q[k] \in Queued
  BY ElementOfSeq
<1>4. Len(q) \in Nat
  BY LenProperties
<1>5. (<<c, d>> \o q)[1] = c
  BY <1>2, <1>4
<1>6. \A k \in 2 .. 2 + Len(q) : (<<c, d>> \o q)[k] \in Queued
  BY <1>2, <1>3, <1>4
<1>. QED
  BY <1>2, <1>5, <1>6 DEF QueueShape

(* A queue of one call has the shape if the call may come first. *)
LEMMA SingleShape ==
  ASSUME NEW c,
         \/ c \in Queued
         \/ c \in CreateCall /\ created < MaxCreated
         \/ c \in NoteCall \cup MarkCall /\ view[c.id] # Absent
  PROVE  QueueShape(<<c>>)
<1>1. c \in Call
  BY DEF Queued, Call
<1>2. <<c>> \in Seq(Call) /\ Len(<<c>>) = 1 /\ <<c>>[1] = c
  BY <1>1
<1>. QED
  BY <1>2 DEF QueueShape

(* SetToSeq lists the identities of a set. *)
LEMMA SetToSeqInSeq ==
  ASSUME NEW S \in SUBSET Ids
  PROVE  SetToSeq(S) \in Seq(S)
<1>1. IsFiniteSet(Ids)
  <2>1. IsFiniteSet(1 .. MaxCreated)
    BY ConstantsAssumption, FS_Interval DEF ConstantsAssumption
  <2>2. IsFiniteSet(AutoIds)
    BY <2>1, ConstantsAssumption, FS_Product DEF ConstantsAssumption, AutoIds
  <2>. QED
    BY <2>2, ConstantsAssumption, FS_Union DEF ConstantsAssumption, Ids
<1>2. IsFiniteSet(S)
  BY <1>1, FS_Subset
<1>3. Cardinality(S) \in Nat /\ ExistsBijection(1 .. Cardinality(S), S)
  BY <1>2, FS_CardinalityType
<1>4. \E f \in [1 .. Cardinality(S) -> S] : IsInjective(f)
  BY <1>3 DEF ExistsBijection, Bijection, Injection, IsInjective
<1>5. SetToSeq(S) \in [1 .. Cardinality(S) -> S]
  BY <1>4 DEF SetToSeq
<1>. QED
  BY <1>3, <1>5, SeqDef
(* The calls the operations build. *)
LEMMA CallTypes ==
  ASSUME NEW i \in Ids
  PROVE  /\ \A to \in States : Move(i, to) \in MoveCall
         /\ \A r \in Ids : Supersession(i, r) \in MoveCall
         /\ \A p \in Payloads : Verdict(i, p) \in MoveCall
         /\ \A t \in Types, s \in Slots, p \in Payloads : Create(i, t, s, p) \in CreateCall
BY DEF Move, Supersession, Verdict, Create, MoveCall, CreateCall, States

(* An operation that registers an artifact first has the shape. *)
LEMMA DeriveShape ==
  ASSUME NEW new \in Ids, NEW t \in Types, NEW s \in Slots, NEW p \in Payloads,
         NEW rest \in Seq(Queued), created < MaxCreated
  PROVE  QueueShape(Derive(new, t, s, p, rest))
<1>1. Create(new, t, s, p) \in CreateCall /\ Verdict(new, p) \in Queued
  BY CallTypes DEF Queued
<1>2. (IF p \in Good THEN rest ELSE <<>>) \in Seq(Queued)
  BY EmptySeq
<1>. QED
  BY <1>1, <1>2, CreateShape DEF Derive

(* A present artifact is a full record, and the first ACTIVE of a slot is   *)
(* either None or an identity.                                              *)
LEMMA PresentState ==
  ASSUME TypeOK, NEW i \in Present(view)
  PROVE  i \in Ids /\ view[i] # Absent /\ view[i] \in State
BY DEF TypeOK, Present, Views, Absent

LEMMA ActiveInSlotType ==
  ASSUME NEW s, NEW T, NEW cur \in ActiveInSlot(s, T)
  PROVE  cur = NoId \/ cur \in Ids
BY DEF ActiveInSlot, Actives, In

LEMMA NewIdType ==
  ASSUME TypeOK, NEW t \in Types, created < MaxCreated
  PROVE  NewId(t) \in Ids
BY ConstantsAssumption DEF TypeOK, NewId, Ids, AutoIds, ConstantsAssumption

(* A policy's queue holds one call for every artifact of its set. *)
LEMMA ForEachStale == ForEach(Forgotten, ToStale) \in Seq(Queued)
<1>1. Forgotten \in SUBSET Ids
  BY DEF Forgotten, In
<1>2. SetToSeq(Forgotten) \in Seq(Ids)
  BY <1>1, SetToSeqInSeq, SeqMonotonic
<1>3. \A i \in Ids : ToStale(i) \in Queued
  BY CallTypes DEF ToStale, Queued, States
<1>. QED
  BY <1>2, <1>3, ElementOfSeq, LenProperties DEF ForEach

LEMMA ForEachArchive == ForEach(PastGrace, ToArchive) \in Seq(Queued)
<1>1. PastGrace \in SUBSET Ids
  BY DEF PastGrace, In
<1>2. SetToSeq(PastGrace) \in Seq(Ids)
  BY <1>1, SetToSeqInSeq, SeqMonotonic
<1>3. \A i \in Ids : ToArchive(i) \in Queued
  BY CallTypes DEF ToArchive, Queued, States
<1>. QED
  BY <1>2, <1>3, ElementOfSeq, LenProperties DEF ForEach

LEMMA ForEachDelete == ForEach(PastRetention, ToDelete) \in Seq(Queued)
<1>1. PastRetention \in SUBSET Ids
  BY DEF PastRetention, In
<1>2. SetToSeq(PastRetention) \in Seq(Ids)
  BY <1>1, SetToSeqInSeq, SeqMonotonic
<1>3. \A i \in Ids : ToDelete(i) \in Queued
  BY DEF ToDelete, Mark, Queued, DeleteCall
<1>. QED
  BY <1>2, <1>3, ElementOfSeq, LenProperties DEF ForEach

-----------------------------------------------------------------------------
(* Every operation queues calls of the right shape. *)

LEMMA AuthoringStarts ==
  ASSUME TypeOK, Authoring
  PROVE  \E q : Start(q) /\ QueueShape(q)
<1>1. PICK s \in Slots, t \in Types, p \in Payloads :
        \/ RegisterCandidate(t, s, p)
        \/ \E i \in ExplicitIds : RegisterCandidateAs(i, t, s, p)
        \/ SyncActive(t, s, p)
  BY DEF Authoring
<1>2. CASE RegisterCandidate(t, s, p)
  <2>1. NewId(t) \in Ids /\ created < MaxCreated
    BY <1>2, NewIdType DEF RegisterCandidate, CanCreate
  <2>2. Create(NewId(t), t, s, p) \in CreateCall
    BY <2>1, CallTypes
  <2>. QED
    BY <1>2, <2>1, <2>2, SingleShape DEF RegisterCandidate
<1>3. ASSUME NEW i \in ExplicitIds, RegisterCandidateAs(i, t, s, p)
      PROVE  \E q : Start(q) /\ QueueShape(q)
  <2>1. i \in Ids /\ created < MaxCreated
    BY <1>3 DEF RegisterCandidateAs, CanCreate, Ids
  <2>2. Create(i, t, s, p) \in CreateCall
    BY <2>1, CallTypes
  <2>. QED
    BY <1>3, <2>1, <2>2, SingleShape DEF RegisterCandidateAs
<1>4. CASE SyncActive(t, s, p)
  <2>. DEFINE new == NewId(t)
              rest(cur) == (IF cur = NoId THEN <<>>
                            ELSE IF view[cur].type = t THEN <<Supersession(cur, new)>>
                            ELSE <<Move(cur, "QUARANTINED")>>) \o <<Move(new, "ACTIVE")>>
  <2>1. new \in Ids /\ created < MaxCreated
    BY <1>4, NewIdType DEF SyncActive, CanCreate
  <2>2. PICK cur \in ActiveInSlot(s, Types) :
          Start(Derive(new, t, s, p, rest(cur)))
    BY <1>4 DEF SyncActive
  <2>3. rest(cur) \in Seq(Queued)
    <3>1. Move(new, "ACTIVE") \in Queued
      BY <2>1, CallTypes DEF Queued, States
    <3>2. cur # NoId => Supersession(cur, new) \in Queued /\ Move(cur, "QUARANTINED") \in Queued
      BY <2>1, ActiveInSlotType, CallTypes DEF Queued, States
    <3>. HIDE DEF new
    <3>. QED
      BY <3>1, <3>2, ConcatProperties
  <2>. HIDE DEF new, rest
  <2>. QED
    BY <2>1, <2>2, <2>3, DeriveShape
<1>. QED
  BY <1>1, <1>2, <1>3, <1>4

(* The operations that queue a single move. *)
LEMMA MoveStarts ==
  ASSUME TypeOK, NEW i \in Present(view),
         \/ Validate(i) \/ Activate(i) \/ MarkStale(i) \/ Archive(i)
         \/ Quarantine(i) \/ Reject(i) \/ Restore(i) \/ VerifyIntegrity(i)
  PROVE  \E q : Start(q) /\ QueueShape(q)
<1>1. i \in Ids /\ view[i].payload \in Payloads
  BY PresentState DEF State
<1>2. Verdict(i, view[i].payload) \in Queued
  BY <1>1, CallTypes DEF Queued
<1>3. \A to \in States : Move(i, to) \in Queued
  BY <1>1, CallTypes DEF Queued
<1>4. QueueShape(<<Verdict(i, view[i].payload)>>)
  BY <1>2, SingleShape
<1>5. \A to \in States : QueueShape(<<Move(i, to)>>)
  BY <1>3, SingleShape
<1>. QED
  BY <1>4, <1>5 DEF Validate, Activate, MarkStale, Archive, Quarantine, Reject,
                    Restore, VerifyIntegrity, States

LEMMA CompoundStarts ==
  ASSUME TypeOK, NEW i \in Present(view),
         PromoteReplacement(i) \/ Retire(i) \/ \E j \in Present(view) : Supersede(i, j)
  PROVE  \E q : Start(q) /\ QueueShape(q)
<1>1. i \in Ids
  BY PresentState
<1>2. \A to \in States : Move(i, to) \in Queued
  BY <1>1, CallTypes DEF Queued
<1>3. CASE PromoteReplacement(i)
  <2>1. PICK cur \in ActiveInSlot(view[i].slot, {view[i].type}) :
          Start((IF cur = NoId THEN <<>> ELSE <<Supersession(cur, i)>>) \o <<Move(i, "ACTIVE")>>)
    BY <1>3 DEF PromoteReplacement
  <2>2. cur # NoId => Supersession(cur, i) \in Queued
    BY <1>1, ActiveInSlotType, CallTypes DEF Queued
  <2>3. Move(i, "ACTIVE") \in Queued
    BY <1>2 DEF States
  <2>4. (IF cur = NoId THEN <<>> ELSE <<Supersession(cur, i)>>) \o <<Move(i, "ACTIVE")>>
          \in Seq(Queued)
    BY <2>2, <2>3, ConcatProperties
  <2>. QED
    BY <2>1, <2>4, QueuedShape
<1>4. CASE Retire(i)
  <2>1. /\ <<Move(i, "STALE"), Move(i, "ARCHIVED")>> \in Seq(Queued)
        /\ <<Move(i, "ARCHIVED")>> \in Seq(Queued)
        /\ <<Move(i, "REJECTED")>> \in Seq(Queued)
    BY <1>2 DEF States
  <2>. QED
    BY <1>4, <2>1, QueuedShape DEF Retire
<1>5. ASSUME NEW j \in Present(view), Supersede(i, j)
      PROVE  \E q : Start(q) /\ QueueShape(q)
  <2>1. <<Supersession(i, j)>> \in Seq(Queued)
    BY <1>1, PresentState, CallTypes DEF Queued
  <2>. QED
    BY <1>5, <2>1, QueuedShape DEF Supersede
<1>. QED
  BY <1>3, <1>4, <1>5
LEMMA MergeStarts ==
  ASSUME TypeOK, NEW i \in Present(view), NEW j \in Present(view), NEW p \in Payloads,
         Merge(i, j, p)
  PROVE  \E q : Start(q) /\ QueueShape(q)
<1>. DEFINE t == view[i].type
            new == NewId(t)
            rest == (IF view[i].lc = "ACTIVE" THEN <<Supersession(i, new)>> ELSE <<>>) \o
                    (IF view[j].lc = "ACTIVE" /\ i # j THEN <<Supersession(j, new)>> ELSE <<>>)
<1>1. i \in Ids /\ j \in Ids /\ t \in Types /\ view[i].slot \in Slots
  BY PresentState DEF State
<1>2. /\ created < MaxCreated
      /\ Start(Derive(new, t, view[i].slot, p, rest))
  BY DEF Merge, CanCreate
<1>3. new \in Ids
  BY <1>1, <1>2, NewIdType
<1>4. rest \in Seq(Queued)
  <2>1. Supersession(i, new) \in Queued /\ Supersession(j, new) \in Queued
    BY <1>1, <1>3, CallTypes DEF Queued
  <2>. HIDE DEF new
  <2>. QED
    BY <2>1, ConcatProperties
<1>. HIDE DEF new, rest, t
<1>. QED
  BY <1>1, <1>2, <1>3, <1>4, DeriveShape

LEMMA RollbackStarts ==
  ASSUME TypeOK, NEW i \in Present(view), Rollback(i)
  PROVE  \E q : Start(q) /\ QueueShape(q)
<1>. DEFINE t == view[i].type
            s == view[i].slot
            p == view[i].payload
            new == NewId(t)
            rest(cur) == IF cur = NoId THEN <<Move(new, "ACTIVE")>>
                         ELSE IF view[cur].type # t THEN <<>>
                         ELSE <<Supersession(cur, new), Move(new, "ACTIVE")>>
<1>1. t \in Types /\ s \in Slots /\ p \in Payloads
  BY PresentState DEF State
<1>2. created < MaxCreated
  BY DEF Rollback, CanCreate
<1>3. PICK cur \in ActiveInSlot(s, Types) :
        Start(Derive(new, t, s, p, rest(cur)))
  BY DEF Rollback
<1>4. new \in Ids
  BY <1>1, <1>2, NewIdType
<1>5. rest(cur) \in Seq(Queued)
  <2>1. Move(new, "ACTIVE") \in Queued
    BY <1>4, CallTypes DEF Queued, States
  <2>2. cur # NoId => Supersession(cur, new) \in Queued
    BY <1>4, ActiveInSlotType, CallTypes DEF Queued
  <2>. HIDE DEF new
  <2>. QED
    BY <2>1, <2>2, ConcatProperties
<1>. HIDE DEF t, s, p, new, rest
<1>. QED
  BY <1>1, <1>2, <1>3, <1>4, <1>5, DeriveShape

LEMMA MarksStart ==
  ASSUME TypeOK, Marks
  PROVE  \E q : Start(q) /\ QueueShape(q)
<1>1. PICK i \in Present(view) :
        \/ RecordUse(i) \/ Pin(i) \/ Unpin(i)
        \/ \E p \in Payloads : Annotate(i, p)
  BY DEF Marks
<1>2. i \in Ids /\ view[i] # Absent
  BY PresentState
<1>3. \A kind \in {"used", "pinned", "unpinned"} : QueueShape(<<Mark(i, kind)>>)
  <2>. SUFFICES ASSUME NEW kind \in {"used", "pinned", "unpinned"}
                PROVE  QueueShape(<<Mark(i, kind)>>)
    OBVIOUS
  <2>1. Mark(i, kind) \in MarkCall /\ Mark(i, kind).id = i
    BY <1>2 DEF Mark, MarkCall
  <2>. QED
    BY <1>2, <2>1, SingleShape
<1>4. \A p \in Payloads : QueueShape(<<[kind |-> "annotated", id |-> i, payload |-> p]>>)
  <2>. SUFFICES ASSUME NEW p \in Payloads
                PROVE  QueueShape(<<[kind |-> "annotated", id |-> i, payload |-> p]>>)
    OBVIOUS
  <2>. DEFINE c == [kind |-> "annotated", id |-> i, payload |-> p]
  <2>1. c \in NoteCall /\ c.id = i
    BY <1>2 DEF NoteCall
  <2>. HIDE DEF c
  <2>2. QueueShape(<<c>>)
    BY <1>2, <2>1, SingleShape
  <2>. QED
    BY <2>2 DEF c
<1>. QED
  BY <1>1, <1>3, <1>4 DEF RecordUse, Pin, Unpin, Annotate

LEMMA PoliciesStart ==
  ASSUME DetectStale \/ GC
  PROVE  \E q : Start(q) /\ QueueShape(q)
<1>1. CASE DetectStale
  BY <1>1, ForEachStale, QueuedShape DEF DetectStale
<1>2. CASE GC
  <2>1. [kind |-> "collect"] \in Queued
    BY DEF Queued, CollectCall
  <2>2. ForEach(PastGrace, ToArchive) \o <<[kind |-> "collect"]>> \in Seq(Queued)
    BY <2>1, ForEachArchive, ConcatProperties
  <2>. QED
    BY <1>2, <2>2, QueuedShape DEF GC
<1>. QED
  BY <1>1, <1>2

LEMMA OperationsStart ==
  ASSUME TypeOK, Authoring \/ Moves \/ Marks \/ DetectStale \/ GC
  PROVE  \E q : Start(q) /\ QueueShape(q)
<1>1. CASE Moves
  <2>1. PICK i \in Present(view) :
          \/ Validate(i) \/ Activate(i) \/ PromoteReplacement(i)
          \/ MarkStale(i) \/ Archive(i) \/ Quarantine(i) \/ Reject(i)
          \/ Restore(i) \/ Retire(i) \/ Rollback(i) \/ VerifyIntegrity(i)
          \/ \E j \in Present(view) : Supersede(i, j) \/ \E p \in Payloads : Merge(i, j, p)
    BY <1>1 DEF Moves
  <2>. QED
    BY <2>1, MoveStarts, CompoundStarts, MergeStarts, RollbackStarts
<1>. QED
  BY <1>1, AuthoringStarts, MarksStart, PoliciesStart

-----------------------------------------------------------------------------
(* The invariant and the steps. *)

LEMMA StartPreserves ==
  ASSUME IInv, NEW q, Start(q), QueueShape(q)
  PROVE  Shaped'
<1>1. TypeOK'
  BY DEF IInv, Shaped, TypeOK, Start, logVars, QueueShape
<1>2. QueueShape(todo)'
  BY DEF QueueShape, Start, logVars
<1>. QED
  BY <1>1, <1>2 DEF IInv, Shaped

(* What stands at the head of a queue, and what is left behind it. *)
LEMMA HeadAndTail ==
  ASSUME IInv, todo # <<>>
  PROVE  /\ Head(todo) \in Call
         /\ Tail(todo) \in Seq(Queued)
         /\ \/ Head(todo) \in Queued
            \/ Head(todo) \in CreateCall /\ created < MaxCreated
            \/ Head(todo) \in NoteCall \cup MarkCall /\ view[Head(todo).id] # Absent
<1>1. todo \in Seq(Call)
  BY DEF IInv, Shaped, QueueShape
<1>2. /\ Head(todo) \in Call /\ Tail(todo) \in Seq(Call)
      /\ Len(Tail(todo)) = Len(todo) - 1
      /\ \A k \in 1 .. Len(Tail(todo)) : Tail(todo)[k] = todo[k + 1]
  BY <1>1, HeadTailProperties
<1>3. Head(todo) = todo[1] /\ Len(todo) \in Nat
  BY <1>1, LenProperties
<1>4. \A k \in 1 .. Len(Tail(todo)) : Tail(todo)[k] \in Queued
  BY <1>2, <1>3 DEF IInv, Shaped, QueueShape
<1>5. Tail(todo) \in Seq(Queued)
  BY <1>2, <1>4, ElementsInSeq
<1>. QED
  BY <1>2, <1>3, <1>5 DEF IInv, Shaped, QueueShape
(* A commit is about a present artifact, a new one, or a deletion. *)
LEMMA CommittedCall ==
  ASSUME IInv, todo # <<>>, NEW c, c = Head(todo), Committing(c)
  PROVE  /\ c.id \in Ids
         /\ \/ c \in CreateCall /\ created < MaxCreated
            \/ c \in MoveCall /\ view[c.id] # Absent
            \/ c \in NoteCall \cup MarkCall /\ view[c.id] # Absent
            \/ c \in DeleteCall
<1>1. \/ c \in MoveCall \cup DeleteCall \cup CollectCall
      \/ c \in CreateCall /\ created < MaxCreated
      \/ c \in NoteCall \cup MarkCall /\ view[c.id] # Absent
  BY HeadAndTail DEF Queued
<1>2. c \notin CollectCall
  BY DEF Committing, CollectCall
<1>3. c \in MoveCall => view[c.id] # Absent
  BY DEF Committing, Legal, MoveCall, Edges, Absent
<1>4. c \in MoveCall \cup DeleteCall \cup CreateCall \cup NoteCall \cup MarkCall => c.id \in Ids
  BY DEF MoveCall, DeleteCall, CreateCall, NoteCall, MarkCall
<1>. QED
  BY <1>1, <1>2, <1>3, <1>4

(* The record both sides of a commit come to: st with the fields that some   *)
(* kind of event may change, stamped with the clock.                        *)
Stamped(st, lc, by, pinned, payload, used) ==
  [type |-> st.type, slot |-> st.slot, version |-> st.version,
   lc |-> lc, by |-> by, pinned |-> pinned, payload |-> payload,
   created_at |-> st.created_at, last_used_at |-> used, updated_at |-> clock]

LEMMA StampedType ==
  ASSUME clock \in Nat, NEW st \in State, NEW lc \in States, NEW by \in Ids \cup {NoId},
         NEW pinned \in BOOLEAN, NEW payload \in Payloads, NEW used \in Nat
  PROVE  Stamped(st, lc, by, pinned, payload, used) \in State
BY DEF Stamped, State

(* A stamped artifact is stamped; one more changed field gives the branches  *)
(* of the replay loop.                                                       *)
LEMMA Touch ==
  ASSUME clock \in Nat, NEW st \in State
  PROVE  [st EXCEPT !.updated_at = clock]
           = Stamped(st, st.lc, st.by, st.pinned, st.payload, st.last_used_at)
BY DEF Stamped, State

LEMMA OneField ==
  ASSUME clock \in Nat, NEW st \in State, st.updated_at = clock, NEW x
  PROVE  /\ [st EXCEPT !.last_used_at = x]
              = Stamped(st, st.lc, st.by, st.pinned, st.payload, x)
         /\ [st EXCEPT !.pinned = x]
              = Stamped(st, st.lc, st.by, x, st.payload, st.last_used_at)
         /\ [st EXCEPT !.payload = x]
              = Stamped(st, st.lc, st.by, st.pinned, x, st.last_used_at)
         /\ [st EXCEPT !.lc = x]
              = Stamped(st, x, st.by, st.pinned, st.payload, st.last_used_at)
         /\ [st EXCEPT !.by = x]
              = Stamped(st, st.lc, x, st.pinned, st.payload, st.last_used_at)
<1>1. [st EXCEPT !.last_used_at = x]
        = Stamped(st, st.lc, st.by, st.pinned, st.payload, x)
  BY DEF Stamped, State
<1>2. [st EXCEPT !.pinned = x]
        = Stamped(st, st.lc, st.by, x, st.payload, st.last_used_at)
  BY DEF Stamped, State
<1>3. [st EXCEPT !.payload = x]
        = Stamped(st, st.lc, st.by, st.pinned, x, st.last_used_at)
  BY DEF Stamped, State
<1>4. [st EXCEPT !.lc = x]
        = Stamped(st, x, st.by, st.pinned, st.payload, st.last_used_at)
  BY DEF Stamped, State
<1>5. [st EXCEPT !.by = x]
        = Stamped(st, st.lc, x, st.pinned, st.payload, st.last_used_at)
  BY DEF Stamped, State
<1>. QED
  BY <1>1, <1>2, <1>3, <1>4, <1>5, Zenon

(* What a commit makes of an artifact st that is there. *)
After(c, st) ==
  Stamped(st, IF c.kind = "move" THEN c.to ELSE st.lc,
          IF c.kind = "move" /\ c.to = "SUPERSEDED" THEN c.repl ELSE st.by,
          IF c.kind \in {"pinned", "unpinned"} THEN c.kind = "pinned" ELSE st.pinned,
          IF c.kind = "annotated" THEN c.payload ELSE st.payload,
          IF c.kind = "used" THEN clock ELSE st.last_used_at)

(* Both sides of a commit make the same of an artifact that is there: the   *)
(* assignments of _commit and the branches of the replay loop.              *)
LEMMA MaterialisedAs ==
  ASSUME NEW c \in MoveCall \cup NoteCall \cup MarkCall
  PROVE  Materialise(c) = After(c, view[c.id])
BY DEF MoveCall, NoteCall, MarkCall, Materialise, After, Stamped

LEMMA ReplayedAs ==
  ASSUME clock \in Nat, NEW c \in MoveCall \cup NoteCall \cup MarkCall,
         replay[c.id] \in State, replay[c.id] # Absent
  PROVE  ReplayEvent(c) = After(c, replay[c.id])
<1>. DEFINE st == replay[c.id]
            t == Touched(c.id)
<1>1. t = Stamped(st, st.lc, st.by, st.pinned, st.payload, st.last_used_at)
  BY Touch DEF Touched
<1>2. t \in State
  <2>1. /\ st.lc \in States /\ st.by \in Ids \cup {NoId} /\ st.pinned \in BOOLEAN
        /\ st.payload \in Payloads /\ st.last_used_at \in Nat
    BY DEF State
  <2>. HIDE DEF t
  <2>. QED
    BY <1>1, <2>1, StampedType, Zenon
<1>3. \A lc, by, pinned, payload, used :
        Stamped(t, lc, by, pinned, payload, used) = Stamped(st, lc, by, pinned, payload, used)
  BY <1>1 DEF Stamped
<1>4. /\ t.lc = st.lc /\ t.by = st.by /\ t.pinned = st.pinned /\ t.payload = st.payload
      /\ t.last_used_at = st.last_used_at /\ t.updated_at = clock
  BY <1>1 DEF Stamped
<1>5. CASE c \in MoveCall
  <2>. DEFINE m == Moved(c)
  <2>1. m = Stamped(t, c.to, t.by, t.pinned, t.payload, t.last_used_at)
    <3>1. m = [t EXCEPT !.lc = c.to]
      BY Zenon DEF Moved
    <3>. HIDE DEF m, t
    <3>. QED
      BY <1>2, <1>4, <3>1, OneField, Zenon
  <2>2. c.to \in States
    BY <1>5 DEF MoveCall
  <2>3. m \in State /\ m.updated_at = clock /\ m.lc = c.to
    BY <1>2, <2>1, <2>2, StampedType DEF Stamped, State
  <2>4. CASE c.to = "SUPERSEDED"
    <3>1. ReplayEvent(c) = [m EXCEPT !.by = c.repl]
      BY <1>5, <2>4 DEF ReplayEvent, MoveCall
    <3>. HIDE DEF m
    <3>2. [m EXCEPT !.by = c.repl]
            = Stamped(m, m.lc, c.repl, m.pinned, m.payload, m.last_used_at)
      BY <2>3, OneField, Zenon
    <3>. QED
      BY <1>1, <1>5, <2>1, <2>4, <3>1, <3>2 DEF After, Stamped, MoveCall
  <2>5. CASE c.to # "SUPERSEDED"
    <3>1. ReplayEvent(c) = m
      BY <1>5, <2>5 DEF ReplayEvent, MoveCall
    <3>. QED
      BY <1>1, <1>5, <2>1, <2>5, <3>1 DEF After, Stamped, MoveCall
  <2>. QED
    BY <2>4, <2>5
<1>. HIDE DEF t
<1>6. CASE c \in NoteCall
  <2>1. ReplayEvent(c) = [t EXCEPT !.payload = c.payload]
    BY <1>6 DEF ReplayEvent, NoteCall, t
  <2>2. ReplayEvent(c) = Stamped(t, t.lc, t.by, t.pinned, c.payload, t.last_used_at)
    BY <1>2, <1>4, <2>1, OneField, Zenon
  <2>. QED
    BY <1>3, <1>4, <1>6, <2>2 DEF NoteCall, After
<1>7. CASE c \in MarkCall /\ c.kind = "used"
  <2>1. ReplayEvent(c) = [t EXCEPT !.last_used_at = clock]
    BY <1>7 DEF ReplayEvent, t
  <2>2. ReplayEvent(c) = Stamped(t, t.lc, t.by, t.pinned, t.payload, clock)
    BY <1>2, <1>4, <2>1, OneField, Zenon
  <2>. QED
    BY <1>3, <1>4, <1>7, <2>2 DEF After
<1>8. CASE c \in MarkCall /\ c.kind \in {"pinned", "unpinned"}
  <2>1. ReplayEvent(c) = [t EXCEPT !.pinned = (c.kind = "pinned")]
    BY <1>8 DEF ReplayEvent, t
  <2>2. ReplayEvent(c) = Stamped(t, t.lc, t.by, c.kind = "pinned", t.payload, t.last_used_at)
    BY <1>2, <1>4, <2>1, OneField, Zenon
  <2>. QED
    BY <1>3, <1>4, <1>8, <2>2 DEF After
<1>. QED
  BY <1>5, <1>6, <1>7, <1>8 DEF MarkCall

LEMMA AfterType ==
  ASSUME clock \in Nat, NEW c \in MoveCall \cup NoteCall \cup MarkCall, NEW st \in State
  PROVE  After(c, st) \in State
<1>1. /\ (IF c.kind = "move" THEN c.to ELSE st.lc) \in States
      /\ (IF c.kind = "move" /\ c.to = "SUPERSEDED" THEN c.repl ELSE st.by) \in Ids \cup {NoId}
      /\ (IF c.kind = "annotated" THEN c.payload ELSE st.payload) \in Payloads
      /\ (IF c.kind = "used" THEN clock ELSE st.last_used_at) \in Nat
  BY DEF MoveCall, NoteCall, MarkCall, State
<1>2. (IF c.kind \in {"pinned", "unpinned"} THEN c.kind = "pinned" ELSE st.pinned) \in BOOLEAN
  BY DEF State
<1>. QED
  BY <1>1, <1>2, StampedType, ZenonT(30) DEF After

(* The two sides make the same new artifact. *)
LEMMA CreatedAlike ==
  ASSUME NEW c \in CreateCall, clock \in Nat, versions \in [Slots -> Nat]
  PROVE  /\ Materialise(c) = ReplayEvent(c)
         /\ ReplayEvent(c) \in State
<1>1. c.kind = "create" /\ c.type \in Types /\ c.slot \in Slots /\ c.payload \in Payloads
  BY DEF CreateCall
<1>2. Materialise(c) = ReplayEvent(c)
  BY <1>1 DEF Materialise, ReplayEvent, Fresh
<1>3. ReplayEvent(c) \in State
  BY <1>1 DEF ReplayEvent, NextVersion, State, States
<1>. QED
  BY <1>2, <1>3

(* The artifact a commit leaves in the view. *)
LEMMA MaterialiseType ==
  ASSUME IInv, todo # <<>>, NEW c, c = Head(todo), Committing(c)
  PROVE  Applied(c) \in Views
<1>0. view \in Views /\ versions \in [Slots -> Nat] /\ clock \in Nat
  BY ConstantsAssumption DEF IInv, Shaped, TypeOK, ConstantsAssumption
<1>1. CASE c \in CreateCall
  BY <1>0, <1>1, CreatedAlike DEF Applied, Views
<1>2. CASE c \in DeleteCall
  BY <1>0, <1>2 DEF Materialise, DeleteCall, Applied, Views
<1>3. CASE c \in MoveCall \cup NoteCall \cup MarkCall /\ view[c.id] # Absent /\ c.id \in Ids
  <2>1. view[c.id] \in State
    BY <1>0, <1>3 DEF Views
  <2>2. Materialise(c) \in State
    BY <1>0, <1>3, <2>1, MaterialisedAs, AfterType
  <2>. QED
    BY <1>0, <2>2 DEF Applied, Views
<1>. QED
  BY <1>1, <1>2, <1>3, CommittedCall

(* What an append does to the log. *)
LEMMA AppendEventType ==
  ASSUME IInv, todo # <<>>, NEW c, c = Head(todo), Committing(c), AppendEvent(c)
  PROVE  /\ replay' \in Views
         /\ created' \in 0 .. MaxCreated
         /\ versions' \in [Slots -> Nat]
         /\ named' \in SUBSET Ids /\ born' \in SUBSET Ids
<1>0. /\ replay \in Views /\ versions \in [Slots -> Nat] /\ clock \in Nat
      /\ created \in 0 .. MaxCreated /\ named \in SUBSET Ids /\ born \in SUBSET Ids
  BY ConstantsAssumption DEF IInv, Shaped, TypeOK, ConstantsAssumption
<1>1. /\ c.id \in Ids
      /\ \/ c \in CreateCall /\ created < MaxCreated
         \/ c \in MoveCall \cup NoteCall \cup MarkCall \cup DeleteCall
  BY CommittedCall
<1>2. ReplayEvent(c) \in State \cup {Absent}
  <2>1. CASE c \in CreateCall
    BY <1>0, <2>1, CreatedAlike
  <2>2. CASE c \in DeleteCall
    BY <2>2 DEF ReplayEvent, DeleteCall
  <2>3. CASE c \in MoveCall \cup NoteCall \cup MarkCall /\ replay[c.id] = Absent
    BY <2>3 DEF ReplayEvent, MoveCall, NoteCall, MarkCall
  <2>4. CASE c \in MoveCall \cup NoteCall \cup MarkCall /\ replay[c.id] # Absent
    <3>1. replay[c.id] \in State
      BY <1>0, <1>1, <2>4 DEF Views
    <3>. QED
      BY <1>0, <2>4, <3>1, ReplayedAs, AfterType
  <2>. QED
    BY <1>1, <2>1, <2>2, <2>3, <2>4
<1>3. replay' \in Views /\ named' \in SUBSET Ids
  BY <1>0, <1>1, <1>2 DEF AppendEvent, Views
<1>4. CASE c.kind = "create"
  <2>1. c \in CreateCall /\ created < MaxCreated
    BY <1>1, <1>4 DEF MoveCall, NoteCall, MarkCall, DeleteCall
  <2>. QED
    BY <1>0, <1>1, <1>3, <1>4, <2>1, ConstantsAssumption
    DEF AppendEvent, NextVersion, CreateCall, ConstantsAssumption
<1>5. CASE c.kind # "create"
  BY <1>0, <1>3, <1>5 DEF AppendEvent
<1>. QED
  BY <1>4, <1>5

(* What a failed or interrupted append leaves in the view. *)
LEMMA FreshType ==
  ASSUME IInv, NEW c \in CreateCall
  PROVE  [view EXCEPT ![c.id] = Fresh(c)] \in Views
<1>1. Fresh(c) \in State
  BY DEF IInv, Shaped, TypeOK, CreateCall, Fresh, NextVersion, State, States
<1>. QED
  BY <1>1 DEF IInv, Shaped, TypeOK, Views

LEMMA NoViewType == NoView \in Views
BY DEF NoView, Views

(* The queue that a commit leaves. *)
LEMMA RestShape ==
  ASSUME IInv, todo # <<>>, todo' = Tail(todo) \/ todo' = <<>>
  PROVE  QueueShape(todo)'
<1>1. todo' \in Seq(Queued)
  BY HeadAndTail, EmptySeq
<1>2. todo' \in Seq(Call) /\ \A k \in 1 .. Len(todo') : todo'[k] \in Queued
  <2>1. Queued \subseteq Call
    BY DEF Queued, Call
  <2>. QED
    BY <1>1, <2>1, SeqMonotonic, ElementOfSeq
<1>3. todo' # <<>> => 1 \in 1 .. Len(todo')
  BY <1>1, EmptySeq, LenProperties
<1>. QED
  BY <1>1, <1>2, <1>3, LenProperties DEF QueueShape

LEMMA StepPreserves ==
  ASSUME IInv, Step
  PROVE  Shaped'
<1>. DEFINE c == Head(todo)
<1>0. todo # <<>> /\ faults \in 0 .. MaxFaults /\ MaxFaults \in Nat
  BY ConstantsAssumption DEF Step, IInv, Shaped, TypeOK, ConstantsAssumption
<1>1. CASE Commit(c)
  <2>1. Committing(c) /\ AppendEvent(c) /\ todo' = Tail(todo)
    BY <1>1 DEF Commit
  <2>2. Applied(c) \in Views
    BY <1>0, <2>1, MaterialiseType
  <2>3. /\ replay' \in Views /\ created' \in 0 .. MaxCreated
        /\ versions' \in [Slots -> Nat] /\ named' \in SUBSET Ids /\ born' \in SUBSET Ids
    BY <1>0, <2>1, AppendEventType
  <2>4. QueueShape(todo)'
    BY <1>0, <2>1, RestShape
  <2>. HIDE DEF c
  <2>5. TypeOK'
    BY <1>1, <2>2, <2>3, <2>4 DEF Commit, IInv, Shaped, TypeOK, QueueShape
  <2>. QED
    BY <2>4, <2>5 DEF IInv, Shaped
<1>2. CASE Raise(c)
  <2>1. todo' = <<>>
    BY <1>2 DEF Raise
  <2>2. QueueShape(todo)'
    BY <1>0, <2>1, RestShape
  <2>. HIDE DEF c
  <2>3. TypeOK'
    BY <1>2, <2>2 DEF Raise, logVars, IInv, Shaped, TypeOK, QueueShape
  <2>. QED
    BY <2>2, <2>3 DEF IInv, Shaped
<1>3. CASE AppendFails(c)
  <2>1. Committing(c) /\ todo' = <<>>
    BY <1>3 DEF AppendFails
  <2>2. QueueShape(todo)'
    BY <1>0, <2>1, RestShape
  <2>3. c.kind = "create" => c \in CreateCall
    BY <1>0, HeadAndTail DEF Queued, MoveCall, DeleteCall, CollectCall, NoteCall, MarkCall
  <2>4. view' \in Views
    <3>1. CASE c.kind = "create"
      BY <1>3, <2>3, <3>1, FreshType DEF AppendFails
    <3>2. CASE c.kind # "create"
      BY <1>3, <3>2 DEF AppendFails, IInv, Shaped, TypeOK
    <3>. QED
      BY <3>1, <3>2
  <2>. HIDE DEF c
  <2>5. faults' \in 0 .. MaxFaults
    BY <1>0, <1>3 DEF AppendFails, Strike
  <2>6. TypeOK'
    BY <1>3, <2>2, <2>4, <2>5 DEF AppendFails, logVars, IInv, Shaped, TypeOK, QueueShape
  <2>. QED
    BY <2>2, <2>6 DEF IInv, Shaped
<1>4. CASE SaveFails(c)
  <2>1. Committing(c) /\ AppendEvent(c) /\ todo' = <<>>
    BY <1>4 DEF SaveFails
  <2>2. Applied(c) \in Views
    BY <1>0, <2>1, MaterialiseType
  <2>3. /\ replay' \in Views /\ created' \in 0 .. MaxCreated
        /\ versions' \in [Slots -> Nat] /\ named' \in SUBSET Ids /\ born' \in SUBSET Ids
    BY <1>0, <2>1, AppendEventType
  <2>4. QueueShape(todo)'
    BY <1>0, <2>1, RestShape
  <2>. HIDE DEF c
  <2>5. faults' \in 0 .. MaxFaults
    BY <1>0, <1>4 DEF SaveFails, Strike
  <2>6. TypeOK'
    BY <1>4, <2>2, <2>3, <2>4, <2>5 DEF SaveFails, IInv, Shaped, TypeOK, QueueShape
  <2>. QED
    BY <2>4, <2>6 DEF IInv, Shaped
<1>5. CASE CrashAfterAppend(c)
  <2>1. Committing(c) /\ AppendEvent(c) /\ todo' = <<>>
    BY <1>5 DEF CrashAfterAppend, Stops
  <2>2. /\ replay' \in Views /\ created' \in 0 .. MaxCreated
        /\ versions' \in [Slots -> Nat] /\ named' \in SUBSET Ids /\ born' \in SUBSET Ids
    BY <1>0, <2>1, AppendEventType
  <2>3. QueueShape(todo)'
    BY <1>0, <2>1, RestShape
  <2>. HIDE DEF c
  <2>4. faults' \in 0 .. MaxFaults
    BY <1>0, <1>5 DEF CrashAfterAppend, Strike
  <2>5. TypeOK'
    BY <1>5, <2>2, <2>3, <2>4, NoViewType DEF CrashAfterAppend, Stops, IInv, Shaped, TypeOK, QueueShape
  <2>. QED
    BY <2>3, <2>5 DEF IInv, Shaped
<1>6. CASE CrashMidAppend(c)
  <2>1. todo' = <<>>
    BY <1>6 DEF CrashMidAppend, Stops
  <2>2. QueueShape(todo)'
    BY <1>0, <2>1, RestShape
  <2>. HIDE DEF c
  <2>3. faults' \in 0 .. MaxFaults
    BY <1>0, <1>6 DEF CrashMidAppend, Strike
  <2>4. TypeOK'
    BY <1>6, <2>2, <2>3, NoViewType
    DEF CrashMidAppend, Stops, logVars, IInv, Shaped, TypeOK, QueueShape
  <2>. QED
    BY <2>2, <2>4 DEF IInv, Shaped
<1>. QED
  BY <1>1, <1>2, <1>3, <1>4, <1>5, <1>6 DEF Step

LEMMA CollectPreserves ==
  ASSUME IInv, Collect
  PROVE  Shaped'
<1>1. todo # <<>> /\ todo' = ForEach(PastRetention, ToDelete) \o Tail(todo)
  BY DEF Collect
<1>2. todo' \in Seq(Queued)
  BY <1>1, HeadAndTail, ForEachDelete, ConcatProperties
<1>3. QueueShape(todo')
  BY <1>2, QueuedShape
<1>4. view' = view /\ created' = created
  BY DEF Collect, logVars
<1>5. QueueShape(todo)'
  BY <1>3, <1>4 DEF QueueShape
<1>6. TypeOK'
  BY <1>5 DEF Collect, logVars, IInv, Shaped, TypeOK, QueueShape
<1>. QED
  BY <1>5, <1>6 DEF IInv, Shaped

LEMMA EnvironmentPreserves ==
  ASSUME IInv, Environment
  PROVE  Shaped'
<1>0. MaxFaults \in Nat /\ MaxClock \in Nat /\ faults \in 0 .. MaxFaults
  BY ConstantsAssumption DEF IInv, Shaped, TypeOK, ConstantsAssumption
<1>1. CASE Crash
  <2>1. todo' = <<>> /\ todo' \in Seq(Call)
    BY <1>1 DEF Crash, Stops
  <2>2. QueueShape(todo)'
    BY <2>1, EmptySeq DEF QueueShape
  <2>3. /\ up' = FALSE /\ view' \in Views /\ faults' \in 0 .. MaxFaults
        /\ UNCHANGED <<disk, logVars, torn, clock>>
    BY <1>0, <1>1, NoViewType DEF Crash, Stops, Strike
  <2>4. TypeOK'
    BY <2>1, <2>3 DEF logVars, IInv, Shaped, TypeOK
  <2>. QED
    BY <2>2, <2>4 DEF Shaped
<1>2. CASE Open
  <2>1. TypeOK'
    BY <1>2 DEF Open, logVars, IInv, Shaped, TypeOK
  <2>2. todo' = <<>> /\ todo' \in Seq(Call)
    BY <1>2 DEF Open, IInv, Shaped, QueueShape
  <2>3. QueueShape(todo)'
    BY <2>2, EmptySeq DEF QueueShape
  <2>. QED
    BY <2>1, <2>3 DEF Shaped
<1>3. CASE LoseDisk
  <2>1. TypeOK'
    BY <1>0, <1>3, NoViewType DEF LoseDisk, Strike, logVars, IInv, Shaped, TypeOK
  <2>2. QueueShape(todo)'
    BY <1>3 DEF LoseDisk, logVars, IInv, Shaped, QueueShape
  <2>. QED
    BY <2>1, <2>2 DEF IInv, Shaped
<1>4. ASSUME NEW i \in Ids, EditDisk(i)
      PROVE  Shaped'
  <2>1. disk[i] \in State
    BY <1>4 DEF EditDisk, IInv, Shaped, TypeOK, Views
  <2>2. [disk[i] EXCEPT !.lc = "ACTIVE"] \in State
    BY <2>1 DEF State, States
  <2>3. disk' \in Views
    BY <1>4, <2>2 DEF EditDisk, IInv, Shaped, TypeOK, Views
  <2>4. TypeOK'
    BY <1>0, <1>4, <2>3 DEF EditDisk, Strike, logVars, IInv, Shaped, TypeOK
  <2>5. QueueShape(todo)'
    BY <1>4 DEF EditDisk, logVars, IInv, Shaped, QueueShape
  <2>. QED
    BY <2>4, <2>5 DEF IInv, Shaped
<1>5. CASE Tick
  <2>1. TypeOK'
    BY <1>0, <1>5 DEF Tick, logVars, IInv, Shaped, TypeOK
  <2>2. QueueShape(todo)'
    BY <1>5 DEF Tick, logVars, IInv, Shaped, QueueShape
  <2>. QED
    BY <2>1, <2>2 DEF IInv, Shaped
<1>. QED
  BY <1>1, <1>2, <1>3, <1>4, <1>5 DEF Environment

LEMMA InitHolds == Init => IInv
<1>. SUFFICES ASSUME Init PROVE IInv
  OBVIOUS
<1>1. todo = <<>> /\ todo \in Seq(Call)
  BY DEF Init
<1>2. QueueShape(todo)
  BY <1>1, EmptySeq DEF QueueShape
<1>3. TypeOK
  <2>1. MaxClock \in Nat /\ MaxCreated \in Nat /\ MaxFaults \in Nat
    BY ConstantsAssumption DEF ConstantsAssumption
  <2>2. 1 \in 1 .. MaxClock + 1 /\ 0 \in 0 .. MaxCreated /\ 0 \in 0 .. MaxFaults
    BY <2>1
  <2>3. [s \in Slots |-> 0] \in [Slots -> Nat]
    OBVIOUS
  <2>. QED
    BY <1>1, <2>2, <2>3, NoViewType DEF Init, TypeOK
<1>. QED
  BY <1>1, <1>2, <1>3 DEF IInv, Shaped

LEMMA NextPreserves == IInv /\ [Next]_vars => IInv'
<1>. SUFFICES ASSUME IInv, [Next]_vars PROVE IInv'
  OBVIOUS
<1>1. CASE Authoring \/ Moves \/ Marks \/ DetectStale \/ GC
  <2>1. PICK q : Start(q) /\ QueueShape(q)
    BY <1>1, OperationsStart DEF IInv, Shaped
  <2>2. Shaped'
    BY <2>1, StartPreserves
  <2>. QED
    BY <2>1, <2>2 DEF IInv, Start
<1>2. CASE Collect
  BY <1>2, CollectPreserves DEF IInv, Collect
<1>3. CASE Step
  <2>1. Shaped'
    BY <1>3, StepPreserves
  <2>2. up' \/ todo' = <<>>
    BY <1>3 DEF Step, Commit, Raise, AppendFails, SaveFails, CrashAfterAppend,
                CrashMidAppend, Stops, Committing
  <2>. QED
    BY <2>1, <2>2 DEF IInv
<1>4. CASE Environment
  <2>1. Shaped'
    BY <1>4, EnvironmentPreserves
  <2>2. up' \/ todo' = <<>>
    BY <1>4 DEF Environment, Crash, Stops, Open, LoseDisk, EditDisk, Tick, IInv
  <2>. QED
    BY <2>1, <2>2 DEF IInv
<1>5. CASE UNCHANGED vars
  BY <1>5 DEF vars, IInv, Shaped, TypeOK, QueueShape
<1>. QED
  BY <1>1, <1>2, <1>3, <1>4, <1>5 DEF Next, Maintenance

(* Type correctness: whatever the callers, the faults and the schedule, the *)
(* view, states.json and the log's replay hold full records of known states *)
(* for known identities, and the log never outgrows its bound.              *)
THEOREM TypeCorrect == Spec => []TypeOK
<1>1. IInv => TypeOK
  BY DEF IInv, Shaped
<1>. QED
  BY <1>1, InitHolds, NextPreserves, PTL DEF Spec

-----------------------------------------------------------------------------
(* The view and the log. *)

(* What a commit does to the artifact it is about is the same in the view   *)
(* and in the replayed log, if they agree before.                           *)
LEMMA SidesAgree ==
  ASSUME IInv, todo # <<>>, NEW c, c = Head(todo), Committing(c), view = replay
  PROVE  Materialise(c) = ReplayEvent(c)
<1>0. view \in Views /\ versions \in [Slots -> Nat] /\ clock \in Nat
  BY ConstantsAssumption DEF IInv, Shaped, TypeOK, ConstantsAssumption
<1>1. CASE c \in CreateCall
  BY <1>0, <1>1, CreatedAlike
<1>2. CASE c \in DeleteCall
  BY <1>2 DEF DeleteCall, Materialise, ReplayEvent
<1>3. CASE c \in MoveCall \cup NoteCall \cup MarkCall /\ view[c.id] # Absent /\ c.id \in Ids
  <2>1. replay[c.id] \in State /\ replay[c.id] # Absent
    BY <1>0, <1>3 DEF Views
  <2>2. Materialise(c) = After(c, view[c.id])
    BY <1>3, MaterialisedAs
  <2>3. ReplayEvent(c) = After(c, replay[c.id])
    BY <1>0, <1>3, <2>1, ReplayedAs
  <2>. QED
    BY <2>2, <2>3
<1>. QED
  BY <1>1, <1>2, <1>3, CommittedCall

(* One step keeps a running manager's view equal to the replayed log, when  *)
(* no append fails.                                                         *)
LEMMA ViewStep ==
  ASSUME "append" \notin Faults, IInv, ViewEqualsRebuild, [Next]_vars
  PROVE  ViewEqualsRebuild'
<1>1. CASE Authoring \/ Moves \/ Marks \/ DetectStale \/ GC
  <2>1. PICK q : Start(q)
    BY <1>1, OperationsStart DEF IInv, Shaped
  <2>. QED
    BY <2>1 DEF Start, logVars, ViewEqualsRebuild
<1>2. CASE Collect
  BY <1>2 DEF Collect, logVars, ViewEqualsRebuild
<1>3. CASE Step
  <2>. DEFINE c == Head(todo)
  <2>1. todo # <<>> /\ (\/ Commit(c) \/ Raise(c) \/ AppendFails(c) \/ SaveFails(c)
                       \/ CrashAfterAppend(c) \/ CrashMidAppend(c))
    BY <1>3 DEF Step
  <2>2. CASE Commit(c) \/ SaveFails(c)
    <3>1. Committing(c) /\ AppendEvent(c) /\ view' = Applied(c)
      BY <2>2 DEF Commit, SaveFails
    <3>2. view = replay
      BY <3>1 DEF Committing, ViewEqualsRebuild
    <3>3. Materialise(c) = ReplayEvent(c)
      BY <2>1, <3>1, <3>2, SidesAgree
    <3>. HIDE DEF c
    <3>. QED
      BY <3>1, <3>2, <3>3 DEF AppendEvent, Applied, ViewEqualsRebuild
  <2>3. CASE Raise(c)
    BY <2>3 DEF Raise, logVars, ViewEqualsRebuild
  <2>4. CASE AppendFails(c)
    BY <2>4 DEF AppendFails, Strike
  <2>5. CASE CrashAfterAppend(c) \/ CrashMidAppend(c)
    BY <2>5 DEF CrashAfterAppend, CrashMidAppend, Stops, ViewEqualsRebuild
  <2>. QED
    BY <2>1, <2>2, <2>3, <2>4, <2>5
<1>4. CASE Environment
  <2>1. CASE Crash
    BY <2>1 DEF Crash, Stops, ViewEqualsRebuild
  <2>2. CASE Open
    BY <2>2 DEF Open, logVars, ViewEqualsRebuild
  <2>3. CASE LoseDisk \/ Tick \/ \E i \in Ids : EditDisk(i)
    BY <2>3 DEF LoseDisk, EditDisk, Tick, logVars, ViewEqualsRebuild
  <2>. QED
    BY <1>4, <2>1, <2>2, <2>3 DEF Environment
<1>5. CASE UNCHANGED vars
  BY <1>5 DEF vars, ViewEqualsRebuild
<1>. QED
  BY <1>1, <1>2, <1>3, <1>4, <1>5 DEF Next, Maintenance

(* README, "the materialized view must always equal                         *)
(* rebuild_artifact_state(events)": whatever crashes, save failures, torn   *)
(* lines and edits of states.json strike, and whatever is called, a running *)
(* manager's view is the rebuild of its log, provided no append fails.      *)
THEOREM ViewRebuilt ==
  ASSUME "append" \notin Faults
  PROVE  Spec => []ViewEqualsRebuild
<1>1. Init => ViewEqualsRebuild
  BY DEF Init, ViewEqualsRebuild
<1>2. IInv /\ ViewEqualsRebuild /\ [Next]_vars => ViewEqualsRebuild'
  BY ViewStep
<1>. QED
  BY <1>1, <1>2, InitHolds, NextPreserves, PTL DEF Spec

-----------------------------------------------------------------------------
(* states.json.                                                             *)

LEMMA DiskStep ==
  ASSUME Faults \subseteq {"crash", "torn"}, DiskIsRebuildOrMissing, ViewEqualsRebuild',
         IInv, [Next]_vars
  PROVE  DiskIsRebuildOrMissing'
<1>1. CASE Authoring \/ Moves \/ Marks \/ DetectStale \/ GC
  <2>1. PICK q : Start(q)
    BY <1>1, OperationsStart DEF IInv, Shaped
  <2>. QED
    BY <2>1 DEF Start, logVars, DiskIsRebuildOrMissing
<1>2. CASE Collect \/ UNCHANGED vars
  BY <1>2 DEF Collect, vars, logVars, DiskIsRebuildOrMissing
<1>3. CASE Step
  <2>. DEFINE c == Head(todo)
  <2>1. CASE Commit(c)
    <3>1. disk' = view' /\ up'
      BY <2>1 DEF Commit, Committing
    <3>. QED
      BY <3>1 DEF DiskIsRebuildOrMissing, ViewEqualsRebuild
  <2>2. CASE Raise(c)
    BY <2>2 DEF Raise, logVars, DiskIsRebuildOrMissing
  <2>3. CASE AppendFails(c) \/ SaveFails(c)
    BY <2>3 DEF AppendFails, SaveFails, Strike
  <2>4. CASE CrashAfterAppend(c) \/ CrashMidAppend(c)
    BY <2>4 DEF CrashAfterAppend, CrashMidAppend, Stops, DiskIsRebuildOrMissing
  <2>. QED
    BY <1>3, <2>1, <2>2, <2>3, <2>4 DEF Step
<1>4. CASE Environment
  <2>1. CASE Crash
    BY <2>1 DEF Crash, Stops, DiskIsRebuildOrMissing
  <2>2. CASE Open
    BY <2>2 DEF Open, logVars, DiskIsRebuildOrMissing
  <2>3. CASE Tick
    BY <2>3 DEF Tick, logVars, DiskIsRebuildOrMissing
  <2>4. CASE LoseDisk \/ \E i \in Ids : EditDisk(i)
    BY <2>4 DEF LoseDisk, EditDisk, Strike
  <2>. QED
    BY <1>4, <2>1, <2>2, <2>3, <2>4 DEF Environment
<1>. QED
  BY <1>1, <1>2, <1>3, <1>4 DEF Next, Maintenance

(* lifecycle.py:306-335: whatever is called and wherever the process dies, a  *)
(* running manager has on disk the rebuild of the log or nothing at all,     *)
(* as long as no write raises and nobody else touches states.json.          *)
THEOREM DiskFollowsLog ==
  ASSUME Faults \subseteq {"crash", "torn"}
  PROVE  Spec => []DiskIsRebuildOrMissing
<1>1. Init => ViewEqualsRebuild /\ DiskIsRebuildOrMissing
  BY DEF Init, ViewEqualsRebuild, DiskIsRebuildOrMissing
<1>2. IInv /\ ViewEqualsRebuild /\ [Next]_vars => ViewEqualsRebuild'
  BY ViewStep
<1>3. /\ IInv /\ DiskIsRebuildOrMissing /\ ViewEqualsRebuild' /\ [Next]_vars
      => DiskIsRebuildOrMissing'
  BY DiskStep
<1>. QED
  BY <1>1, <1>2, <1>3, InitHolds, NextPreserves, PTL DEF Spec

-----------------------------------------------------------------------------
(* Steps, as the log sees them.                                             *)

Logged ==
  /\ todo # <<>> /\ Committing(Head(todo)) /\ AppendEvent(Head(todo))
  /\ \/ view' = Applied(Head(todo)) /\ up' = up
     \/ view' = NoView /\ ~up'
  /\ todo' \in {Tail(todo), <<>>} /\ UNCHANGED clock

LEMMA StepKinds ==
  ASSUME IInv, [Next]_vars
  PROVE  \/ Logged
         \/ UNCHANGED logVars
<1>1. CASE Authoring \/ Moves \/ Marks \/ DetectStale \/ GC
  <2>1. PICK q : Start(q)
    BY <1>1, OperationsStart DEF IInv, Shaped
  <2>. QED
    BY <2>1 DEF Start
<1>2. CASE Step
  BY <1>2 DEF Step, Commit, Raise, AppendFails, SaveFails, CrashAfterAppend, CrashMidAppend,
              Stops, Logged
<1>3. CASE Collect \/ Environment \/ UNCHANGED vars
  BY <1>3 DEF Collect, Environment, Crash, Open, LoseDisk, EditDisk, Tick, vars, logVars
<1>. QED
  BY <1>1, <1>2, <1>3 DEF Next, Maintenance

(* What an event does to the artifact it is about.                          *)
LEMMA EventEffect ==
  ASSUME IInv, Logged, NEW c, c = Head(todo)
  PROVE  /\ c.id \in Ids
         /\ replay' = [replay EXCEPT ![c.id] = ReplayEvent(c)]
         /\ \/ /\ c \in CreateCall /\ created < MaxCreated
               /\ ReplayEvent(c) \in State
               /\ ReplayEvent(c).type = c.type /\ ReplayEvent(c).slot = c.slot
               /\ ReplayEvent(c).version = versions[c.slot] + 1
               /\ ReplayEvent(c).lc = "CANDIDATE"
               /\ created' = created + 1 /\ born' = born \cup {c.id}
               /\ versions' = [versions EXCEPT ![c.slot] = @ + 1]
            \/ /\ c \in DeleteCall \cup MoveCall \cup NoteCall \cup MarkCall
               /\ ReplayEvent(c) = Absent
               /\ c \in DeleteCall \/ replay[c.id] = Absent
               /\ UNCHANGED <<created, versions, born>>
            \/ /\ c \in MoveCall \cup NoteCall \cup MarkCall
               /\ replay[c.id] \in State /\ replay[c.id] # Absent
               /\ ReplayEvent(c) = After(c, replay[c.id])
               /\ UNCHANGED <<created, versions, born>>
<1>0. /\ replay \in Views /\ versions \in [Slots -> Nat] /\ clock \in Nat
      /\ created \in 0 .. MaxCreated
  BY ConstantsAssumption DEF IInv, Shaped, TypeOK, ConstantsAssumption
<1>1. todo # <<>> /\ Committing(c) /\ AppendEvent(c)
  BY DEF Logged
<1>2. /\ c.id \in Ids
      /\ \/ c \in CreateCall /\ created < MaxCreated
         \/ c \in MoveCall \cup NoteCall \cup MarkCall
         \/ c \in DeleteCall
  BY <1>1, CommittedCall
<1>3. replay' = [replay EXCEPT ![c.id] = ReplayEvent(c)]
  BY <1>1 DEF AppendEvent
<1>4. CASE c \in CreateCall /\ created < MaxCreated
  <2>1. c.kind = "create"
    BY <1>4 DEF CreateCall
  <2>2. ReplayEvent(c) \in State
    BY <1>0, <1>4, CreatedAlike
  <2>3. /\ ReplayEvent(c).type = c.type /\ ReplayEvent(c).slot = c.slot
        /\ ReplayEvent(c).version = versions[c.slot] + 1
        /\ ReplayEvent(c).lc = "CANDIDATE"
    BY <2>1 DEF ReplayEvent, NextVersion
  <2>4. /\ created' = created + 1 /\ born' = born \cup {c.id}
        /\ versions' = [versions EXCEPT ![c.slot] = @ + 1]
    BY <1>1, <2>1 DEF AppendEvent, NextVersion
  <2>. QED
    BY <1>2, <1>3, <1>4, <2>2, <2>3, <2>4
<1>5. CASE c \in DeleteCall \cup MoveCall \cup NoteCall \cup MarkCall
  <2>1. c.kind # "create"
    BY <1>5 DEF DeleteCall, MoveCall, NoteCall, MarkCall
  <2>2. UNCHANGED <<created, versions, born>>
    BY <1>1, <2>1 DEF AppendEvent
  <2>3. CASE c \in DeleteCall \/ replay[c.id] = Absent
    <3>1. ReplayEvent(c) = Absent
      BY <2>1, <2>3 DEF ReplayEvent, DeleteCall
    <3>. QED
      BY <1>2, <1>3, <1>5, <2>2, <2>3, <3>1
  <2>4. CASE c \in MoveCall \cup NoteCall \cup MarkCall /\ replay[c.id] # Absent
    <3>1. replay[c.id] \in State
      BY <1>0, <1>2, <2>4 DEF Views
    <3>2. ReplayEvent(c) = After(c, replay[c.id])
      BY <1>0, <2>4, <3>1, ReplayedAs
    <3>. QED
      BY <1>2, <1>3, <2>2, <2>4, <3>1, <3>2
  <2>. QED
    BY <1>5, <2>3, <2>4
<1>. QED
  BY <1>2, <1>4, <1>5

LEMMA AfterKeeps ==
  ASSUME NEW c, NEW st
  PROVE  /\ After(c, st).type = st.type /\ After(c, st).slot = st.slot
         /\ After(c, st).version = st.version
         /\ After(c, st).lc = (IF c.kind = "move" THEN c.to ELSE st.lc)
         /\ After(c, st).by = (IF c.kind = "move" /\ c.to = "SUPERSEDED" THEN c.repl ELSE st.by)
         /\ After(c, st).lc # "ABSENT" <=> (IF c.kind = "move" THEN c.to ELSE st.lc) # "ABSENT"
BY DEF After, Stamped

LEMMA PresentInLog ==
  ASSUME IInv, NEW i
  PROVE  i \in Present(replay) <=> i \in Ids /\ replay[i] # Absent /\ replay[i] \in State
BY DEF IInv, Shaped, TypeOK, Present, Views, Absent, State, States

-----------------------------------------------------------------------------
(* Versions.                                                                *)

LEMMA VersionStep ==
  ASSUME IInv, VersionsOrderSlot, Logged, IInv'
  PROVE  VersionsOrderSlot'
<1>. DEFINE c == Head(todo)
<1>0. /\ replay \in Views /\ versions \in [Slots -> Nat]
      /\ replay' \in Views /\ versions' \in [Slots -> Nat]
  BY DEF IInv, Shaped, TypeOK
<1>1. SUFFICES ASSUME NEW i \in Present(replay'), NEW j \in Present(replay'),
                      replay'[i].slot = replay'[j].slot
               PROVE  /\ replay'[i].version <= versions'[replay'[i].slot]
                      /\ i # j => replay'[i].version # replay'[j].version
  BY DEF VersionsOrderSlot
<1>2. /\ i \in Ids /\ j \in Ids
      /\ replay'[i] # Absent /\ replay'[j] # Absent
      /\ replay'[i] \in State /\ replay'[j] \in State
  BY <1>0 DEF Present, Views, Absent
<1>3. \A k \in Ids \ {c.id} : replay'[k] = replay[k]
  BY <1>0, EventEffect DEF Views
<1>4. replay'[c.id] = ReplayEvent(c) /\ c.id \in Ids
  BY <1>0, EventEffect DEF Views
<1>5. \A k, l \in Ids : replay[k] # Absent /\ replay[l] # Absent /\ replay[k].slot = replay[l].slot =>
        /\ replay[k] \in State /\ replay[k].version <= versions[replay[k].slot]
        /\ k # l => replay[k].version # replay[l].version
  BY <1>0 DEF VersionsOrderSlot, Present, Views, Absent, State, States
<1>6. CASE c \in CreateCall
  <2>1. /\ ReplayEvent(c).slot = c.slot /\ ReplayEvent(c).version = versions[c.slot] + 1
        /\ versions' = [versions EXCEPT ![c.slot] = @ + 1] /\ c.slot \in Slots
    BY <1>6, EventEffect DEF CreateCall, DeleteCall, MoveCall, NoteCall, MarkCall
  <2>2. \A k \in Ids : replay[k] # Absent =>
          /\ replay[k].slot \in Slots /\ replay[k].version \in Nat
          /\ replay[k].version <= versions[replay[k].slot]
    BY <1>5, <1>0 DEF State
  <2>3. \A s \in Slots : versions'[s] = IF s = c.slot THEN versions[s] + 1 ELSE versions[s]
    BY <1>0, <2>1
  <2>. HIDE DEF c
  <2>4. \A k \in Ids \ {c.id} : replay'[k] # Absent =>
          replay'[k].version <= versions[replay'[k].slot] /\ replay'[k].slot \in Slots
    BY <1>3, <2>2
  <2>5. replay'[c.id].slot = c.slot /\ replay'[c.id].version = versions[c.slot] + 1
    BY <1>4, <2>1
  <2>6. \A s \in Slots : versions[s] \in Nat
    BY <1>0
  <2>7. \A k \in Ids \ {c.id} : replay'[k] # Absent => replay'[k].version \in Nat
    BY <1>3, <2>2
  <2>8. replay'[i].version <= versions'[replay'[i].slot]
    BY <1>2, <2>1, <2>3, <2>4, <2>5, <2>6, <2>7
  <2>9. i # j => replay'[i].version # replay'[j].version
    <3>1. CASE i # c.id /\ j # c.id
      BY <1>1, <1>2, <1>3, <1>5, <3>1
    <3>2. CASE i = c.id \/ j = c.id
      BY <1>1, <1>2, <2>1, <2>4, <2>5, <2>6, <2>7, <3>2
    <3>. QED
      BY <3>1, <3>2
  <2>. QED
    BY <2>8, <2>9
<1>7. CASE c \notin CreateCall
  <2>1. versions' = versions
    BY <1>7, EventEffect
  <2>2. \A k \in Ids : replay'[k] # Absent =>
          /\ replay[k] # Absent
          /\ replay'[k].slot = replay[k].slot /\ replay'[k].version = replay[k].version
    <3>1. \/ ReplayEvent(c) = Absent
          \/ replay[c.id] # Absent /\ ReplayEvent(c) = After(c, replay[c.id])
      BY <1>7, EventEffect
    <3>. HIDE DEF c
    <3>. QED
      BY <1>3, <1>4, <3>1, AfterKeeps
  <2>. HIDE DEF c
  <2>. QED
    BY <1>1, <1>2, <1>5, <2>1, <2>2
<1>. QED
  BY <1>6, <1>7

(* Whatever is deleted, crashes or fails, and whatever identities callers   *)
(* name: no two artifacts of a slot that the log still holds have the same  *)
(* version, because the version is counted in the log (lifecycle.py:858).   *)
THEOREM VersionsAreOrdered == Spec => []VersionsOrderSlot
<1>1. Init => VersionsOrderSlot
  BY DEF Init, VersionsOrderSlot, Present, NoView, Absent
<1>2. IInv /\ VersionsOrderSlot /\ [Next]_vars => VersionsOrderSlot'
  <2>1. ASSUME IInv, VersionsOrderSlot, UNCHANGED logVars
        PROVE  VersionsOrderSlot'
    BY <2>1 DEF logVars, VersionsOrderSlot
  <2>. QED
    BY <2>1, StepKinds, VersionStep, NextPreserves
<1>. QED
  BY <1>1, <1>2, InitHolds, NextPreserves, PTL DEF Spec

-----------------------------------------------------------------------------
(* What the operations queue.                                               *)

New(c) ==
  /\ c \in CreateCall /\ created < MaxCreated
  /\ c.type \in SlotTypes[c.slot]
  /\ c.id = NewId(c.type) \/ c.id \in ExplicitIds \ named

(* Calls that neither register, activate nor supersede; the second pass of  *)
(* gc() comes last.                                                         *)
PlainMove == {c \in MoveCall : c.to \notin {"ACTIVE", "SUPERSEDED"}}
Plain(q) ==
  /\ q \in Seq(PlainMove \cup NoteCall \cup MarkCall \cup CollectCall)
  /\ \A k \in 1 .. Len(q) : q[k] \in CollectCall => k = Len(q)

Promotes(q) ==
  \E i \in Present(view) :
    \/ /\ q = <<Move(i, "ACTIVE")>>
       /\ view[i].type \in SingleActiveTypes => Actives(view[i].slot, {view[i].type}) = {}
    \/ \E cur \in Actives(view[i].slot, {view[i].type}) \ {i} :
         q = <<Supersession(cur, i), Move(i, "ACTIVE")>>
    \/ \E j \in Present(view) : q = <<Supersession(j, i)>>

Derives(q) ==
  \E c \in CreateCall, v \in PlainMove :
    LET up_ == Move(c.id, "ACTIVE") IN
    /\ New(c) /\ v.id = c.id
    /\ \/ q = <<c>>
       \/ q = <<c, v>>
       \/ q = <<c, v, up_>> /\ Actives(c.slot, Types) = {}
       \/ \E cur \in Actives(c.slot, Types) :
            \/ q = <<c, v, Supersession(cur, c.id), up_>> /\ view[cur].type = c.type
            \/ q = <<c, v, Move(cur, "QUARANTINED"), up_>> /\ view[cur].type # c.type
       \/ \E i \in Ids : q = <<c, v, Supersession(i, c.id)>>
       \/ \E i, j \in Ids : q = <<c, v, Supersession(i, c.id), Supersession(j, c.id)>>

LEMMA NoIdIsNone == NoId \notin Ids
BY ConstantsAssumption DEF ConstantsAssumption, Ids, AutoIds

LEMMA SlotHolder ==
  ASSUME NEW s, NEW T, NEW cur \in ActiveInSlot(s, T)
  PROVE  IF cur = NoId THEN Actives(s, T) = {} ELSE cur \in Actives(s, T)
BY NoIdIsNone DEF ActiveInSlot, Actives, In

LEMMA VerdictPlain ==
  ASSUME NEW i \in Ids, NEW p
  PROVE  Verdict(i, p) \in PlainMove /\ Verdict(i, p).id = i
BY DEF Verdict, Move, PlainMove, MoveCall, States

LEMMA PlainSingle ==
  ASSUME NEW c \in PlainMove \cup NoteCall \cup MarkCall
  PROVE  Plain(<<c>>)
BY DEF Plain

(* Concatenations of short queues.                                          *)
LEMMA OneAndOne ==
  ASSUME NEW a, NEW b
  PROVE  <<a>> \o <<b>> = <<a, b>>
<1>. DEFINE S == {a, b}
            head == <<a>>
            tail == <<b>>
            all == <<a, b>>
<1>1. /\ head \in Seq(S) /\ tail \in Seq(S) /\ all \in Seq(S)
      /\ Len(head) = 1 /\ Len(tail) = 1 /\ Len(all) = 2
      /\ \A k \in 1 .. 2 : all[k] = IF k <= 1 THEN head[k] ELSE tail[k - 1]
  OBVIOUS
<1>. HIDE DEF S, head, tail, all
<1>a. /\ head \o tail \in Seq(S) /\ Len(head \o tail) = Len(head) + Len(tail)
      /\ \A k \in 1 .. Len(head) + Len(tail) :
           (head \o tail)[k] = IF k <= Len(head) THEN head[k] ELSE tail[k - Len(head)]
  BY <1>1, ConcatProperties
<1>2. /\ head \o tail \in Seq(S) /\ Len(head \o tail) = 2
      /\ \A k \in 1 .. 2 :
           (head \o tail)[k] = IF k <= 1 THEN head[k] ELSE tail[k - 1]
  BY <1>1, <1>a
<1>3. head \o tail = all
  BY <1>1, <1>2, SeqEqual
<1>. QED
  BY <1>3 DEF head, tail, all

LEMMA TwoAndOne ==
  ASSUME NEW a, NEW b, NEW c
  PROVE  <<a, b>> \o <<c>> = <<a, b, c>>
<1>. DEFINE S == {a, b, c}
            head == <<a, b>>
            tail == <<c>>
            all == <<a, b, c>>
<1>1. /\ head \in Seq(S) /\ tail \in Seq(S) /\ all \in Seq(S)
      /\ Len(head) = 2 /\ Len(tail) = 1 /\ Len(all) = 3
      /\ \A k \in 1 .. 3 : all[k] = IF k <= 2 THEN head[k] ELSE tail[k - 2]
  OBVIOUS
<1>. HIDE DEF S, head, tail, all
<1>a. /\ head \o tail \in Seq(S) /\ Len(head \o tail) = Len(head) + Len(tail)
      /\ \A k \in 1 .. Len(head) + Len(tail) :
           (head \o tail)[k] = IF k <= Len(head) THEN head[k] ELSE tail[k - Len(head)]
  BY <1>1, ConcatProperties
<1>2. /\ head \o tail \in Seq(S) /\ Len(head \o tail) = 3
      /\ \A k \in 1 .. 3 :
           (head \o tail)[k] = IF k <= 2 THEN head[k] ELSE tail[k - 2]
  BY <1>1, <1>a
<1>3. head \o tail = all
  BY <1>1, <1>2, SeqEqual
<1>. QED
  BY <1>3 DEF head, tail, all

LEMMA TwoAndTwo ==
  ASSUME NEW a, NEW b, NEW c, NEW d
  PROVE  <<a, b>> \o <<c, d>> = <<a, b, c, d>>
<1>. DEFINE S == {a, b, c, d}
            head == <<a, b>>
            tail == <<c, d>>
            all == <<a, b, c, d>>
<1>1. /\ head \in Seq(S) /\ tail \in Seq(S) /\ all \in Seq(S)
      /\ Len(head) = 2 /\ Len(tail) = 2 /\ Len(all) = 4
      /\ \A k \in 1 .. 4 : all[k] = IF k <= 2 THEN head[k] ELSE tail[k - 2]
  OBVIOUS
<1>. HIDE DEF S, head, tail, all
<1>a. /\ head \o tail \in Seq(S) /\ Len(head \o tail) = Len(head) + Len(tail)
      /\ \A k \in 1 .. Len(head) + Len(tail) :
           (head \o tail)[k] = IF k <= Len(head) THEN head[k] ELSE tail[k - Len(head)]
  BY <1>1, ConcatProperties
<1>2. /\ head \o tail \in Seq(S) /\ Len(head \o tail) = 4
      /\ \A k \in 1 .. 4 :
           (head \o tail)[k] = IF k <= 2 THEN head[k] ELSE tail[k - 2]
  BY <1>1, <1>a
<1>3. head \o tail = all
  BY <1>1, <1>2, SeqEqual
<1>. QED
  BY <1>3 DEF head, tail, all

LEMMA DeriveForms ==
  ASSUME NEW new, NEW t, NEW s, NEW p, NEW rest
  PROVE  LET c == Create(new, t, s, p)
             v == Verdict(new, p)
         IN /\ rest = <<>> => Derive(new, t, s, p, rest) = <<c, v>>
            /\ \A a : rest = <<a>> => Derive(new, t, s, p, rest) \in {<<c, v>>, <<c, v, a>>}
            /\ \A a, b : rest = <<a, b>> =>
                 Derive(new, t, s, p, rest) \in {<<c, v>>, <<c, v, a, b>>}
<1>. DEFINE c == Create(new, t, s, p)
            v == Verdict(new, p)
<1>1. Derive(new, t, s, p, rest) = <<c, v>> \o (IF p \in Good THEN rest ELSE <<>>)
  BY Zenon DEF Derive
<1>. HIDE DEF c, v
<1>2. <<c, v>> \o <<>> = <<c, v>>
  OBVIOUS
<1>3. /\ \A a : <<c, v>> \o <<a>> = <<c, v, a>>
      /\ \A a, b : <<c, v>> \o <<a, b>> = <<c, v, a, b>>
  BY TwoAndOne, TwoAndTwo
<1>4. /\ rest = <<>> => Derive(new, t, s, p, rest) = <<c, v>>
      /\ \A a : rest = <<a>> => Derive(new, t, s, p, rest) \in {<<c, v>>, <<c, v, a>>}
      /\ \A a, b : rest = <<a, b>> =>
           Derive(new, t, s, p, rest) \in {<<c, v>>, <<c, v, a, b>>}
  BY <1>1, <1>2, <1>3, Zenon
<1>. QED
  BY <1>4 DEF c, v

LEMMA NewCall ==
  ASSUME TypeOK, NEW t \in Types, NEW s \in Slots, NEW p \in Payloads, CanCreate(t, s)
  PROVE  /\ New(Create(NewId(t), t, s, p)) /\ NewId(t) \in Ids
         /\ Create(NewId(t), t, s, p) \in CreateCall
         /\ Create(NewId(t), t, s, p).slot = s /\ Create(NewId(t), t, s, p).type = t
         /\ Create(NewId(t), t, s, p).id = NewId(t)
<1>1. created < MaxCreated /\ t \in SlotTypes[s]
  BY DEF CanCreate
<1>2. NewId(t) \in Ids
  BY <1>1, NewIdType
<1>. DEFINE c == Create(NewId(t), t, s, p)
<1>3. c \in CreateCall
  BY <1>2, CallTypes
<1>4. c.slot = s /\ c.type = t /\ c.id = NewId(t)
  BY DEF Create
<1>. HIDE DEF c
<1>5. New(c)
  BY <1>1, <1>3, <1>4 DEF New
<1>. QED
  BY <1>2, <1>3, <1>4, <1>5 DEF c

LEMMA AuthoringPlans ==
  ASSUME TypeOK, Authoring
  PROVE  Derives(todo')
<1>1. PICK s \in Slots, t \in Types, p \in Payloads :
        \/ RegisterCandidate(t, s, p)
        \/ \E i \in ExplicitIds : RegisterCandidateAs(i, t, s, p)
        \/ SyncActive(t, s, p)
  BY DEF Authoring
<1>. DEFINE new == NewId(t)
            c == Create(new, t, s, p)
            v == Verdict(new, p)
<1>2. CASE RegisterCandidate(t, s, p)
  <2>1. New(c) /\ c \in CreateCall /\ c.id = new /\ new \in Ids /\ todo' = <<c>>
    BY <1>2, NewCall DEF RegisterCandidate, Start
  <2>2. v \in PlainMove /\ v.id = new
    BY <2>1, VerdictPlain
  <2>. HIDE DEF c, v, new
  <2>. QED
    BY <2>1, <2>2 DEF Derives
<1>3. ASSUME NEW i \in ExplicitIds, RegisterCandidateAs(i, t, s, p)
      PROVE  Derives(todo')
  <2>. DEFINE d == Create(i, t, s, p)
              w == Verdict(i, p)
  <2>1. i \in Ids /\ i \notin named /\ CanCreate(t, s) /\ todo' = <<d>>
    BY <1>3 DEF RegisterCandidateAs, Start, Ids
  <2>2. d \in CreateCall /\ d.id = i /\ d.type = t /\ d.slot = s /\ w \in PlainMove /\ w.id = i
    BY <2>1, CallTypes, VerdictPlain DEF Create
  <2>. HIDE DEF d, w
  <2>3. New(d)
    BY <2>1, <2>2 DEF New, CanCreate
  <2>. QED
    BY <2>1, <2>2, <2>3 DEF Derives
<1>4. CASE SyncActive(t, s, p)
  <2>. DEFINE rest(cur) == (IF cur = NoId THEN <<>>
                            ELSE IF view[cur].type = t THEN <<Supersession(cur, new)>>
                            ELSE <<Move(cur, "QUARANTINED")>>) \o <<Move(new, "ACTIVE")>>
  <2>1. PICK cur \in ActiveInSlot(s, Types) : todo' = Derive(new, t, s, p, rest(cur))
    BY <1>4 DEF SyncActive, Start
  <2>2. /\ New(c) /\ c \in CreateCall /\ c.id = new /\ new \in Ids
        /\ c.slot = s /\ c.type = t
    BY <1>4, NewCall DEF SyncActive
  <2>3. v \in PlainMove /\ v.id = new
    BY <2>2, VerdictPlain
  <2>4. CASE cur = NoId
    <3>1. Actives(s, Types) = {}
      BY <2>4, SlotHolder
    <3>2. rest(cur) = <<Move(new, "ACTIVE")>>
      BY <2>4
    <3>. HIDE DEF rest
    <3>3. todo' \in {<<c, v>>, <<c, v, Move(new, "ACTIVE")>>}
      BY <2>1, <3>2, DeriveForms
    <3>. HIDE DEF c, v, new
    <3>. QED
      BY <2>2, <2>3, <3>1, <3>3 DEF Derives
  <2>5. CASE cur # NoId /\ view[cur].type = t
    <3>1. cur \in Actives(s, Types)
      BY <2>5, SlotHolder
    <3>2. rest(cur) = <<Supersession(cur, new), Move(new, "ACTIVE")>>
      BY <2>5, OneAndOne
    <3>. HIDE DEF rest
    <3>3. todo' \in {<<c, v>>, <<c, v, Supersession(cur, new), Move(new, "ACTIVE")>>}
      BY <2>1, <3>2, DeriveForms
    <3>. HIDE DEF c, v, new
    <3>. QED
      BY <2>2, <2>3, <2>5, <3>1, <3>3 DEF Derives
  <2>6. CASE cur # NoId /\ view[cur].type # t
    <3>1. cur \in Actives(s, Types)
      BY <2>6, SlotHolder
    <3>2. rest(cur) = <<Move(cur, "QUARANTINED"), Move(new, "ACTIVE")>>
      BY <2>6, OneAndOne
    <3>. HIDE DEF rest
    <3>3. todo' \in {<<c, v>>, <<c, v, Move(cur, "QUARANTINED"), Move(new, "ACTIVE")>>}
      BY <2>1, <3>2, DeriveForms
    <3>. HIDE DEF c, v, new
    <3>. QED
      BY <2>2, <2>3, <2>6, <3>1, <3>3 DEF Derives
  <2>. QED
    BY <2>4, <2>5, <2>6
<1>. QED
  BY <1>1, <1>2, <1>3, <1>4

LEMMA MergePlans ==
  ASSUME TypeOK, NEW i \in Present(view), NEW j \in Present(view), NEW p \in Payloads,
         Merge(i, j, p)
  PROVE  Derives(todo')
<1>. DEFINE t == view[i].type
            s == view[i].slot
            new == NewId(t)
            c == Create(new, t, s, p)
            v == Verdict(new, p)
            rest == (IF view[i].lc = "ACTIVE" THEN <<Supersession(i, new)>> ELSE <<>>) \o
                    (IF view[j].lc = "ACTIVE" /\ i # j THEN <<Supersession(j, new)>> ELSE <<>>)
<1>1. i \in Ids /\ j \in Ids /\ t \in Types /\ s \in Slots
  BY PresentState DEF State
<1>2. CanCreate(t, s) /\ todo' = Derive(new, t, s, p, rest)
  BY DEF Merge, Start
<1>. HIDE DEF t, s
<1>3. New(c) /\ c \in CreateCall /\ c.id = new /\ new \in Ids
  BY <1>1, <1>2, NewCall
<1>4. v \in PlainMove /\ v.id = new
  BY <1>3, VerdictPlain
<1>. HIDE DEF new
<1>5. \/ rest = <<>>
      \/ \E k \in Ids : rest = <<Supersession(k, new)>>
      \/ \E k, l \in Ids : rest = <<Supersession(k, new), Supersession(l, new)>>
  <2>. DEFINE a == Supersession(i, new)
              b == Supersession(j, new)
  <2>1. <<a>> \o <<b>> = <<a, b>> /\ <<a>> \o <<>> = <<a>> /\ <<>> \o <<b>> = <<b>> /\ <<>> \o <<>> = <<>>
    BY OneAndOne
  <2>2. rest \in {<<>>, <<a>>, <<b>>, <<a, b>>}
    BY <2>1, Zenon DEF rest
  <2>. HIDE DEF rest
  <2>. QED
    BY <1>1, <2>2
<1>. HIDE DEF rest
<1>6. \/ todo' = <<c, v>>
      \/ \E k \in Ids : todo' = <<c, v, Supersession(k, new)>>
      \/ \E k, l \in Ids : todo' = <<c, v, Supersession(k, new), Supersession(l, new)>>
  BY <1>2, <1>5, DeriveForms
<1>. HIDE DEF c, v
<1>. QED
  BY <1>3, <1>4, <1>6 DEF Derives

LEMMA RollbackPlans ==
  ASSUME TypeOK, NEW i \in Present(view), Rollback(i)
  PROVE  Derives(todo')
<1>. DEFINE t == view[i].type
            s == view[i].slot
            p == view[i].payload
            new == NewId(t)
            c == Create(new, t, s, p)
            v == Verdict(new, p)
            rest(cur) == IF cur = NoId THEN <<Move(new, "ACTIVE")>>
                         ELSE IF view[cur].type # t THEN <<>>
                         ELSE <<Supersession(cur, new), Move(new, "ACTIVE")>>
<1>1. t \in Types /\ s \in Slots /\ p \in Payloads
  BY PresentState DEF State
<1>2. PICK cur \in ActiveInSlot(s, Types) : todo' = Derive(new, t, s, p, rest(cur))
  BY DEF Rollback, Start
<1>3. CanCreate(t, s)
  BY DEF Rollback
<1>. HIDE DEF t, s, p
<1>4. New(c) /\ c \in CreateCall /\ c.id = new /\ new \in Ids /\ c.slot = s /\ c.type = t
  BY <1>1, <1>3, NewCall
<1>5. v \in PlainMove /\ v.id = new
  BY <1>4, VerdictPlain
<1>6. CASE cur = NoId
  <2>1. Actives(s, Types) = {} /\ rest(cur) = <<Move(new, "ACTIVE")>>
    BY <1>6, SlotHolder
  <2>. HIDE DEF rest
  <2>2. todo' \in {<<c, v>>, <<c, v, Move(new, "ACTIVE")>>}
    BY <1>2, <2>1, DeriveForms
  <2>. HIDE DEF c, v, new
  <2>. QED
    BY <1>4, <1>5, <2>1, <2>2 DEF Derives
<1>7. CASE cur # NoId /\ view[cur].type # t
  <2>1. rest(cur) = <<>>
    BY <1>7
  <2>. HIDE DEF rest
  <2>2. todo' = <<c, v>>
    BY <1>2, <2>1, DeriveForms
  <2>. HIDE DEF c, v, new
  <2>. QED
    BY <1>4, <1>5, <2>2 DEF Derives
<1>8. CASE cur # NoId /\ view[cur].type = t
  <2>1. /\ cur \in Actives(s, Types)
        /\ rest(cur) = <<Supersession(cur, new), Move(new, "ACTIVE")>>
    BY <1>8, SlotHolder
  <2>. HIDE DEF rest
  <2>2. todo' \in {<<c, v>>, <<c, v, Supersession(cur, new), Move(new, "ACTIVE")>>}
    BY <1>2, <2>1, DeriveForms
  <2>. HIDE DEF c, v, new
  <2>. QED
    BY <1>4, <1>5, <1>8, <2>1, <2>2 DEF Derives
<1>. QED
  BY <1>6, <1>7, <1>8

LEMMA PlainMoves ==
  ASSUME NEW i \in Ids, NEW to \in States \ {"ACTIVE", "SUPERSEDED"}
  PROVE  Move(i, to) \in PlainMove
BY DEF Move, PlainMove, MoveCall

LEMMA MovePlans ==
  ASSUME TypeOK, NEW i \in Present(view),
         \/ Validate(i) \/ MarkStale(i) \/ Archive(i) \/ Quarantine(i) \/ Reject(i)
         \/ Restore(i) \/ VerifyIntegrity(i) \/ Retire(i)
  PROVE  Plain(todo')
<1>1. i \in Ids
  BY PresentState
<1>2. \A to \in States \ {"ACTIVE", "SUPERSEDED"} : Move(i, to) \in PlainMove
  BY <1>1, PlainMoves
<1>3. \A to \in States \ {"ACTIVE", "SUPERSEDED"} : Plain(<<Move(i, to)>>)
  BY <1>2, PlainSingle
<1>4. Plain(<<Verdict(i, view[i].payload)>>)
  BY <1>1, VerdictPlain, PlainSingle
<1>5. CASE Validate(i)
  BY <1>4, <1>5 DEF Validate, Start
<1>6. CASE Retire(i)
  <2>1. /\ Move(i, "STALE") \in PlainMove /\ Move(i, "ARCHIVED") \in PlainMove
        /\ Move(i, "STALE") \notin CollectCall /\ Move(i, "ARCHIVED") \notin CollectCall
    BY <1>2 DEF States, Move, CollectCall
  <2>2. Plain(<<Move(i, "STALE"), Move(i, "ARCHIVED")>>)
    BY <2>1 DEF Plain
  <2>. QED
    BY <1>3, <1>6, <2>2 DEF Retire, Start, States
<1>7. CASE \/ MarkStale(i) \/ Archive(i) \/ Quarantine(i) \/ Reject(i)
           \/ Restore(i) \/ VerifyIntegrity(i)
  <2>1. todo' \in {<<Move(i, to)>> : to \in {"STALE", "ARCHIVED", "QUARANTINED", "REJECTED", "VALIDATED"}}
    BY <1>7 DEF MarkStale, Archive, Quarantine, Reject, Restore, VerifyIntegrity, Start
  <2>. QED
    BY <1>3, <2>1 DEF States
<1>. QED
  BY <1>5, <1>6, <1>7

LEMMA PromotionPlans ==
  ASSUME TypeOK, NEW i \in Present(view),
         Activate(i) \/ PromoteReplacement(i) \/ \E j \in Present(view) : Supersede(i, j)
  PROVE  Promotes(todo')
<1>1. CASE Activate(i)
  BY <1>1 DEF Activate, Start, Promotes
<1>2. CASE PromoteReplacement(i)
  <2>1. PICK cur \in ActiveInSlot(view[i].slot, {view[i].type}) \ {i} :
          todo' = (IF cur = NoId THEN <<>> ELSE <<Supersession(cur, i)>>) \o <<Move(i, "ACTIVE")>>
    BY <1>2 DEF PromoteReplacement, Start
  <2>2. CASE cur = NoId
    <3>1. Actives(view[i].slot, {view[i].type}) = {}
      BY <2>2, SlotHolder
    <3>2. todo' = <<Move(i, "ACTIVE")>>
      BY <2>1, <2>2
    <3>. QED
      BY <3>1, <3>2 DEF Promotes
  <2>3. CASE cur # NoId
    <3>1. cur \in Actives(view[i].slot, {view[i].type}) \ {i}
      BY <2>3, SlotHolder
    <3>2. todo' = <<Supersession(cur, i), Move(i, "ACTIVE")>>
      BY <2>1, <2>3, OneAndOne
    <3>. QED
      BY <3>1, <3>2 DEF Promotes
  <2>. QED
    BY <2>2, <2>3
<1>3. CASE \E j \in Present(view) : Supersede(i, j)
  BY <1>3 DEF Supersede, Start, Promotes
<1>. QED
  BY <1>1, <1>2, <1>3

LEMMA MarkPlans ==
  ASSUME TypeOK, Marks
  PROVE  Plain(todo')
<1>1. PICK i \in Present(view) :
        \/ RecordUse(i) \/ Pin(i) \/ Unpin(i)
        \/ \E p \in Payloads : Annotate(i, p)
  BY DEF Marks
<1>2. i \in Ids
  BY PresentState
<1>3. PICK c \in NoteCall \cup MarkCall : todo' = <<c>>
  BY <1>1, <1>2 DEF RecordUse, Pin, Unpin, Annotate, Start, Mark, MarkCall, NoteCall
<1>. QED
  BY <1>3, PlainSingle

LEMMA PlainQueue ==
  ASSUME NEW q \in Seq(PlainMove)
  PROVE  Plain(q) /\ Plain(q \o <<[kind |-> "collect"]>>)
<1>. DEFINE S == PlainMove \cup NoteCall \cup MarkCall \cup CollectCall
            c == [kind |-> "collect"]
<1>1. q \in Seq(S) /\ \A k \in 1 .. Len(q) : q[k] \in PlainMove
  BY SeqMonotonic, ElementOfSeq
<1>2. \A m \in PlainMove : m \notin CollectCall
  BY DEF PlainMove, MoveCall, CollectCall
<1>3. c \in S /\ <<c>> \in Seq(S) /\ Len(<<c>>) = 1 /\ Len(q) \in Nat
  BY LenProperties DEF CollectCall
<1>4. Plain(q)
  BY <1>1, <1>2 DEF Plain
<1>. HIDE DEF c, S
<1>5. /\ q \o <<c>> \in Seq(S) /\ Len(q \o <<c>>) = Len(q) + 1
      /\ \A k \in 1 .. Len(q) + 1 :
           (q \o <<c>>)[k] = IF k <= Len(q) THEN q[k] ELSE <<c>>[k - Len(q)]
  BY <1>1, <1>3, ConcatProperties
<1>6. \A k \in 1 .. Len(q) + 1 : (q \o <<c>>)[k] \in CollectCall => k = Len(q) + 1
  BY <1>1, <1>2, <1>3, <1>5
<1>7. Plain(q \o <<c>>)
  BY <1>5, <1>6 DEF Plain, S
<1>. QED
  BY <1>4, <1>7 DEF c

LEMMA PolicyPlans ==
  ASSUME DetectStale \/ GC
  PROVE  Plain(todo')
<1>1. /\ SetToSeq(Forgotten) \in Seq(Ids)
      /\ SetToSeq(PastGrace) \in Seq(Ids)
  BY SetToSeqInSeq, SeqMonotonic DEF Forgotten, PastGrace, In
<1>2. \A i \in Ids : ToStale(i) \in PlainMove /\ ToArchive(i) \in PlainMove
  BY PlainMoves DEF ToStale, ToArchive, States
<1>3. ForEach(Forgotten, ToStale) \in Seq(PlainMove)
  BY <1>1, <1>2, ElementOfSeq, LenProperties DEF ForEach
<1>4. ForEach(PastGrace, ToArchive) \in Seq(PlainMove)
  BY <1>1, <1>2, ElementOfSeq, LenProperties DEF ForEach
<1>. QED
  BY <1>3, <1>4, PlainQueue DEF DetectStale, GC, Start

(* Every operation queues one of the three.                                 *)
LEMMA OperationPlans ==
  ASSUME TypeOK, Authoring \/ Moves \/ Marks \/ DetectStale \/ GC
  PROVE  Plain(todo') \/ Promotes(todo') \/ Derives(todo')
<1>1. CASE Moves
  <2>1. PICK i \in Present(view) :
          \/ Validate(i) \/ Activate(i) \/ PromoteReplacement(i)
          \/ MarkStale(i) \/ Archive(i) \/ Quarantine(i) \/ Reject(i)
          \/ Restore(i) \/ Retire(i) \/ Rollback(i) \/ VerifyIntegrity(i)
          \/ \E j \in Present(view) : Supersede(i, j) \/ \E p \in Payloads : Merge(i, j, p)
    BY <1>1 DEF Moves
  <2>. QED
    BY <2>1, MovePlans, PromotionPlans, MergePlans, RollbackPlans
<1>. QED
  BY <1>1, AuthoringPlans, MarkPlans, PolicyPlans

-----------------------------------------------------------------------------
(* The steps, as the view, the log and the queue see them.                  *)

Planned(q) == Plain(q) \/ Promotes(q) \/ Derives(q)

Begun == Start(todo') /\ Planned(todo')

Failed ==
  /\ UNCHANGED <<logVars, up, clock>> /\ todo # <<>> /\ todo' = <<>>
  /\ \/ view' = view
     \/ LET c == Head(todo) IN
        c.kind = "create" /\ "append" \in Faults /\ view' = [view EXCEPT ![c.id] = Fresh(c)]

Stopped == UNCHANGED logVars /\ ~up' /\ view' = NoView /\ todo' = <<>>
Opened == UNCHANGED logVars /\ up' /\ ~up /\ view' = replay /\ todo' = todo /\ clock' = clock
Rested == UNCHANGED <<logVars, up, view, todo>> /\ (clock' = clock \/ todo = <<>>)

LEMMA OtherSteps ==
  ASSUME IInv, Step \/ Environment \/ UNCHANGED vars
  PROVE  Logged \/ Failed \/ Stopped \/ Opened \/ Rested
<1>1. CASE Step
  <2>. DEFINE c == Head(todo)
  <2>1. todo # <<>> /\ (\/ Commit(c) \/ Raise(c) \/ AppendFails(c) \/ SaveFails(c)
                       \/ CrashAfterAppend(c) \/ CrashMidAppend(c))
    BY <1>1 DEF Step
  <2>2. CASE Commit(c) \/ SaveFails(c) \/ CrashAfterAppend(c)
    BY <2>1, <2>2 DEF Commit, SaveFails, CrashAfterAppend, Stops, Logged
  <2>3. CASE Raise(c)
    BY <2>1, <2>3 DEF Raise, Failed
  <2>4. CASE AppendFails(c)
    BY <2>1, <2>4 DEF AppendFails, Strike, Failed
  <2>5. CASE CrashMidAppend(c)
    BY <2>5 DEF CrashMidAppend, Stops, Stopped
  <2>. QED
    BY <2>1, <2>2, <2>3, <2>4, <2>5
<1>2. CASE Environment
  <2>1. CASE Crash
    BY <2>1 DEF Crash, Stops, Stopped
  <2>2. CASE Open
    BY <2>2 DEF Open, Opened
  <2>3. CASE LoseDisk \/ Tick \/ \E i \in Ids : EditDisk(i)
    BY <2>3 DEF LoseDisk, Tick, EditDisk, Rested
  <2>. QED
    BY <1>2, <2>1, <2>2, <2>3 DEF Environment
<1>3. CASE UNCHANGED vars
  BY <1>3 DEF vars, logVars, Rested
<1>. QED
  BY <1>1, <1>2, <1>3

LEMMA StepCases ==
  ASSUME IInv, [Next]_vars
  PROVE  Begun \/ Logged \/ Failed \/ Stopped \/ Opened \/ Rested \/ Collect
<1>1. CASE Authoring \/ Moves \/ Marks \/ DetectStale \/ GC
  <2>1. Planned(todo')
    BY <1>1, OperationPlans DEF IInv, Shaped, Planned
  <2>2. PICK q : Start(q)
    BY <1>1, OperationsStart DEF IInv, Shaped
  <2>3. Start(todo')
    BY <2>2 DEF Start
  <2>. QED
    BY <2>1, <2>3 DEF Begun
<1>2. CASE Step \/ Environment \/ UNCHANGED vars
  BY <1>2, OtherSteps
<1>. QED
  BY <1>1, <1>2 DEF Next, Maintenance

-----------------------------------------------------------------------------
(* Births.  What the log holds was created in it; a generated identity has  *)
(* a number within the count of creations; the creation about to be logged  *)
(* is of a new identity.                                                    *)

(* The identities callers name do not have the generated form: one that has  *)
(* it would be given out again by _auto_id.                                 *)
OwnIdentities == ExplicitIds \cap AutoIds = {}

HeadNew == todo # <<>> /\ Head(todo) \in CreateCall => New(Head(todo))

BirthInv ==
  /\ \A i \in Ids : replay[i] # Absent => i \in born
  /\ born \subseteq named
  /\ \A t \in Types, n \in 1 .. MaxCreated : <<t, n>> \in born => n <= created
  /\ HeadNew

LEMMA PlannedHead ==
  ASSUME NEW q, Planned(q), q # <<>>, Head(q) \in CreateCall
  PROVE  New(Head(q))
<1>1. CASE Plain(q)
  <2>1. q[1] \in PlainMove \cup NoteCall \cup MarkCall \cup CollectCall
    BY <1>1, EmptySeq, LenProperties, ElementOfSeq DEF Plain
  <2>2. Head(q) = q[1]
    BY <1>1 DEF Plain
  <2>. QED
    BY <2>1, <2>2 DEF PlainMove, MoveCall, NoteCall, MarkCall, CollectCall, CreateCall
<1>2. CASE Promotes(q)
  BY <1>2 DEF Promotes, Move, Supersession, CreateCall
<1>3. CASE Derives(q)
  <2>1. PICK c \in CreateCall : New(c) /\ Head(q) = c
    BY <1>3 DEF Derives
  <2>. QED
    BY <2>1
<1>. QED
  BY <1>1, <1>2, <1>3 DEF Planned

LEMMA NewIsUnborn ==
  ASSUME BirthInv, TypeOK, NEW c, New(c)
  PROVE  c.id \notin born
<1>1. CASE c.id = NewId(c.type)
  <2>1. c.type \in Types /\ created + 1 \in 1 .. MaxCreated /\ created \in Nat
    BY ConstantsAssumption DEF New, CreateCall, TypeOK, ConstantsAssumption
  <2>. QED
    BY <1>1, <2>1 DEF BirthInv, NewId
<1>2. CASE c.id \in ExplicitIds \ named
  BY <1>2 DEF BirthInv
<1>. QED
  BY <1>1, <1>2 DEF New

LEMMA BirthStep ==
  ASSUME OwnIdentities, IInv, BirthInv, [Next]_vars
  PROVE  BirthInv'
<1>1. CASE Begun
  <2>1. UNCHANGED <<created, replay, born, named>>
    BY <1>1 DEF Begun, Start, logVars
  <2>2. HeadNew'
    BY <1>1, <2>1, PlannedHead DEF Begun, HeadNew, New, NewId
  <2>. QED
    BY <2>1, <2>2 DEF BirthInv
<1>2. CASE Failed \/ Stopped \/ Opened \/ Rested
  <2>1. UNCHANGED <<created, replay, born, named>> /\ todo' \in {todo, <<>>}
    BY <1>2 DEF Failed, Stopped, Opened, Rested, logVars
  <2>. QED
    BY <2>1 DEF BirthInv, HeadNew, New, NewId
<1>3. CASE Collect
  <2>1. UNCHANGED <<created, replay, born, named>>
    BY <1>3 DEF Collect, logVars
  <2>2. todo' \in Seq(Queued)
    BY <1>3, HeadAndTail, ForEachDelete, ConcatProperties DEF Collect
  <2>3. HeadNew'
    BY <2>2, EmptySeq, ElementOfSeq, LenProperties
    DEF HeadNew, Queued, MoveCall, DeleteCall, CollectCall, CreateCall
  <2>. QED
    BY <2>1, <2>3 DEF BirthInv
<1>4. CASE Logged
  <2>. DEFINE c == Head(todo)
  <2>1. todo # <<>> /\ AppendEvent(c) /\ todo' \in {Tail(todo), <<>>}
    BY <1>4 DEF Logged
  <2>2. HeadNew'
    <3>1. todo' \in Seq(Queued)
      BY <2>1, HeadAndTail, EmptySeq
    <3>. QED
      BY <3>1, EmptySeq, ElementOfSeq, LenProperties
      DEF HeadNew, Queued, MoveCall, DeleteCall, CollectCall, CreateCall
  <2>3. named' = named \cup {c.id}
    BY <2>1 DEF AppendEvent
  <2>4. /\ c.id \in Ids /\ replay \in Views /\ created \in Nat
        /\ replay' = [replay EXCEPT ![c.id] = ReplayEvent(c)]
    BY <1>4, EventEffect DEF IInv, Shaped, TypeOK
  <2>5. CASE c \in CreateCall
    <3>1. born' = born \cup {c.id} /\ created' = created + 1
      BY <1>4, <2>5, EventEffect DEF CreateCall, MoveCall, NoteCall, MarkCall, DeleteCall
    <3>2. New(c)
      BY <2>1, <2>5 DEF BirthInv, HeadNew
    <3>3. ASSUME NEW t \in Types, NEW n \in 1 .. MaxCreated, <<t, n>> \in born'
          PROVE  n <= created'
      <4>1. CASE <<t, n>> \in born
        BY <2>4, <3>1, <4>1 DEF BirthInv
      <4>2. CASE <<t, n>> = c.id
        <5>1. c.id \notin ExplicitIds
          BY <4>2 DEF OwnIdentities, AutoIds
        <5>2. c.id = <<c.type, created + 1>>
          BY <3>2, <5>1 DEF New, NewId
        <5>. QED
          BY <2>4, <3>1, <4>2, <5>2
      <4>. QED
        BY <3>1, <3>3, <4>1, <4>2
    <3>4. \A i \in Ids : replay'[i] # Absent => i \in born'
      BY <2>4, <3>1 DEF BirthInv, Views
    <3>. QED
      BY <2>2, <2>3, <3>1, <3>3, <3>4 DEF BirthInv
  <2>6. CASE c \notin CreateCall
    <3>1. born' = born /\ created' = created
      BY <1>4, <2>6, EventEffect
    <3>2. replay[c.id] # Absent \/ ReplayEvent(c) = Absent
      BY <1>4, <2>6, EventEffect
    <3>3. \A i \in Ids : replay'[i] # Absent => i \in born
      BY <2>4, <3>2 DEF BirthInv, Views
    <3>. QED
      BY <2>2, <2>3, <3>1, <3>3 DEF BirthInv
  <2>. QED
    BY <2>5, <2>6
<1>. QED
  BY <1>1, <1>2, <1>3, <1>4, StepCases

LEMMA BirthInit == Init => BirthInv
BY DEF Init, BirthInv, HeadNew, NoView

(* A committed call leaves the view and the log with the same artifact.     *)
LEMMA AppliedAgrees ==
  ASSUME IInv, ViewAgreesOnBorn, Logged
  PROVE  \A i \in born' : Applied(Head(todo))[i] = replay'[i]
<1>. DEFINE c == Head(todo)
<1>0. /\ view \in Views /\ replay \in Views /\ born \subseteq Ids
      /\ versions \in [Slots -> Nat] /\ clock \in Nat
  BY DEF IInv, Shaped, TypeOK
<1>1. todo # <<>> /\ Committing(c) /\ up
  BY DEF Logged, Committing
<1>2. c.id \in Ids /\ replay' = [replay EXCEPT ![c.id] = ReplayEvent(c)]
  BY EventEffect
<1>3. c.id \in born' => Materialise(c) = ReplayEvent(c)
  <2>1. CASE c \in CreateCall
    BY <1>0, <2>1, CreatedAlike
  <2>2. CASE c \in DeleteCall
    BY <2>2 DEF DeleteCall, Materialise, ReplayEvent
  <2>3. CASE c \in MoveCall \cup NoteCall \cup MarkCall /\ view[c.id] # Absent /\ c.id \in born'
    <3>1. born' = born
      BY <2>3, EventEffect DEF CreateCall, MoveCall, NoteCall, MarkCall
    <3>2. view[c.id] = replay[c.id] /\ replay[c.id] \in State
      BY <1>0, <1>1, <1>2, <2>3, <3>1 DEF ViewAgreesOnBorn, Views
    <3>. QED
      BY <1>0, <2>3, <3>2, MaterialisedAs, ReplayedAs
  <2>. QED
    BY <1>1, <2>1, <2>2, <2>3, CommittedCall
<1>4. \A i \in born' \ {c.id} : i \in born
  BY EventEffect
<1>5. Applied(c) = [view EXCEPT ![c.id] = Materialise(c)]
  BY DEF Applied
<1>. HIDE DEF c
<1>6. \A i \in born' : Applied(c)[i] = replay'[i]
  BY <1>0, <1>1, <1>2, <1>3, <1>4, <1>5 DEF ViewAgreesOnBorn, Views
<1>. QED
  BY <1>6 DEF c

LEMMA AgreeStep ==
  ASSUME IInv, BirthInv, ViewAgreesOnBorn, [Next]_vars
  PROVE  ViewAgreesOnBorn'
<1>1. CASE Begun \/ Stopped \/ Opened \/ Rested \/ Collect
  BY <1>1 DEF Begun, Start, Stopped, Opened, Rested, Collect, logVars, ViewAgreesOnBorn
<1>2. CASE Failed
  <2>. DEFINE c == Head(todo)
  <2>1. UNCHANGED <<logVars, up>> /\ todo # <<>>
    BY <1>2 DEF Failed
  <2>2. CASE view' = view
    BY <2>1, <2>2 DEF logVars, ViewAgreesOnBorn
  <2>3. CASE c.kind = "create" /\ view' = [view EXCEPT ![c.id] = Fresh(c)]
    <3>1. c \in CreateCall
      BY <2>1, <2>3, HeadAndTail DEF Queued, MoveCall, DeleteCall, CollectCall, NoteCall, MarkCall
    <3>2. c.id \notin born
      BY <2>1, <3>1, NewIsUnborn DEF BirthInv, HeadNew, IInv, Shaped
    <3>3. view \in Views /\ born \subseteq Ids
      BY DEF IInv, Shaped, TypeOK
    <3>. HIDE DEF c
    <3>4. \A i \in born : view'[i] = view[i]
      BY <2>3, <3>2, <3>3 DEF Views
    <3>. QED
      BY <2>1, <3>4 DEF logVars, ViewAgreesOnBorn
  <2>. QED
    BY <1>2, <2>2, <2>3 DEF Failed
<1>3. CASE Logged
  <2>1. ~up' \/ view' = Applied(Head(todo))
    BY <1>3 DEF Logged
  <2>. QED
    BY <1>3, <2>1, AppliedAgrees DEF ViewAgreesOnBorn
<1>. QED
  BY <1>1, <1>2, <1>3, StepCases

(* Also where appends fail: about every artifact the log has created, the   *)
(* view of a running manager is the log's (lifecycle.py:277-280).           *)
THEOREM BornAsLogged ==
  ASSUME OwnIdentities
  PROVE  Spec => []ViewAgreesOnBorn
<1>1. Init => ViewAgreesOnBorn
  BY DEF Init, ViewAgreesOnBorn
<1>2. IInv /\ BirthInv /\ [Next]_vars => BirthInv'
  BY BirthStep
<1>3. IInv /\ BirthInv /\ ViewAgreesOnBorn /\ [Next]_vars => ViewAgreesOnBorn'
  BY AgreeStep
<1>. QED
  BY <1>1, <1>2, <1>3, InitHolds, NextPreserves, BirthInit, PTL DEF Spec

(* lifecycle.py:400-402: what the log holds under an identity keeps its     *)
(* type, its slot and its version.                                          *)
THEOREM IdentitiesStay ==
  ASSUME OwnIdentities
  PROVE  Spec => IdentityImmutable
<1>1. ASSUME IInv, BirthInv, [Next]_vars,
             NEW i \in Ids, replay[i] # Absent, replay'[i] # Absent
      PROVE  /\ replay'[i].version = replay[i].version
             /\ replay'[i].type = replay[i].type
             /\ replay'[i].slot = replay[i].slot
  <2>1. CASE UNCHANGED logVars
    BY <2>1 DEF logVars
  <2>2. CASE Logged
    <3>. DEFINE c == Head(todo)
    <3>1. c.id \in Ids /\ replay' = [replay EXCEPT ![c.id] = ReplayEvent(c)]
      BY <1>1, <2>2, EventEffect
    <3>a. replay \in Views
      BY <1>1 DEF IInv, Shaped, TypeOK
    <3>2. CASE i # c.id
      BY <1>1, <3>a, <3>1, <3>2 DEF Views
    <3>3. CASE i = c.id
      <4>1. i \in born
        BY <1>1 DEF BirthInv
      <4>2. c \notin CreateCall
        BY <1>1, <2>2, <3>3, <4>1, NewIsUnborn DEF BirthInv, HeadNew, Logged, IInv, Shaped
      <4>3. replay'[i] = ReplayEvent(c)
        BY <3>a, <3>1, <3>3 DEF Views
      <4>4. ReplayEvent(c) = After(c, replay[c.id])
        BY <1>1, <2>2, <4>2, <4>3, EventEffect
      <4>. HIDE DEF c
      <4>. QED
        BY <3>3, <4>3, <4>4, AfterKeeps
    <3>. QED
      BY <3>2, <3>3
  <2>. QED
    BY <1>1, <2>1, <2>2, StepKinds
<1>2. IInv /\ BirthInv /\ [Next]_vars => BirthInv'
  BY BirthStep
<1>3. IInv /\ BirthInv /\ [Next]_vars =>
        [\A i \in Ids : replay[i] # Absent /\ replay'[i] # Absent =>
           /\ replay'[i].version = replay[i].version
           /\ replay'[i].type = replay[i].type
           /\ replay'[i].slot = replay[i].slot]_vars
  BY <1>1
<1>. QED
  BY <1>2, <1>3, InitHolds, NextPreserves, BirthInit, PTL DEF Spec, IdentityImmutable

-----------------------------------------------------------------------------
(* The queue of gc(): the second pass is last, and then there are only      *)
(* deletions of artifacts that have rested, or that are gone already.       *)

GCInv ==
  /\ \A k \in 1 .. Len(todo) : todo[k] \in CollectCall => k = Len(todo)
  /\ \A k \in 1 .. Len(todo) : todo[k] \in DeleteCall =>
       /\ \A l \in 1 .. Len(todo) : todo[l] \in DeleteCall
       /\ view[todo[k].id] = Absent \/ todo[k].id \in PastRetention

(* What a commit does to the view.                                          *)
LEMMA ViewEffect ==
  ASSUME IInv, Logged, NEW c, c = Head(todo)
  PROVE  /\ Applied(c) = [view EXCEPT ![c.id] = Materialise(c)]
         /\ view' = IF up' THEN Applied(c) ELSE NoView
         /\ c.id \in Ids
         /\ \/ /\ c \in CreateCall
               /\ Materialise(c) \in State
               /\ Materialise(c).type = c.type /\ Materialise(c).slot = c.slot
               /\ Materialise(c).lc = "CANDIDATE"
            \/ c \in DeleteCall /\ Materialise(c) = Absent
            \/ /\ c \in MoveCall \cup NoteCall \cup MarkCall
               /\ view[c.id] \in State /\ view[c.id] # Absent
               /\ Materialise(c) = After(c, view[c.id])
<1>1. /\ todo # <<>> /\ Committing(c)
      /\ view' = IF up' THEN Applied(c) ELSE NoView
  BY DEF Logged, Committing
<1>2. view \in Views /\ versions \in [Slots -> Nat] /\ clock \in Nat
  BY DEF IInv, Shaped, TypeOK
<1>3. Applied(c) = [view EXCEPT ![c.id] = Materialise(c)]
  BY DEF Applied
<1>4. /\ c.id \in Ids
      /\ \/ c \in CreateCall
         \/ c \in MoveCall \cup NoteCall \cup MarkCall /\ view[c.id] # Absent
         \/ c \in DeleteCall
  BY <1>1, CommittedCall
<1>5. CASE c \in CreateCall
  <2>1. c.kind = "create"
    BY <1>5 DEF CreateCall
  <2>2. Materialise(c) \in State
    BY <1>2, <1>5, CreatedAlike
  <2>3. /\ Materialise(c).type = c.type /\ Materialise(c).slot = c.slot
        /\ Materialise(c).lc = "CANDIDATE"
    BY <2>1 DEF Materialise, Fresh
  <2>. QED
    BY <1>1, <1>3, <1>4, <1>5, <2>2, <2>3
<1>6. CASE c \in DeleteCall
  BY <1>1, <1>3, <1>4, <1>6 DEF DeleteCall, Materialise
<1>7. CASE c \in MoveCall \cup NoteCall \cup MarkCall /\ view[c.id] # Absent
  <2>1. view[c.id] \in State
    BY <1>2, <1>4, <1>7 DEF Views
  <2>. QED
    BY <1>1, <1>3, <1>4, <1>7, <2>1, MaterialisedAs
<1>. QED
  BY <1>4, <1>5, <1>6, <1>7

(* What is left of the queue.                                               *)
LEMMA QueueTail ==
  ASSUME IInv, todo # <<>>, todo' = Tail(todo)
  PROVE  /\ Len(todo) \in Nat \ {0} /\ Len(todo') = Len(todo) - 1
         /\ Head(todo) = todo[1]
         /\ \A k \in 1 .. Len(todo') : todo'[k] = todo[k + 1] /\ k + 1 \in 2 .. Len(todo)
<1>1. todo \in Seq(Call)
  BY DEF IInv, Shaped, QueueShape
<1>2. /\ Len(Tail(todo)) = Len(todo) - 1
      /\ \A k \in 1 .. Len(Tail(todo)) : Tail(todo)[k] = todo[k + 1]
  BY <1>1, HeadTailProperties
<1>3. Len(todo) \in Nat /\ Len(todo) # 0 /\ Head(todo) = todo[1]
  BY <1>1, EmptySeq, LenProperties
<1>. QED
  BY <1>2, <1>3

(* No operation begins with deletions.                                      *)
LEMMA PlannedDeletes ==
  ASSUME NEW q, Planned(q)
  PROVE  /\ \A k \in 1 .. Len(q) : q[k] \notin DeleteCall
         /\ \A k \in 1 .. Len(q) : q[k] \in CollectCall => k = Len(q)
<1>1. CASE Plain(q)
  <2>1. \A k \in 1 .. Len(q) : q[k] \in PlainMove \cup NoteCall \cup MarkCall \cup CollectCall
    BY <1>1, ElementOfSeq DEF Plain
  <2>. QED
    BY <1>1, <2>1 DEF Plain, PlainMove, MoveCall, NoteCall, MarkCall, CollectCall, DeleteCall
<1>2. CASE Promotes(q)
  <2>1. \A i, r, to : /\ Move(i, to) \notin DeleteCall \cup CollectCall
                      /\ Supersession(i, r) \notin DeleteCall \cup CollectCall
    BY DEF Move, Supersession, DeleteCall, CollectCall
  <2>2. \E a, b : /\ a \notin DeleteCall \cup CollectCall /\ b \notin DeleteCall \cup CollectCall
                  /\ q = <<a>> \/ q = <<a, b>>
    BY <1>2, <2>1 DEF Promotes
  <2>. QED
    BY <2>2
<1>3. CASE Derives(q)
  <2>. DEFINE Other == DeleteCall \cup CollectCall
  <2>1. \A i, r, to : Move(i, to) \notin Other /\ Supersession(i, r) \notin Other
    BY DEF Move, Supersession, DeleteCall, CollectCall
  <2>2. \A c \in CreateCall \cup PlainMove : c \notin Other
    BY DEF CreateCall, PlainMove, MoveCall, DeleteCall, CollectCall
  <2>. HIDE DEF Other
  <2>3. PICK c \in CreateCall, v \in PlainMove :
          \/ q = <<c>> \/ q = <<c, v>>
          \/ \E a : a \notin Other /\ q = <<c, v, a>>
          \/ \E a, b : a \notin Other /\ b \notin Other /\ q = <<c, v, a, b>>
    BY <1>3, <2>1 DEF Derives
  <2>4. c \notin Other /\ v \notin Other
    BY <2>2
  <2>5. \A k \in 1 .. Len(q) : q[k] \notin Other
    BY <2>3, <2>4
  <2>. QED
    BY <2>5 DEF Other
<1>. QED
  BY <1>1, <1>2, <1>3 DEF Planned

(* The second pass queues a deletion of every artifact that has rested.     *)
LEMMA CollectedDeletes ==
  ASSUME IInv, GCInv, Collect
  PROVE  \A k \in 1 .. Len(todo') : /\ todo'[k] \in DeleteCall /\ todo'[k] \notin CollectCall
                                    /\ todo'[k].id \in PastRetention
<1>1. /\ todo # <<>> /\ Head(todo).kind = "collect"
      /\ todo' = ForEach(PastRetention, ToDelete) \o Tail(todo)
      /\ UNCHANGED <<view, clock>>
  BY DEF Collect
<1>2. Head(todo) \in CollectCall
  BY <1>1, HeadAndTail DEF Queued, MoveCall, DeleteCall, CollectCall, CreateCall, NoteCall, MarkCall
<1>3. todo \in Seq(Call) /\ Head(todo) = todo[1] /\ 1 \in 1 .. Len(todo)
  BY <1>1, EmptySeq, LenProperties DEF IInv, Shaped, QueueShape
<1>4. Len(todo) = 1
  BY <1>2, <1>3 DEF GCInv
<1>5. Tail(todo) = <<>>
  <2>1. Tail(todo) \in Seq(Call) /\ Len(Tail(todo)) = Len(todo) - 1
    BY <1>1, <1>3, HeadTailProperties
  <2>2. Len(Tail(todo)) = 0
    BY <1>4, <2>1
  <2>. QED
    BY <2>1, <2>2, EmptySeq
<1>6. todo' = ForEach(PastRetention, ToDelete)
  <2>1. ForEach(PastRetention, ToDelete) \in Seq(Queued)
    BY ForEachDelete
  <2>. HIDE DEF ForEach
  <2>. QED
    BY <1>1, <1>5, <2>1, ConcatEmptySeq
<1>7. SetToSeq(PastRetention) \in Seq(PastRetention)
  BY SetToSeqInSeq DEF PastRetention, In
<1>8. \A k \in 1 .. Len(todo') : todo'[k] = ToDelete(SetToSeq(PastRetention)[k])
                                 /\ SetToSeq(PastRetention)[k] \in PastRetention
  BY <1>6, <1>7, ElementOfSeq, LenProperties DEF ForEach
<1>9. \A i \in PastRetention : /\ ToDelete(i) \in DeleteCall /\ ToDelete(i).id = i
                               /\ ToDelete(i) \notin CollectCall
  BY DEF PastRetention, In, ToDelete, Mark, DeleteCall, CollectCall
<1>10. \A k \in 1 .. Len(todo') : /\ todo'[k] \in DeleteCall /\ todo'[k] \notin CollectCall
                                  /\ todo'[k].id \in PastRetention
  BY <1>8, <1>9
<1>. QED
  BY <1>10

LEMMA GCStep ==
  ASSUME IInv, GCInv, [Next]_vars
  PROVE  GCInv'
<1>1. CASE Begun
  BY <1>1, PlannedDeletes DEF Begun, GCInv
<1>2. CASE Failed \/ Stopped
  BY <1>2, EmptySeq DEF Failed, Stopped, GCInv
<1>3. CASE Opened
  <2>1. todo = <<>> /\ todo' = <<>>
    BY <1>3 DEF Opened, IInv
  <2>. QED
    BY <2>1 DEF GCInv
<1>4. CASE Rested
  <2>1. todo' = todo /\ view' = view /\ (clock' = clock \/ todo = <<>>)
    BY <1>4 DEF Rested
  <2>2. CASE todo = <<>>
    BY <2>1, <2>2 DEF GCInv
  <2>3. CASE clock' = clock
    BY <2>1, <2>3 DEF GCInv, PastRetention, In
  <2>. QED
    BY <2>1, <2>2, <2>3
<1>5. CASE Collect
  <2>1. PastRetention' = PastRetention
    BY <1>5 DEF Collect, PastRetention, In
  <2>. QED
    BY <1>5, <2>1, CollectedDeletes DEF GCInv
<1>6. CASE Logged
  <2>. DEFINE c == Head(todo)
  <2>1. todo # <<>> /\ todo' \in {Tail(todo), <<>>} /\ clock' = clock
    BY <1>6 DEF Logged
  <2>2. CASE todo' = <<>>
    BY <2>2 DEF GCInv
  <2>3. CASE todo' = Tail(todo) /\ ~up'
    <3>1. view' = NoView
      BY <1>6, <2>3 DEF Logged, Committing
    <3>2. todo' = <<>>
      BY <2>3, NextPreserves DEF IInv
    <3>. QED
      BY <3>2 DEF GCInv
  <2>4. CASE todo' = Tail(todo) /\ up'
    <3>1. /\ Len(todo) \in Nat \ {0} /\ Len(todo') = Len(todo) - 1 /\ c = todo[1]
          /\ \A k \in 1 .. Len(todo') : todo'[k] = todo[k + 1] /\ k + 1 \in 2 .. Len(todo)
      BY <2>1, <2>4, QueueTail
    <3>2. c.id \in Ids /\ view' = [view EXCEPT ![c.id] = Materialise(c)] /\ view \in Views
      BY <1>6, <2>4, ViewEffect DEF IInv, Shaped, TypeOK
    <3>3. \A k \in 1 .. Len(todo') : todo'[k] \in CollectCall => k = Len(todo')
      BY <3>1 DEF GCInv
    <3>4. ASSUME NEW k \in 1 .. Len(todo'), todo'[k] \in DeleteCall
          PROVE  /\ \A l \in 1 .. Len(todo') : todo'[l] \in DeleteCall
                 /\ view'[todo'[k].id] = Absent \/ todo'[k].id \in PastRetention'
      <4>1. \A l \in 1 .. Len(todo) : todo[l] \in DeleteCall
        BY <3>1, <3>4 DEF GCInv
      <4>2. c \in DeleteCall /\ \A l \in 1 .. Len(todo') : todo'[l] \in DeleteCall
        BY <3>1, <4>1
      <4>3. Materialise(c) = Absent
        BY <4>2 DEF DeleteCall, Materialise
      <4>4. view[todo'[k].id] = Absent \/ todo'[k].id \in PastRetention
        BY <3>1, <3>4 DEF GCInv
      <4>5. todo'[k].id \in Ids
        BY <3>4 DEF DeleteCall
      <4>. HIDE DEF c
      <4>6. CASE todo'[k].id = c.id
        BY <3>2, <4>2, <4>3, <4>6 DEF Views
      <4>7. CASE todo'[k].id # c.id
        BY <2>1, <3>2, <4>2, <4>4, <4>5, <4>7 DEF Views, PastRetention, In
      <4>. QED
        BY <4>6, <4>7
    <3>. QED
      BY <3>3, <3>4 DEF GCInv
  <2>. QED
    BY <2>1, <2>2, <2>3, <2>4
<1>. QED
  BY <1>1, <1>2, <1>3, <1>4, <1>5, <1>6, StepCases

LEMMA GCInit == Init => GCInv
BY DEF Init, GCInv

(* A deletion the log records is of an artifact that has rested.            *)
LEMMA DeletionStep ==
  ASSUME IInv, BirthInv, ViewAgreesOnBorn, GCInv, [Next]_vars,
         NEW i \in Ids, replay[i] # Absent, replay'[i] = Absent
  PROVE  /\ replay[i].lc \in {"ARCHIVED", "REJECTED"}
         /\ ~replay[i].pinned
         /\ clock - replay[i].updated_at > Retention
<1>1. Logged
  BY StepKinds DEF logVars
<1>. DEFINE c == Head(todo)
<1>2. c.id \in Ids /\ replay' = [replay EXCEPT ![c.id] = ReplayEvent(c)] /\ replay \in Views
  BY <1>1, EventEffect DEF IInv, Shaped, TypeOK
<1>3. i = c.id /\ ReplayEvent(c) = Absent
  BY <1>2 DEF Views
<1>4. c \in DeleteCall
  <2>1. \/ ReplayEvent(c) \in State \/ c \in DeleteCall
        \/ replay[c.id] = Absent \/ ReplayEvent(c) = After(c, replay[c.id])
    BY <1>1, EventEffect
  <2>2. ReplayEvent(c) \in State => ReplayEvent(c) # Absent
    BY DEF State, States, Absent
  <2>3. c \notin DeleteCall => ReplayEvent(c) \in State
    <3>1. replay[c.id] \in State /\ clock \in Nat
      BY <1>2, <1>3 DEF Views, IInv, Shaped, TypeOK
    <3>2. c \notin DeleteCall => \/ ReplayEvent(c) \in State
                                 \/ /\ c \in MoveCall \cup NoteCall \cup MarkCall
                                    /\ ReplayEvent(c) = After(c, replay[c.id])
      BY <1>1, <1>3, EventEffect
    <3>. HIDE DEF c
    <3>. QED
      BY <3>1, <3>2, AfterType
  <2>. QED
    BY <1>3, <2>2, <2>3
<1>5. todo # <<>> /\ up
  BY <1>1 DEF Logged, Committing
<1>6. c = todo[1] /\ 1 \in 1 .. Len(todo)
  BY <1>5, EmptySeq, LenProperties DEF IInv, Shaped, QueueShape
<1>7. view[i] = replay[i]
  BY <1>5 DEF BirthInv, ViewAgreesOnBorn
<1>8. i \in PastRetention
  BY <1>3, <1>4, <1>6, <1>7 DEF GCInv
<1>. QED
  BY <1>7, <1>8 DEF PastRetention, In

(* gc() (lifecycle.py:804-839), whatever crashes or fails between its two   *)
(* passes and within them: what the log loses was ARCHIVED or REJECTED,     *)
(* unpinned, and unchanged for longer than the retention time.              *)
THEOREM DeletedHasRested ==
  ASSUME OwnIdentities
  PROVE  Spec => DeletionRested
<1>1. ASSUME IInv, BirthInv, ViewAgreesOnBorn, GCInv, [Next]_vars,
             NEW i \in Ids, replay[i] # Absent, replay'[i] = Absent
      PROVE  /\ replay[i].lc \in {"ARCHIVED", "REJECTED"}
             /\ ~replay[i].pinned
             /\ clock - replay[i].updated_at > Retention
  BY <1>1, DeletionStep
<1>2. IInv /\ BirthInv /\ [Next]_vars => BirthInv'
  BY BirthStep
<1>3. IInv /\ BirthInv /\ ViewAgreesOnBorn /\ [Next]_vars => ViewAgreesOnBorn'
  BY AgreeStep
<1>4. IInv /\ GCInv /\ [Next]_vars => GCInv'
  BY GCStep
<1>5. IInv /\ BirthInv /\ ViewAgreesOnBorn /\ GCInv /\ [Next]_vars =>
        [\A i \in Ids : replay[i] # Absent /\ replay'[i] = Absent =>
           /\ replay[i].lc \in {"ARCHIVED", "REJECTED"}
           /\ ~replay[i].pinned
           /\ clock - replay[i].updated_at > Retention]_vars
  BY <1>1
<1>6. Init => ViewAgreesOnBorn
  BY DEF Init, ViewAgreesOnBorn
<1>. QED
  BY <1>2, <1>3, <1>4, <1>5, <1>6, InitHolds, NextPreserves, BirthInit, GCInit, PTL
  DEF Spec, DeletionRested

-----------------------------------------------------------------------------
(* The refinement.  The state of an artifact in the log is the life of its   *)
(* identity: an event about another identity leaves it, and an event about   *)
(* it moves it along an edge of the rule table, or not at all.              *)

Lives == [i \in Ids |-> Life(i)]

LEMMA EdgesAreSuccessors ==
  ASSUME NEW from, NEW to, <<from, to>> \in Edges
  PROVE  from \in DOMAIN History!Successors /\ to \in History!Successors[from]
BY DEF Edges, History!Successors

LEMMA HistoryInit == Init => History!Init
BY DEF Init, History!Init, Life, NoView

LEMMA LifeStep ==
  ASSUME IInv, BirthInv, ViewAgreesOnBorn, GCInv, [Next]_vars, Logged,
         NEW i, i = Head(todo).id
  PROVE  /\ i \in Ids
         /\ \A j \in Ids \ {i} : Life(j)' = Life(j)
         /\ \/ Life(i)' = Life(i)
            \/ Life(i) = "unborn" /\ Life(i)' = "CANDIDATE"
            \/ <<Life(i), Life(i)'>> \in Edges
            \/ Life(i) \in {"ARCHIVED", "REJECTED"} /\ Life(i)' = "forgotten"
<1>. DEFINE c == Head(todo)
<1>1. /\ i \in Ids /\ replay \in Views
      /\ replay' = [replay EXCEPT ![i] = ReplayEvent(c)]
      /\ born' = IF c \in CreateCall THEN born \cup {i} ELSE born
  <2>1. c \in CreateCall => c \notin DeleteCall \cup MoveCall \cup NoteCall \cup MarkCall
    BY DEF CreateCall, DeleteCall, MoveCall, NoteCall, MarkCall
  <2>. HIDE DEF c
  <2>2. c = Head(todo)
    BY DEF c
  <2>. QED
    BY <2>1, <2>2, EventEffect DEF IInv, Shaped, TypeOK
<1>2. \A j \in Ids \ {i} : Life(j)' = Life(j)
  BY <1>1 DEF Life, Views
<1>3. replay'[i] = ReplayEvent(c)
  BY <1>1 DEF Views
<1>4. CASE c \in CreateCall
  <2>1. i \notin born /\ replay[i] = Absent
    BY <1>1, <1>4, NewIsUnborn DEF BirthInv, HeadNew, Logged, IInv, Shaped
  <2>2. ReplayEvent(c).lc = "CANDIDATE" /\ ReplayEvent(c) # Absent
    BY <1>4, EventEffect
    DEF State, Absent, CreateCall, DeleteCall, MoveCall, NoteCall, MarkCall
  <2>. QED
    BY <1>1, <1>2, <1>3, <2>1, <2>2 DEF Life
<1>5. CASE c \notin CreateCall /\ replay[i] = Absent
  <2>1. ReplayEvent(c) = Absent
    BY <1>5, EventEffect
  <2>. QED
    BY <1>1, <1>2, <1>3, <1>5, <2>1 DEF Life
<1>6. CASE c \notin CreateCall /\ replay[i] # Absent /\ ReplayEvent(c) = Absent
  <2>1. replay[i].lc \in {"ARCHIVED", "REJECTED"} /\ i \in born
    BY <1>1, <1>3, <1>6, DeletionStep DEF BirthInv
  <2>. QED
    BY <1>1, <1>2, <1>3, <1>6, <2>1 DEF Life
<1>7. CASE c \notin CreateCall /\ replay[i] # Absent /\ ReplayEvent(c) # Absent
  <2>1. /\ c \in MoveCall \cup NoteCall \cup MarkCall
        /\ ReplayEvent(c) = After(c, replay[i])
    BY <1>7, EventEffect
  <2>2. Life(i) = replay[i].lc
    BY <1>7 DEF Life
  <2>3. Life(i)' = IF c.kind = "move" THEN c.to ELSE replay[i].lc
    BY <1>3, <1>7, <2>1, AfterKeeps DEF Life
  <2>4. view[i] = replay[i]
    BY <1>1, <1>7 DEF BirthInv, ViewAgreesOnBorn, Logged, Committing
  <2>5. c.kind = "move" => <<replay[i].lc, c.to>> \in Edges
    BY <2>4 DEF Logged, Committing, Legal
  <2>. QED
    BY <1>1, <1>2, <2>2, <2>3, <2>5
<1>. QED
  BY <1>4, <1>5, <1>6, <1>7

LEMMA HistoryStep ==
  ASSUME IInv, BirthInv, ViewAgreesOnBorn, GCInv, [Next]_vars
  PROVE  [History!Next]_Lives
<1>1. CASE UNCHANGED logVars
  BY <1>1 DEF logVars, Lives, Life
<1>2. CASE Logged
  <2>1. PICK i \in Ids :
          /\ \A j \in Ids \ {i} : Life(j)' = Life(j)
          /\ \/ Life(i)' = Life(i)
             \/ Life(i) = "unborn" /\ Life(i)' = "CANDIDATE"
             \/ <<Life(i), Life(i)'>> \in Edges
             \/ Life(i) \in {"ARCHIVED", "REJECTED"} /\ Life(i)' = "forgotten"
    BY <1>2, LifeStep
  <2>2. /\ Lives[i] = Life(i)
        /\ Lives' = [Lives EXCEPT ![i] = Life(i)']
    BY <2>1 DEF Lives
  <2>3. CASE Life(i)' = Life(i)
    BY <2>2, <2>3 DEF Lives
  <2>4. CASE Life(i) = "unborn" /\ Life(i)' = "CANDIDATE"
    <3>1. History!Register(i)
      BY <2>2, <2>4 DEF History!Register, Lives
    <3>. QED
      BY <3>1 DEF History!Next
  <2>5. CASE <<Life(i), Life(i)'>> \in Edges
    <3>1. History!Move(i)
      BY <2>2, <2>5, EdgesAreSuccessors DEF History!Move, Lives
    <3>. QED
      BY <3>1 DEF History!Next
  <2>6. CASE Life(i) \in {"ARCHIVED", "REJECTED"} /\ Life(i)' = "forgotten"
    <3>1. History!Forget(i)
      BY <2>2, <2>6 DEF History!Forget, Lives
    <3>. QED
      BY <3>1 DEF History!Next
  <2>. QED
    BY <2>1, <2>3, <2>4, <2>5, <2>6
<1>. QED
  BY <1>1, <1>2, StepKinds

(* The log implements ArtifactHistory (lifecycle.py:82-96, 391-430, 804-839):   *)
(* whatever is called and whatever fails, crashes or is edited, an identity  *)
(* is registered at most once, moves only along the rule table, and is       *)
(* forgotten only when it was ARCHIVED or REJECTED.                         *)
THEOREM HistoryImplemented ==
  ASSUME OwnIdentities
  PROVE  Spec => ImplementsHistory
<1>1. Init => ViewAgreesOnBorn
  BY DEF Init, ViewAgreesOnBorn
<1>2. IInv /\ BirthInv /\ [Next]_vars => BirthInv'
  BY BirthStep
<1>3. IInv /\ BirthInv /\ ViewAgreesOnBorn /\ [Next]_vars => ViewAgreesOnBorn'
  BY AgreeStep
<1>4. IInv /\ GCInv /\ [Next]_vars => GCInv'
  BY GCStep
<1>5. IInv /\ BirthInv /\ ViewAgreesOnBorn /\ GCInv /\ [Next]_vars => [History!Next]_Lives
  BY HistoryStep
<1>. QED
  BY <1>1, <1>2, <1>3, <1>4, <1>5, InitHolds, NextPreserves, BirthInit, GCInit, HistoryInit, PTL
  DEF Spec, ImplementsHistory, History!Spec, Lives
=============================================================================
