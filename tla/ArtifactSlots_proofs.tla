------------------------ MODULE ArtifactSlots_proofs -------------------------
(***************************************************************************)
(* Proofs about ArtifactLifecycle, continued: what is ACTIVE in a slot, what *)
(* the superseded artifacts of a slot were replaced by, and how a promotion  *)
(* through the learning pipeline ends.                                      *)
(***************************************************************************)
EXTENDS ArtifactLifecycle_proofs

-----------------------------------------------------------------------------
(* Slots.  In a slot of one type, an activation is the last call of its     *)
(* queue, and whatever is ACTIVE in its slot leaves by an earlier one.      *)

OneTypeSlots == \A s \in Slots : \A t, u \in SlotTypes[s] : t = u

TypedIn(v) == \A i \in Ids : v[i] # Absent => v[i].type \in SlotTypes[v[i].slot]

(* The artifact an activation is about may be the one about to be created.  *)
Activates(c) == c \in MoveCall /\ c.to = "ACTIVE"
Vacates(c, j) == c \in MoveCall /\ c.to # "ACTIVE" /\ c.id = j
Creates(q, i) == Head(q) \in CreateCall /\ Head(q).id = i
TypeOf(q, i) == IF Creates(q, i) THEN Head(q).type ELSE view[i].type
SlotOf(q, i) == IF Creates(q, i) THEN Head(q).slot ELSE view[i].slot

Rivals(q, i) ==
  {j \in In(view, {"ACTIVE"}) :
     /\ view[j].type \in SingleActiveTypes /\ j # i
     /\ view[j].type = TypeOf(q, i) /\ view[j].slot = SlotOf(q, i)}

Clears(q) ==
  \A k \in 1 .. Len(q) : Activates(q[k]) =>
    /\ k = Len(q)
    /\ \A l \in 1 .. Len(q) : q[l] \notin DeleteCall
    /\ \A j \in Rivals(q, q[k].id) : \E l \in 1 .. k - 1 : Vacates(q[l], j)

SlotInv ==
  /\ TypedIn(view) /\ TypedIn(replay)
  /\ OneActive(view) /\ OneActive(replay)
  /\ Clears(todo)

LEMMA CallKinds ==
  ASSUME NEW i, NEW to, NEW r
  PROVE  /\ Move(i, to) \notin CreateCall /\ Supersession(i, r) \notin CreateCall
         /\ Move(i, to).id = i /\ Move(i, to).to = to
         /\ Supersession(i, r).id = i /\ Supersession(i, r).to = "SUPERSEDED"
         /\ Supersession(i, r).repl = r
         /\ ~Activates(Supersession(i, r))
         /\ to # "ACTIVE" => ~Activates(Move(i, to))
BY DEF Move, Supersession, CreateCall, Activates

LEMMA PlainClears ==
  ASSUME NEW q, Plain(q)
  PROVE  Clears(q)
<1>1. \A k \in 1 .. Len(q) : q[k] \in PlainMove \cup NoteCall \cup MarkCall \cup CollectCall
  BY ElementOfSeq DEF Plain
<1>2. \A k \in 1 .. Len(q) : ~Activates(q[k])
  BY <1>1 DEF Activates, PlainMove, MoveCall, NoteCall, MarkCall, CollectCall
<1>. QED
  BY <1>2 DEF Clears

LEMMA PromotesClears ==
  ASSUME TypeOK, OneActive(view), NEW q, Promotes(q)
  PROVE  Clears(q)
<1>0. \A k \in 1 .. Len(q) : q[k] \notin DeleteCall
  BY PlannedDeletes DEF Planned
<1>1. PICK i \in Present(view) :
        \/ /\ q = <<Move(i, "ACTIVE")>>
           /\ view[i].type \in SingleActiveTypes => Actives(view[i].slot, {view[i].type}) = {}
        \/ \E cur \in Actives(view[i].slot, {view[i].type}) \ {i} :
             q = <<Supersession(cur, i), Move(i, "ACTIVE")>>
        \/ \E j \in Present(view) : q = <<Supersession(j, i)>>
  BY DEF Promotes
<1>. DEFINE m == Move(i, "ACTIVE")
<1>2. i \in Ids /\ m \notin CreateCall /\ m.id = i
  BY CallKinds DEF Present
<1>3. CASE /\ q = <<m>>
           /\ view[i].type \in SingleActiveTypes => Actives(view[i].slot, {view[i].type}) = {}
  <2>1. Rivals(q, i) = {}
    BY <1>2, <1>3 DEF Rivals, TypeOf, SlotOf, Creates, Actives
  <2>. HIDE DEF m
  <2>. QED
    BY <1>0, <1>2, <1>3, <2>1 DEF Clears
<1>4. ASSUME NEW cur \in Actives(view[i].slot, {view[i].type}) \ {i},
             q = <<Supersession(cur, i), m>>
      PROVE  Clears(q)
  <2>. DEFINE a == Supersession(cur, i)
  <2>1. /\ a \notin CreateCall /\ a.id = cur /\ a.to = "SUPERSEDED" /\ ~Activates(a)
        /\ cur \in Ids
    BY CallKinds DEF Actives, In
  <2>2. a \in MoveCall
    BY <1>2, <2>1, CallTypes
  <2>3. \A j \in Rivals(q, i) : j = cur
    BY <1>2, <1>4, <2>1 DEF Rivals, TypeOf, SlotOf, Creates, Actives, OneActive, In
  <2>. HIDE DEF m, a
  <2>4. Len(q) = 2 /\ q[1] = a /\ q[2] = m
    BY <1>4 DEF a
  <2>5. Vacates(q[1], cur)
    BY <2>1, <2>2, <2>4 DEF Vacates
  <2>. QED
    BY <1>0, <1>2, <2>1, <2>3, <2>4, <2>5 DEF Clears
<1>5. ASSUME NEW j \in Present(view), q = <<Supersession(j, i)>>
      PROVE  Clears(q)
  BY <1>5, CallKinds DEF Clears
<1>. QED
  BY <1>1, <1>3, <1>4, <1>5

LEMMA DerivesClears ==
  ASSUME OneTypeSlots, TypeOK, OneActive(view), TypedIn(view), NEW q, Derives(q)
  PROVE  Clears(q)
<1>0. \A k \in 1 .. Len(q) : q[k] \notin DeleteCall
  BY PlannedDeletes DEF Planned
<1>1. PICK c \in CreateCall, v \in PlainMove :
        /\ New(c) /\ v.id = c.id
        /\ \/ q = <<c>>
           \/ q = <<c, v>>
           \/ q = <<c, v, Move(c.id, "ACTIVE")>> /\ Actives(c.slot, Types) = {}
           \/ \E cur \in Actives(c.slot, Types) :
                \/ /\ q = <<c, v, Supersession(cur, c.id), Move(c.id, "ACTIVE")>>
                   /\ view[cur].type = c.type
                \/ /\ q = <<c, v, Move(cur, "QUARANTINED"), Move(c.id, "ACTIVE")>>
                   /\ view[cur].type # c.type
           \/ \E i \in Ids : q = <<c, v, Supersession(i, c.id)>>
           \/ \E i, j \in Ids : q = <<c, v, Supersession(i, c.id), Supersession(j, c.id)>>
  BY DEF Derives
<1>. DEFINE m == Move(c.id, "ACTIVE")
<1>2. m.id = c.id /\ ~Activates(c) /\ ~Activates(v)
  BY CallKinds DEF Activates, CreateCall, MoveCall, PlainMove
<1>3. Head(q) = c => \A j \in Rivals(q, c.id) :
        j \in Ids /\ view[j].lc = "ACTIVE" /\ view[j].type \in SingleActiveTypes
        /\ view[j].type = c.type /\ view[j].slot = c.slot
  BY DEF Rivals, TypeOf, SlotOf, Creates, In
<1>4. c.type \in Types /\ c.type \in SlotTypes[c.slot] /\ c.slot \in Slots
  BY <1>1 DEF New, CreateCall
<1>5. CASE q = <<c, v, m>> /\ Actives(c.slot, Types) = {}
  <2>1. Rivals(q, c.id) = {}
    BY <1>3, <1>4, <1>5 DEF Actives, In
  <2>. HIDE DEF m
  <2>2. Len(q) = 3 /\ q[1] = c /\ q[2] = v /\ q[3] = m
    BY <1>5
  <2>. QED
    BY <1>0, <1>2, <2>1, <2>2 DEF Clears
<1>6. ASSUME NEW cur \in Actives(c.slot, Types), view[cur].type = c.type,
             q = <<c, v, Supersession(cur, c.id), m>>
      PROVE  Clears(q)
  <2>. DEFINE a == Supersession(cur, c.id)
  <2>1. a.id = cur /\ a.to = "SUPERSEDED" /\ ~Activates(a) /\ cur \in Ids
    BY CallKinds DEF Actives, In
  <2>2. a \in MoveCall
    BY <2>1, CallTypes DEF CreateCall
  <2>3. \A j \in Rivals(q, c.id) : j = cur
    BY <1>3, <1>6 DEF Actives, OneActive, In
  <2>. HIDE DEF m, a
  <2>4. Len(q) = 4 /\ q[1] = c /\ q[2] = v /\ q[3] = a /\ q[4] = m
    BY <1>6 DEF a
  <2>5. Vacates(q[3], cur)
    BY <2>1, <2>2, <2>4 DEF Vacates
  <2>. QED
    BY <1>0, <1>2, <2>1, <2>3, <2>4, <2>5 DEF Clears
<1>7. ASSUME NEW cur \in Actives(c.slot, Types), view[cur].type # c.type
      PROVE  FALSE
  <2>1. cur \in Ids /\ view[cur] # Absent /\ view[cur].slot = c.slot
    BY DEF Actives, In, Absent
  <2>2. view[cur].type \in SlotTypes[c.slot]
    BY <2>1 DEF TypedIn
  <2>. QED
    BY <1>4, <1>7, <2>2 DEF OneTypeSlots
<1>8. CASE q = <<c>> \/ q = <<c, v>>
  BY <1>2, <1>8 DEF Clears
<1>9. CASE \/ \E i \in Ids : q = <<c, v, Supersession(i, c.id)>>
           \/ \E i, j \in Ids : q = <<c, v, Supersession(i, c.id), Supersession(j, c.id)>>
  <2>1. \E a, b : /\ ~Activates(a) /\ ~Activates(b)
                  /\ q = <<c, v, a>> \/ q = <<c, v, a, b>>
    BY <1>9, CallKinds
  <2>. QED
    BY <1>2, <2>1 DEF Clears
<1>. QED
  BY <1>1, <1>5, <1>6, <1>7, <1>8, <1>9

(* The log's ACTIVE artifacts are among those of a view that agrees.        *)
LEMMA AgreeingOne ==
  ASSUME NEW v, NEW r, NEW B \in SUBSET Ids, \A i \in B : v[i] = r[i],
         \A i \in Ids : r[i] # Absent => i \in B, OneActive(v)
  PROVE  OneActive(r)
<1>1. \A i \in In(r, {"ACTIVE"}) : i \in B /\ i \in In(v, {"ACTIVE"}) /\ r[i] = v[i]
  BY DEF In, Absent
<1>. QED
  BY <1>1 DEF OneActive

LEMMA AppliedOne ==
  ASSUME IInv, OneActive(view), Clears(todo), Logged
  PROVE  OneActive(Applied(Head(todo)))
<1>. DEFINE c == Head(todo)
            av == Applied(c)
<1>0. view \in Views /\ todo # <<>> /\ Committing(c)
  BY DEF IInv, Shaped, TypeOK, Logged
<1>1. av = [view EXCEPT ![c.id] = Materialise(c)] /\ c.id \in Ids
  BY ViewEffect
<1>2. av[c.id] = Materialise(c) /\ \A i \in Ids \ {c.id} : av[i] = view[i]
  BY <1>0, <1>1 DEF Views
<1>3. CASE c \in CreateCall \cup DeleteCall \/ (c \in MoveCall /\ c.to # "ACTIVE")
  <2>1. Materialise(c).lc # "ACTIVE"
    BY <1>3, ViewEffect, AfterKeeps DEF MoveCall, CreateCall, DeleteCall, NoteCall, MarkCall, Absent
  <2>. HIDE DEF c, av
  <2>2. \A i \in In(av, {"ACTIVE"}) : i \in In(view, {"ACTIVE"}) /\ av[i] = view[i]
    BY <1>2, <2>1 DEF In
  <2>3. OneActive(av)
    BY <2>2 DEF OneActive
  <2>. QED
    BY <2>3 DEF c, av
<1>4. CASE c \in NoteCall \cup MarkCall
  <2>1. /\ Materialise(c).lc = view[c.id].lc /\ Materialise(c).type = view[c.id].type
        /\ Materialise(c).slot = view[c.id].slot
    BY <1>4, ViewEffect, AfterKeeps DEF CreateCall, DeleteCall, NoteCall, MarkCall
  <2>. HIDE DEF c, av
  <2>2. \A i \in In(av, {"ACTIVE"}) :
          i \in In(view, {"ACTIVE"}) /\ av[i].type = view[i].type /\ av[i].slot = view[i].slot
    BY <1>2, <2>1 DEF In
  <2>3. OneActive(av)
    BY <2>2 DEF OneActive
  <2>. QED
    BY <2>3 DEF c, av
<1>5. CASE c \in MoveCall /\ c.to = "ACTIVE"
  <2>1. Materialise(c).type = view[c.id].type /\ Materialise(c).slot = view[c.id].slot
    BY <1>5, ViewEffect, AfterKeeps DEF MoveCall, CreateCall, DeleteCall
  <2>2. c = todo[1] /\ 1 \in 1 .. Len(todo)
    BY <1>0, EmptySeq, LenProperties DEF IInv, Shaped, QueueShape
  <2>3. Rivals(todo, c.id) = {}
    BY <1>5, <2>2 DEF Clears, Activates
  <2>4. \A j \in In(view, {"ACTIVE"}) \ {c.id} :
          ~(/\ view[j].type \in SingleActiveTypes
            /\ view[j].type = view[c.id].type /\ view[j].slot = view[c.id].slot)
    BY <1>5, <2>3 DEF Rivals, TypeOf, SlotOf, Creates, MoveCall, CreateCall
  <2>. HIDE DEF c, av
  <2>5. \A i \in In(av, {"ACTIVE"}) \ {c.id} : i \in In(view, {"ACTIVE"}) /\ av[i] = view[i]
    BY <1>2 DEF In
  <2>6. OneActive(av)
    BY <1>2, <2>1, <2>4, <2>5 DEF OneActive
  <2>. QED
    BY <2>6 DEF c, av
<1>6. c \in CreateCall \/ c \in DeleteCall \/ c \in MoveCall \cup NoteCall \cup MarkCall
  BY ViewEffect
<1>. HIDE DEF c, av
<1>. QED
  BY <1>3, <1>4, <1>5, <1>6

LEMMA AppliedTyped ==
  ASSUME IInv, BirthInv, TypedIn(view), Logged
  PROVE  TypedIn(Applied(Head(todo)))
<1>. DEFINE c == Head(todo)
            av == Applied(c)
<1>0. view \in Views /\ todo # <<>>
  BY DEF IInv, Shaped, TypeOK, Logged
<1>1. av = [view EXCEPT ![c.id] = Materialise(c)] /\ c.id \in Ids
  BY ViewEffect
<1>2. Materialise(c) # Absent => Materialise(c).type \in SlotTypes[Materialise(c).slot]
  <2>1. CASE c \in CreateCall
    <3>1. c.type \in SlotTypes[c.slot]
      BY <1>0, <2>1 DEF BirthInv, HeadNew, New
    <3>2. Materialise(c).type = c.type /\ Materialise(c).slot = c.slot
      BY <2>1, ViewEffect DEF CreateCall, DeleteCall, MoveCall, NoteCall, MarkCall
    <3>. QED
      BY <3>1, <3>2
  <2>2. CASE c \in DeleteCall
    BY <2>2 DEF DeleteCall, Materialise
  <2>3. CASE c \in MoveCall \cup NoteCall \cup MarkCall
    <3>1. view[c.id] # Absent /\ Materialise(c) = After(c, view[c.id])
      BY <2>3, ViewEffect DEF CreateCall, DeleteCall, MoveCall, NoteCall, MarkCall
    <3>2. Materialise(c).type = view[c.id].type /\ Materialise(c).slot = view[c.id].slot
      BY <3>1, AfterKeeps
    <3>. QED
      BY <1>1, <3>1, <3>2 DEF TypedIn
  <2>. QED
    BY <2>1, <2>2, <2>3, ViewEffect
<1>. HIDE DEF c, av
<1>3. TypedIn(av)
  BY <1>0, <1>1, <1>2 DEF TypedIn, Views
<1>. QED
  BY <1>3 DEF c, av

LEMMA TailClears ==
  ASSUME IInv, Clears(todo), Logged, todo' = Tail(todo), up'
  PROVE  Clears(todo)'
<1>. DEFINE c == Head(todo)
<1>0. view \in Views /\ todo # <<>>
  BY DEF IInv, Shaped, TypeOK, Logged
<1>1. view' = [view EXCEPT ![c.id] = Materialise(c)] /\ c.id \in Ids
  BY ViewEffect
<1>2. view'[c.id] = Materialise(c) /\ \A i \in Ids \ {c.id} : view'[i] = view[i]
  BY <1>0, <1>1 DEF Views
<1>3. /\ Len(todo) \in Nat \ {0} /\ Len(todo') = Len(todo) - 1 /\ c = todo[1]
      /\ \A k \in 1 .. Len(todo') : todo'[k] = todo[k + 1] /\ k + 1 \in 2 .. Len(todo)
  BY <1>0, QueueTail
<1>4. \A k \in 1 .. Len(todo') : Head(todo') \notin CreateCall
  <2>1. todo' \in Seq(Queued)
    BY <1>0, HeadAndTail
  <2>2. todo' # <<>> => Head(todo') \in Queued
    BY <2>1, EmptySeq, ElementOfSeq, LenProperties
  <2>3. Queued \cap CreateCall = {}
    BY DEF Queued, MoveCall, DeleteCall, CollectCall, CreateCall
  <2>4. ASSUME NEW k \in 1 .. Len(todo')
        PROVE  todo' # <<>>
    BY <2>4, EmptySeq, SMTT(30)
  <2>. QED
    BY <2>2, <2>3, <2>4
<1>5. ASSUME NEW k \in 1 .. Len(todo'), Activates(todo'[k]), NEW i, i = todo'[k].id
      PROVE  /\ k = Len(todo')
             /\ \A l \in 1 .. Len(todo') : todo'[l] \notin DeleteCall
             /\ \A j \in Rivals(todo, i)' : \E l \in 1 .. k - 1 : Vacates(todo'[l], j)
  <2>1. /\ k + 1 \in 2 .. Len(todo) /\ Activates(todo[k + 1]) /\ i = todo[k + 1].id
        /\ 1 \in 1 .. Len(todo)
    BY <1>3, <1>5
  <2>. DEFINE n == k + 1
  <2>2. /\ n \in 1 .. Len(todo) /\ n \in Nat /\ n # 1 /\ n - 1 = k /\ k \in Nat
        /\ Activates(todo[n]) /\ i = todo[n].id
    BY <1>3, <2>1
  <2>. HIDE DEF n, c
  <2>3. /\ n = Len(todo)
        /\ \A l \in 1 .. Len(todo) : todo[l] \notin DeleteCall
        /\ \A j \in Rivals(todo, i) : \E l \in 1 .. n - 1 : Vacates(todo[l], j)
    BY <2>2 DEF Clears
  <2>4. \A m \in 1 .. Len(todo) : Activates(todo[m]) => m = n
    BY <2>3 DEF Clears
  <2>5. c \notin DeleteCall /\ ~Activates(c)
    BY <1>3, <2>1, <2>2, <2>3, <2>4
  <2>6. /\ k + 1 = Len(todo)
        /\ \A l \in 1 .. Len(todo) : todo[l] \notin DeleteCall
        /\ \A j \in Rivals(todo, i) : \E l \in 1 .. k : Vacates(todo[l], j)
    BY <2>2, <2>3 DEF n
  <2>. USE DEF c
  <2>7. i \in Ids
    BY <1>5 DEF Activates, MoveCall
  <2>8. view'[i].type = TypeOf(todo, i) /\ view'[i].slot = SlotOf(todo, i)
    <3>1. CASE c \in CreateCall
      <4>1. Materialise(c).type = c.type /\ Materialise(c).slot = c.slot
        BY <3>1, ViewEffect DEF CreateCall, DeleteCall, MoveCall, NoteCall, MarkCall
      <4>. QED
        BY <1>2, <2>7, <3>1, <4>1 DEF TypeOf, SlotOf, Creates
    <3>2. CASE c \notin CreateCall
      <4>1. Materialise(c).type = view[c.id].type /\ Materialise(c).slot = view[c.id].slot
        BY <2>5, <3>2, ViewEffect, AfterKeeps
      <4>. QED
        BY <1>2, <2>7, <3>2, <4>1 DEF TypeOf, SlotOf, Creates
    <3>. QED
      BY <3>1, <3>2
  <2>9. ASSUME NEW j \in Rivals(todo, i)'
        PROVE  \E l \in 1 .. k - 1 : Vacates(todo'[l], j)
    <3>1. /\ j \in Ids /\ view'[j].lc = "ACTIVE" /\ view'[j].type \in SingleActiveTypes /\ j # i
          /\ view'[j].type = view'[i].type /\ view'[j].slot = view'[i].slot
      <4>1. Head(todo') \notin CreateCall
        BY <1>4
      <4>. QED
        BY <4>1, <2>9 DEF Rivals, TypeOf, SlotOf, Creates, In
    <3>2. j = c.id => c \in NoteCall \cup MarkCall
      <4>1. c \in CreateCall => Materialise(c).lc # "ACTIVE"
        BY ViewEffect DEF CreateCall, DeleteCall, MoveCall, NoteCall, MarkCall
      <4>2. c \in MoveCall => Materialise(c).lc = c.to
        BY ViewEffect, AfterKeeps DEF CreateCall, DeleteCall, MoveCall
      <4>. QED
        BY <1>2, <2>5, <3>1, <4>1, <4>2, ViewEffect DEF Activates
    <3>3. /\ view[j].lc = "ACTIVE" /\ view[j].type = view'[j].type /\ view[j].slot = view'[j].slot
      <4>1. CASE j # c.id
        BY <1>2, <3>1, <4>1
      <4>2. CASE j = c.id
        <5>1. c \in NoteCall \cup MarkCall /\ c.kind # "move"
          BY <3>2, <4>2 DEF NoteCall, MarkCall
        <5>2. Materialise(c) = After(c, view[c.id])
          BY <5>1, ViewEffect DEF CreateCall, DeleteCall, NoteCall, MarkCall
        <5>. HIDE DEF c
        <5>. QED
          BY <1>2, <3>1, <4>2, <5>1, <5>2, AfterKeeps
      <4>. QED
        BY <4>1, <4>2
    <3>4. j \in Rivals(todo, i)
      BY <2>8, <3>1, <3>3 DEF Rivals, In
    <3>5. PICK l \in 1 .. k : Vacates(todo[l], j)
      BY <2>6, <3>4
    <3>6. l # 1
      BY <1>3, <3>2, <3>5 DEF Vacates, MoveCall, NoteCall, MarkCall
    <3>7. l - 1 \in 1 .. k - 1 /\ l - 1 \in 1 .. Len(todo') /\ todo'[l - 1] = todo[l]
      BY <1>3, <2>6, <3>6
    <3>. QED
      BY <3>5, <3>7
  <2>10. \A l \in 1 .. Len(todo') : todo'[l] \notin DeleteCall
    BY <1>3, <2>6
  <2>11. k = Len(todo')
    <3>1. k + 1 = Len(todo)
      BY <2>6
    <3>2. Len(todo) \in Nat /\ Len(todo') = Len(todo) - 1
      BY <1>3
    <3>. QED
      BY <3>1, <3>2
  <2>. QED
    BY <2>9, <2>10, <2>11
<1>. QED
  BY <1>5 DEF Clears, Rivals, TypeOf, SlotOf, Creates, In

LEMMA SlotStep ==
  ASSUME OneTypeSlots, IInv, BirthInv, ViewAgreesOnBorn, SlotInv, GCInv, [Next]_vars,
         IInv', BirthInv'
  PROVE  SlotInv'
<1>1. CASE Begun
  <2>1. UNCHANGED <<view, replay>> /\ Clears(todo')
    BY <1>1, PlainClears, PromotesClears, DerivesClears
    DEF Begun, Start, logVars, Planned, SlotInv, IInv, Shaped
  <2>2. Clears(todo)'
    BY <2>1 DEF Clears, Rivals, In, TypeOf, SlotOf, Creates
  <2>. QED
    BY <2>1, <2>2 DEF SlotInv
<1>2. CASE Rested
  BY <1>2 DEF Rested, logVars, SlotInv, Clears, Rivals, In, TypeOf, SlotOf, Creates
<1>3. CASE Failed \/ Stopped \/ Opened \/ Collect
  <2>1. replay' = replay /\ TypedIn(replay) /\ OneActive(replay)
    BY <1>3 DEF Failed, Stopped, Opened, Collect, logVars, SlotInv
  <2>2. Clears(todo)'
    <3>1. CASE todo' = <<>>
      BY <3>1 DEF Clears
    <3>2. CASE Collect
      <4>1. \A k \in 1 .. Len(todo') : todo'[k] \in DeleteCall
        BY <3>2, CollectedDeletes
      <4>. QED
        BY <4>1 DEF Clears, Activates, MoveCall, DeleteCall
    <3>. QED
      BY <1>3, <3>1, <3>2 DEF Failed, Stopped, Opened, IInv
  <2>3. TypedIn(view') /\ OneActive(view')
    <3>1. CASE view' \in {view, replay}
      BY <2>1, <3>1 DEF SlotInv
    <3>2. CASE view' = NoView
      BY <3>2 DEF NoView, TypedIn, OneActive, In, Absent
    <3>3. ASSUME NEW c, c = Head(todo), todo # <<>>, c.kind = "create",
                 view' = [view EXCEPT ![c.id] = Fresh(c)]
          PROVE  TypedIn(view') /\ OneActive(view')
      <4>1. c \in CreateCall
        BY <3>3, HeadAndTail DEF Queued, MoveCall, DeleteCall, CollectCall, NoteCall, MarkCall
      <4>2. c.type \in SlotTypes[c.slot]
        BY <3>3, <4>1 DEF BirthInv, HeadNew, New
      <4>3. /\ Fresh(c).type = c.type /\ Fresh(c).slot = c.slot /\ Fresh(c).lc = "CANDIDATE"
            /\ view \in Views
        BY DEF Fresh, IInv, Shaped, TypeOK
      <4>4. TypedIn(view')
        BY <3>3, <4>2, <4>3 DEF TypedIn, Views, SlotInv
      <4>5. \A i \in In(view', {"ACTIVE"}) : i \in In(view, {"ACTIVE"}) /\ view'[i] = view[i]
        BY <3>3, <4>3 DEF In, Views
      <4>. QED
        BY <4>4, <4>5 DEF OneActive, SlotInv
    <3>. QED
      BY <1>3, <3>1, <3>2, <3>3 DEF Failed, Stopped, Opened, Collect
  <2>. QED
    BY <2>1, <2>2, <2>3 DEF SlotInv, TypedIn, OneActive, In
<1>4. CASE Logged
  <2>. DEFINE av == Applied(Head(todo))
  <2>1. TypedIn(av) /\ OneActive(av)
    BY <1>4, AppliedOne, AppliedTyped DEF SlotInv
  <2>2. \A i \in born' : av[i] = replay'[i]
    BY <1>4, AppliedAgrees
  <2>3. \A i \in Ids : replay'[i] # Absent => i \in born'
    BY DEF BirthInv
  <2>4. born' \in SUBSET Ids
    BY DEF IInv, Shaped, TypeOK
  <2>5. view' = IF up' THEN av ELSE NoView
    BY <1>4, ViewEffect
  <2>. HIDE DEF av
  <2>6. OneActive(replay')
    BY <2>1, <2>2, <2>3, <2>4, AgreeingOne
  <2>7. TypedIn(replay')
    BY <2>1, <2>2, <2>3 DEF TypedIn
  <2>8. TypedIn(view') /\ OneActive(view')
    BY <2>1, <2>5 DEF NoView, TypedIn, OneActive, In, Absent
  <2>9. Clears(todo)'
    <3>1. CASE todo' = <<>>
      BY <3>1 DEF Clears
    <3>2. CASE todo' # <<>>
      BY <1>4, <3>2, TailClears DEF Logged, SlotInv, IInv
    <3>. QED
      BY <3>1, <3>2
  <2>. QED
    BY <2>6, <2>7, <2>8, <2>9 DEF SlotInv, TypedIn, OneActive, In
<1>. QED
  BY <1>1, <1>2, <1>3, <1>4, StepCases

LEMMA SlotInit == Init => SlotInv
BY DEF Init, SlotInv, NoView, TypedIn, OneActive, In, Absent, Clears

(* lifecycle.py:98-101, for any number of slots of one type each, whatever  *)
(* is called, fails or crashes between the commits of an operation: at most *)
(* one artifact of a single-active type is ACTIVE in a slot, for the        *)
(* runtime and in the log.                                                  *)
THEOREM OneActivePerSlot ==
  ASSUME OwnIdentities, OneTypeSlots
  PROVE  Spec => []SingleActive
<1>1. Init => ViewAgreesOnBorn
  BY DEF Init, ViewAgreesOnBorn
<1>2. IInv /\ BirthInv /\ [Next]_vars => BirthInv'
  BY BirthStep
<1>3. IInv /\ BirthInv /\ ViewAgreesOnBorn /\ [Next]_vars => ViewAgreesOnBorn'
  BY AgreeStep
<1>4. IInv /\ GCInv /\ [Next]_vars => GCInv'
  BY GCStep
<1>5. /\ IInv /\ BirthInv /\ ViewAgreesOnBorn /\ GCInv /\ SlotInv /\ [Next]_vars
      /\ IInv' /\ BirthInv'
      => SlotInv'
  BY SlotStep
<1>6. SlotInv => SingleActive
  BY DEF SlotInv, SingleActive
<1>. QED
  BY <1>1, <1>2, <1>3, <1>4, <1>5, <1>6, InitHolds, NextPreserves, BirthInit, GCInit,
     SlotInit, PTL DEF Spec
-----------------------------------------------------------------------------
(* Lineage.  The replacement a queued supersession names is created, or is  *)
(* about to be by the first call of the same queue.                         *)

Supersedes(c) == c \in MoveCall /\ c.to = "SUPERSEDED"

Succeeds(q) ==
  \A k \in 1 .. Len(q) : Supersedes(q[k]) => q[k].repl \in born \/ Creates(q, q[k].repl)

LineageInv == LineageClosed /\ Succeeds(todo)

LEMMA PlannedSucceeds ==
  ASSUME NEW q, Planned(q), Present(view) \subseteq born
  PROVE  Succeeds(q)
<1>1. CASE Plain(q)
  <2>1. \A k \in 1 .. Len(q) : q[k] \in PlainMove \cup NoteCall \cup MarkCall \cup CollectCall
    BY <1>1, ElementOfSeq DEF Plain
  <2>2. \A k \in 1 .. Len(q) : ~Supersedes(q[k])
    BY <2>1 DEF Supersedes, PlainMove, MoveCall, NoteCall, MarkCall, CollectCall
  <2>. QED
    BY <2>2 DEF Succeeds
<1>2. CASE Promotes(q)
  <2>1. PICK i \in Present(view) :
          \/ q = <<Move(i, "ACTIVE")>>
          \/ \E j : q = <<Supersession(j, i), Move(i, "ACTIVE")>>
          \/ \E j : q = <<Supersession(j, i)>>
    BY <1>2 DEF Promotes
  <2>2. i \in born
    BY <2>1
  <2>3. ~Supersedes(Move(i, "ACTIVE"))
    BY CallKinds DEF Supersedes
  <2>4. \A j : Supersession(j, i).repl = i
    BY CallKinds
  <2>. QED
    BY <2>1, <2>2, <2>3, <2>4 DEF Succeeds
<1>3. CASE Derives(q)
  <2>1. PICK c \in CreateCall, v \in PlainMove :
          \/ q = <<c>>
          \/ q = <<c, v>>
          \/ q = <<c, v, Move(c.id, "ACTIVE")>>
          \/ \E i : q = <<c, v, Supersession(i, c.id), Move(c.id, "ACTIVE")>>
          \/ \E i : q = <<c, v, Move(i, "QUARANTINED"), Move(c.id, "ACTIVE")>>
          \/ \E i : q = <<c, v, Supersession(i, c.id)>>
          \/ \E i, j : q = <<c, v, Supersession(i, c.id), Supersession(j, c.id)>>
    BY <1>3 DEF Derives
  <2>2. ~Supersedes(c) /\ ~Supersedes(v)
    BY DEF Supersedes, CreateCall, MoveCall, PlainMove
  <2>3. /\ ~Supersedes(Move(c.id, "ACTIVE"))
        /\ \A i : ~Supersedes(Move(i, "QUARANTINED")) /\ Supersession(i, c.id).repl = c.id
    BY CallKinds DEF Supersedes
  <2>4. Head(q) = c
    BY <2>1
  <2>5. Creates(q, c.id)
    BY <2>4 DEF Creates
  <2>. HIDE DEF Creates
  <2>. QED
    BY <2>1, <2>2, <2>3, <2>5 DEF Succeeds
<1>. QED
  BY <1>1, <1>2, <1>3 DEF Planned

LEMMA TailSucceeds ==
  ASSUME IInv, Succeeds(todo), Logged, todo' = Tail(todo)
  PROVE  Succeeds(todo)'
<1>. DEFINE c == Head(todo)
<1>1. /\ Len(todo) \in Nat \ {0} /\ Len(todo') = Len(todo) - 1 /\ c = todo[1]
      /\ \A k \in 1 .. Len(todo') : todo'[k] = todo[k + 1] /\ k + 1 \in 1 .. Len(todo)
  BY QueueTail DEF Logged
<1>2. ASSUME NEW k \in 1 .. Len(todo'), Supersedes(todo'[k])
      PROVE  todo'[k].repl \in born'
  <2>1. todo'[k] = todo[k + 1] /\ k + 1 \in 1 .. Len(todo)
    BY <1>1
  <2>2. todo'[k].repl \in born \/ Creates(todo, todo'[k].repl)
    BY <1>2, <2>1 DEF Succeeds
  <2>3. born \subseteq born'
    BY EventEffect
  <2>4. c \in CreateCall => c.id \in born'
    BY EventEffect DEF CreateCall, MoveCall, DeleteCall, NoteCall, MarkCall
  <2>. QED
    BY <2>2, <2>3, <2>4 DEF Creates
<1>. QED
  BY <1>2 DEF Succeeds

LEMMA LineageStep ==
  ASSUME IInv, BirthInv, GCInv, ViewEqualsRebuild, LineageInv, [Next]_vars
  PROVE  LineageInv'
<1>1. CASE Begun
  <2>1. /\ UNCHANGED <<replay, born>> /\ Planned(todo') /\ up
    BY <1>1 DEF Begun, Start, logVars
  <2>2. Present(view) \subseteq born
    <3>1. view = replay
      BY <1>1 DEF Begun, Start, ViewEqualsRebuild
    <3>. QED
      BY <3>1 DEF BirthInv, Present, Absent
  <2>3. Succeeds(todo')
    BY <2>1, <2>2, PlannedSucceeds
  <2>4. Succeeds(todo)'
    BY <2>1, <2>3 DEF Succeeds, Creates
  <2>. QED
    BY <2>1, <2>4 DEF LineageInv, LineageClosed, In
<1>2. CASE Failed \/ Stopped \/ Opened \/ Rested
  <2>1. UNCHANGED <<replay, born>> /\ todo' \in {todo, <<>>}
    BY <1>2 DEF Failed, Stopped, Opened, Rested, logVars
  <2>2. Succeeds(todo)'
    <3>1. CASE todo' = todo
      BY <2>1, <3>1 DEF LineageInv, Succeeds, Creates
    <3>2. CASE todo' = <<>>
      BY <3>2 DEF Succeeds
    <3>. QED
      BY <2>1, <3>1, <3>2
  <2>. QED
    BY <2>1, <2>2 DEF LineageInv, LineageClosed, In
<1>3. CASE Collect
  <2>1. UNCHANGED <<replay, born>>
    BY <1>3 DEF Collect, logVars
  <2>2. \A k \in 1 .. Len(todo') : todo'[k] \in DeleteCall
    BY <1>3, CollectedDeletes
  <2>3. Succeeds(todo)'
    <3>1. \A k \in 1 .. Len(todo') : ~Supersedes(todo'[k])
      BY <2>2 DEF Supersedes, MoveCall, DeleteCall
    <3>. QED
      BY <3>1 DEF Succeeds
  <2>. QED
    BY <2>1, <2>3 DEF LineageInv, LineageClosed, In
<1>4. CASE Logged
  <2>. DEFINE c == Head(todo)
  <2>1. /\ c.id \in Ids /\ replay \in Views
        /\ replay' = [replay EXCEPT ![c.id] = ReplayEvent(c)]
        /\ born \subseteq born'
    BY <1>4, EventEffect DEF IInv, Shaped, TypeOK
  <2>2. ReplayEvent(c).lc = "SUPERSEDED" => ReplayEvent(c).by \in born
    <3>1. CASE c \in MoveCall /\ c.to = "SUPERSEDED" /\ ReplayEvent(c) = After(c, replay[c.id])
      <4>1. c = todo[1] /\ 1 \in 1 .. Len(todo)
        BY <1>4, EmptySeq, LenProperties DEF Logged, IInv, Shaped, QueueShape
      <4>2. c.repl \in born
        BY <3>1, <4>1 DEF LineageInv, Succeeds, Supersedes, Creates, CreateCall, MoveCall
      <4>3. c.kind = "move"
        BY <3>1 DEF MoveCall
      <4>. QED
        BY <3>1, <4>2, <4>3, AfterKeeps
    <3>2. CASE /\ c \in MoveCall \cup NoteCall \cup MarkCall
               /\ ~Supersedes(c) /\ ReplayEvent(c) = After(c, replay[c.id])
      <4>1. /\ c.kind = "move" => c \in MoveCall /\ c.to # "SUPERSEDED"
        BY <3>2 DEF Supersedes, MoveCall, NoteCall, MarkCall
      <4>2. ReplayEvent(c).lc = "SUPERSEDED" =>
              replay[c.id].lc = "SUPERSEDED" /\ ReplayEvent(c).by = replay[c.id].by
        BY <3>2, <4>1, AfterKeeps
      <4>. QED
        BY <2>1, <4>2 DEF LineageInv, LineageClosed, In
    <3>3. ReplayEvent(c) = Absent \/ ReplayEvent(c).lc = "CANDIDATE"
          \/ (c \in MoveCall \cup NoteCall \cup MarkCall /\ ReplayEvent(c) = After(c, replay[c.id]))
      BY <1>4, EventEffect
    <3>. QED
      BY <3>1, <3>2, <3>3 DEF Absent, Supersedes
  <2>3. LineageClosed'
    <3>. HIDE DEF c
    <3>1. \A i \in In(replay', {"SUPERSEDED"}) : replay'[i].by \in born'
      BY <2>1, <2>2 DEF LineageInv, LineageClosed, In, Views
    <3>. QED
      BY <3>1 DEF LineageClosed, In
  <2>4. Succeeds(todo)'
    <3>1. CASE todo' = <<>>
      BY <3>1 DEF Succeeds
    <3>2. CASE todo' = Tail(todo)
      BY <1>4, <3>2, TailSucceeds DEF LineageInv
    <3>. QED
      BY <1>4, <3>1, <3>2 DEF Logged
  <2>. QED
    BY <2>3, <2>4 DEF LineageInv
<1>. QED
  BY <1>1, <1>2, <1>3, <1>4, StepCases

(* supersede() (lifecycle.py:504-514): whatever was called, or crashed      *)
(* between two commits, the replacement a SUPERSEDED artifact names has     *)
(* been registered, provided no append raises.                              *)
THEOREM LineageKept ==
  ASSUME OwnIdentities, "append" \notin Faults
  PROVE  Spec => []LineageClosed
<1>1. Init => ViewEqualsRebuild /\ LineageInv
  BY DEF Init, ViewEqualsRebuild, LineageInv, LineageClosed, Succeeds, In, NoView, Absent
<1>2. IInv /\ BirthInv /\ [Next]_vars => BirthInv'
  BY BirthStep
<1>3. IInv /\ ViewEqualsRebuild /\ [Next]_vars => ViewEqualsRebuild'
  BY ViewStep
<1>4. IInv /\ GCInv /\ [Next]_vars => GCInv'
  BY GCStep
<1>5. IInv /\ BirthInv /\ GCInv /\ ViewEqualsRebuild /\ LineageInv /\ [Next]_vars => LineageInv'
  BY LineageStep
<1>6. LineageInv => LineageClosed
  BY DEF LineageInv
<1>. QED
  BY <1>1, <1>2, <1>3, <1>4, <1>5, <1>6, InitHolds, NextPreserves, BirthInit, GCInit,
     PTL DEF Spec

-----------------------------------------------------------------------------
(* The pipeline.  It supersedes only ahead of the activation of the          *)
(* replacement, which it has just validated; its verdicts are about          *)
(* candidates, and its policies move to STALE and ARCHIVED only.            *)

PolicyMove == {c \in MoveCall : c.to \in {"STALE", "ARCHIVED"}}

PipelinePlan(q) ==
  \/ q \in Seq(PolicyMove \cup CollectCall)
  \/ \E i \in Ids, p \in Payloads : view[i].lc = "CANDIDATE" /\ q = <<Verdict(i, p)>>
  \/ \E c \in CreateCall :
       LET good == Move(c.id, "VALIDATED")
           last == Move(c.id, "ACTIVE")
       IN \/ q = <<c>>
          \/ \E p \in Payloads : q = <<c, Verdict(c.id, p)>>
          \/ q = <<c, good, last>>
          \/ \E cur \in Ids : \/ q = <<c, good, Supersession(cur, c.id), last>>
                              \/ q = <<c, good, Move(cur, "QUARANTINED"), last>>

(* sync_active() with a payload that does not validate queues no more than   *)
(* the candidate and its verdict.                                           *)
LEMMA SyncPlans ==
  ASSUME TypeOK, NEW t \in Types, NEW s \in Slots, NEW p \in Payloads, SyncActive(t, s, p)
  PROVE  PipelinePlan(todo')
<1>. DEFINE new == NewId(t)
            c == Create(new, t, s, p)
            v == Verdict(new, p)
            mid(cur) == IF cur = NoId THEN <<>>
                        ELSE IF view[cur].type = t THEN <<Supersession(cur, new)>>
                        ELSE <<Move(cur, "QUARANTINED")>>
            last == Move(new, "ACTIVE")
            rest(cur) == mid(cur) \o <<last>>
<1>1. PICK cur \in ActiveInSlot(s, Types) : todo' = Derive(new, t, s, p, rest(cur))
  BY DEF SyncActive, Start
<1>2. c \in CreateCall /\ c.id = new /\ new \in Ids
  BY NewCall DEF SyncActive
<1>3. p \in Good => v = Move(new, "VALIDATED")
  BY DEF Verdict
<1>4. cur # NoId => cur \in Ids
  BY ActiveInSlotType
<1>5. \/ rest(cur) = <<last>>
      \/ cur \in Ids /\ rest(cur) = <<Supersession(cur, new), last>>
      \/ cur \in Ids /\ rest(cur) = <<Move(cur, "QUARANTINED"), last>>
  <2>. HIDE DEF last
  <2>1. <<>> \o <<last>> = <<last>>
    OBVIOUS
  <2>2. /\ <<Supersession(cur, new)>> \o <<last>> = <<Supersession(cur, new), last>>
        /\ <<Move(cur, "QUARANTINED")>> \o <<last>> = <<Move(cur, "QUARANTINED"), last>>
    BY OneAndOne
  <2>. QED
    BY <1>4, <2>1, <2>2, Zenon
<1>6. CASE p \notin Good
  <2>1. todo' = <<c, v>> \o <<>>
    BY <1>1, <1>6, Zenon DEF Derive
  <2>. HIDE DEF c, v, new
  <2>2. todo' = <<c, v>>
    BY <2>1
  <2>. QED
    BY <1>2, <2>2 DEF PipelinePlan, v
<1>7. CASE p \in Good
  <2>1. todo' = <<c, v>> \o rest(cur)
    BY <1>1, <1>7, Zenon DEF Derive
  <2>. HIDE DEF rest, c, v, last
  <2>2. \/ todo' = <<c, v, last>>
        \/ cur \in Ids /\ todo' = <<c, v, Supersession(cur, new), last>>
        \/ cur \in Ids /\ todo' = <<c, v, Move(cur, "QUARANTINED"), last>>
    BY <1>5, <2>1, TwoAndOne, TwoAndTwo
  <2>. HIDE DEF new
  <2>. QED
    BY <1>2, <1>3, <1>7, <2>2 DEF PipelinePlan, last
<1>. QED
  BY <1>6, <1>7

LEMMA PolicyQueues ==
  ASSUME DetectStale \/ GC
  PROVE  PipelinePlan(todo')
<1>1. /\ SetToSeq(Forgotten) \in Seq(Ids)
      /\ SetToSeq(PastGrace) \in Seq(Ids)
  BY SetToSeqInSeq, SeqMonotonic DEF Forgotten, PastGrace, In
<1>2. \A i \in Ids : ToStale(i) \in PolicyMove /\ ToArchive(i) \in PolicyMove
  BY DEF ToStale, ToArchive, States, Move, MoveCall, PolicyMove
<1>. DEFINE S == PolicyMove \cup CollectCall
<1>3. ForEach(Forgotten, ToStale) \in Seq(S)
  BY <1>1, <1>2, ElementOfSeq, LenProperties DEF ForEach
<1>4. ForEach(PastGrace, ToArchive) \in Seq(S)
  BY <1>1, <1>2, ElementOfSeq, LenProperties DEF ForEach
<1>5. <<[kind |-> "collect"]>> \in Seq(S)
  BY DEF CollectCall
<1>. HIDE DEF S
<1>6. ForEach(PastGrace, ToArchive) \o <<[kind |-> "collect"]>> \in Seq(S)
  BY <1>4, <1>5, ConcatProperties
<1>. QED
  BY <1>3, <1>6 DEF DetectStale, GC, Start, PipelinePlan, S

Queues == Start(todo') /\ PipelinePlan(todo')

LEMMA OperationsQueue ==
  ASSUME IInv, [PipelineNext]_vars, ~Step, ~Environment, ~Collect, ~UNCHANGED vars
  PROVE  Queues /\ Next
<1>1. CASE \E s \in Slots, t \in Types, p \in Payloads :
             RegisterCandidate(t, s, p) \/ SyncActive(t, s, p)
  <2>1. PICK s \in Slots, t \in Types, p \in Payloads :
          RegisterCandidate(t, s, p) \/ SyncActive(t, s, p)
    BY <1>1
  <2>2. Authoring
    BY <1>1 DEF Authoring
  <2>3. Start(todo')
    BY <2>1 DEF RegisterCandidate, SyncActive, Start
  <2>4. CASE RegisterCandidate(t, s, p)
    <3>1. Create(NewId(t), t, s, p) \in CreateCall
      BY <2>4, NewCall DEF RegisterCandidate, IInv, Shaped
    <3>2. todo' = <<Create(NewId(t), t, s, p)>>
      BY <2>4 DEF RegisterCandidate, Start
    <3>3. PipelinePlan(todo')
      BY <3>1, <3>2 DEF PipelinePlan
    <3>. QED
      BY <2>2, <2>3, <3>3 DEF Queues, Next
  <2>5. CASE SyncActive(t, s, p)
    BY <2>2, <2>3, <2>5, SyncPlans DEF Queues, Next, IInv, Shaped
  <2>. QED
    BY <2>1, <2>4, <2>5
<1>2. CASE \E i \in Present(view) : Validate(i)
  <2>1. PICK i \in Present(view) : Validate(i)
    BY <1>2
  <2>2. i \in Ids /\ view[i] \in State
    BY PresentState DEF IInv, Shaped
  <2>3. view[i].payload \in Payloads
    BY <2>2 DEF State
  <2>4. Start(todo') /\ view[i].lc = "CANDIDATE" /\ todo' = <<Verdict(i, view[i].payload)>>
    BY <2>1 DEF Validate, Start
  <2>5. PipelinePlan(todo')
    BY <2>2, <2>3, <2>4 DEF PipelinePlan
  <2>. QED
    BY <2>1, <2>4, <2>5 DEF Queues, Next, Moves
<1>3. CASE DetectStale \/ GC
  <2>1. Start(todo')
    BY <1>3 DEF DetectStale, GC, Start
  <2>. QED
    BY <1>3, <2>1, PolicyQueues DEF Queues, Next, Maintenance
<1>. QED
  BY <1>1, <1>2, <1>3 DEF PipelineNext, Maintenance

LEMMA PipelineCases ==
  ASSUME IInv, [PipelineNext]_vars
  PROVE  /\ [Next]_vars
         /\ Queues \/ Logged \/ Failed \/ Stopped \/ Opened \/ Rested \/ Collect
<1>1. CASE Collect
  BY <1>1 DEF Next, Maintenance
<1>2. CASE Step \/ Environment \/ UNCHANGED vars
  BY <1>2, OtherSteps DEF Next
<1>. QED
  BY <1>1, <1>2, OperationsQueue

-----------------------------------------------------------------------------
(* The queue of the pipeline.  A supersession is followed by the activation  *)
(* of the replacement and nothing else, and preceded by its validation; a    *)
(* verdict is about a candidate of the view, or about the artifact that is   *)
(* about to be created.                                                     *)

Paired(q) ==
  \A k \in 1 .. Len(q) : Supersedes(q[k]) =>
    /\ q[k].repl \in Ids
    /\ k + 1 = Len(q) /\ q[k + 1] = Move(q[k].repl, "ACTIVE")
    /\ IF k = 1 THEN view[q[k].repl].lc = "VALIDATED"
                ELSE q[k - 1] = Move(q[k].repl, "VALIDATED")

Judges(c) == c \in MoveCall /\ c.to \in {"VALIDATED", "REJECTED"}

Judged(q) ==
  \A k \in 1 .. Len(q) : Judges(q[k]) =>
    \/ k = 1 /\ view[q[k].id].lc = "CANDIDATE"
    \/ k = 2 /\ Creates(q, q[k].id)

QueueInv == Paired(todo) /\ Judged(todo)

LEMMA OtherCalls ==
  /\ \A c \in CreateCall : ~Supersedes(c) /\ ~Judges(c) /\ c.id \in Ids
  /\ \A i, p : ~Supersedes(Verdict(i, p)) /\ Verdict(i, p).id = i
  /\ \A i, to : Move(i, to).id = i /\ Move(i, to).to = to
  /\ \A i : /\ ~Supersedes(Move(i, "ACTIVE")) /\ ~Judges(Move(i, "ACTIVE"))
            /\ ~Supersedes(Move(i, "VALIDATED"))
            /\ ~Supersedes(Move(i, "QUARANTINED")) /\ ~Judges(Move(i, "QUARANTINED"))
  /\ \A i, r : ~Judges(Supersession(i, r)) /\ Supersession(i, r).repl = r
  /\ \A c \in PolicyMove \cup CollectCall \cup DeleteCall : ~Supersedes(c) /\ ~Judges(c)
BY DEF Supersedes, Judges, Verdict, Move, Supersession, CreateCall, MoveCall, PolicyMove,
       CollectCall, DeleteCall

LEMMA PlanQueue ==
  ASSUME NEW q, PipelinePlan(q)
  PROVE  Paired(q) /\ Judged(q)
<1>1. CASE q \in Seq(PolicyMove \cup CollectCall)
  <2>1. \A k \in 1 .. Len(q) : q[k] \in PolicyMove \cup CollectCall
    BY <1>1, ElementOfSeq
  <2>2. \A k \in 1 .. Len(q) : ~Supersedes(q[k]) /\ ~Judges(q[k])
    BY <2>1, OtherCalls
  <2>. QED
    BY <2>2 DEF Paired, Judged
<1>2. ASSUME NEW i \in Ids, NEW p \in Payloads, view[i].lc = "CANDIDATE", q = <<Verdict(i, p)>>
      PROVE  Paired(q) /\ Judged(q)
  <2>1. ~Supersedes(Verdict(i, p)) /\ Verdict(i, p).id = i
    BY OtherCalls
  <2>. DEFINE v == Verdict(i, p)
  <2>. HIDE DEF v
  <2>2. q = <<v>> /\ ~Supersedes(v) /\ v.id = i
    BY <1>2, <2>1 DEF v
  <2>3. \A k \in 1 .. Len(q) : k = 1 /\ q[k] = v
    BY <2>2
  <2>. QED
    BY <1>2, <2>2, <2>3 DEF Paired, Judged
<1>3. ASSUME NEW c \in CreateCall,
             q = <<c>> \/ \E v : ~Supersedes(v) /\ v.id = c.id /\ q = <<c, v>>
      PROVE  Paired(q) /\ Judged(q)
  <2>1. Creates(q, c.id) /\ ~Supersedes(c) /\ ~Judges(c)
    BY <1>3, OtherCalls DEF Creates
  <2>2. \A k \in 1 .. Len(q) :
          ~Supersedes(q[k]) /\ (Judges(q[k]) => k = 2 /\ q[k].id = c.id)
    BY <1>3, <2>1
  <2>. QED
    BY <2>1, <2>2 DEF Paired, Judged
<1>4. ASSUME NEW c \in CreateCall, NEW mid,
             \/ q = <<c, Move(c.id, "VALIDATED"), Move(c.id, "ACTIVE")>>
             \/ /\ q = <<c, Move(c.id, "VALIDATED"), mid, Move(c.id, "ACTIVE")>>
                /\ ~Judges(mid) /\ (Supersedes(mid) => mid.repl = c.id)
      PROVE  Paired(q) /\ Judged(q)
  <2>. DEFINE good == Move(c.id, "VALIDATED")
              last == Move(c.id, "ACTIVE")
  <2>1. /\ ~Supersedes(c) /\ ~Judges(c) /\ c.id \in Ids
        /\ ~Supersedes(good) /\ good.id = c.id /\ ~Supersedes(last) /\ ~Judges(last)
    BY OtherCalls
  <2>2. Creates(q, c.id)
    BY <1>4 DEF Creates
  <2>. HIDE DEF good, last
  <2>3. q = <<c, good, last>> \/ q = <<c, good, mid, last>>
    BY <1>4 DEF good, last
  <2>4. Judged(q)
    <3>1. \A k \in 1 .. Len(q) : Judges(q[k]) => k = 2 /\ q[k] = good
      <4>1. CASE q = <<c, good, last>>
        BY <2>1, <4>1
      <4>2. CASE q = <<c, good, mid, last>> /\ ~Judges(mid)
        BY <2>1, <4>2
      <4>. QED
        BY <1>4, <2>3, <4>1, <4>2 DEF good, last
    <3>. QED
      BY <2>1, <2>2, <3>1 DEF Judged
  <2>5. CASE q = <<c, good, last>>
    <3>1. Len(q) = 3 /\ q[1] = c /\ q[2] = good /\ q[3] = last
      BY <2>5
    <3>2. \A k \in 1 .. Len(q) : ~Supersedes(q[k])
      BY <2>1, <3>1
    <3>. QED
      BY <2>4, <3>2 DEF Paired
  <2>6. CASE q = <<c, good, mid, last>> /\ ~Supersedes(mid)
    <3>1. Len(q) = 4 /\ q[1] = c /\ q[2] = good /\ q[3] = mid /\ q[4] = last
      BY <2>6
    <3>2. \A k \in 1 .. Len(q) : ~Supersedes(q[k])
      BY <2>1, <2>6, <3>1
    <3>. QED
      BY <2>4, <3>2 DEF Paired
  <2>7. CASE q = <<c, good, mid, last>> /\ Supersedes(mid)
    <3>1. mid.repl = c.id
      <4>1. q # <<c, good, last>>
        BY <2>7
      <4>. QED
        BY <1>4, <2>7, <4>1 DEF good, last
    <3>2. \A k \in 1 .. Len(q) : Supersedes(q[k]) => k = 3
      BY <2>1, <2>7
    <3>3. Len(q) = 4 /\ q[2] = good /\ q[3] = mid /\ q[4] = last
      BY <2>7
    <3>4. good = Move(c.id, "VALIDATED") /\ last = Move(c.id, "ACTIVE")
      BY DEF good, last
    <3>. HIDE DEF good, last
    <3>. QED
      BY <2>1, <2>4, <3>1, <3>2, <3>3, <3>4 DEF Paired
  <2>. QED
    BY <2>3, <2>4, <2>5, <2>6, <2>7
<1>5. ASSUME NEW c \in CreateCall,
             \/ q = <<c>>
             \/ \E p \in Payloads : q = <<c, Verdict(c.id, p)>>
             \/ q = <<c, Move(c.id, "VALIDATED"), Move(c.id, "ACTIVE")>>
             \/ \E cur \in Ids :
                  \/ q = <<c, Move(c.id, "VALIDATED"), Supersession(cur, c.id), Move(c.id, "ACTIVE")>>
                  \/ q = <<c, Move(c.id, "VALIDATED"), Move(cur, "QUARANTINED"), Move(c.id, "ACTIVE")>>
      PROVE  Paired(q) /\ Judged(q)
  <2>1. \A cur : /\ ~Judges(Supersession(cur, c.id)) /\ Supersession(cur, c.id).repl = c.id
                 /\ ~Judges(Move(cur, "QUARANTINED")) /\ ~Supersedes(Move(cur, "QUARANTINED"))
    BY OtherCalls
  <2>2. \A p : ~Supersedes(Verdict(c.id, p)) /\ Verdict(c.id, p).id = c.id
    BY OtherCalls
  <2>. QED
    BY <1>3, <1>4, <1>5, <2>1, <2>2
<1>. QED
  BY <1>1, <1>2, <1>5 DEF PipelinePlan

(* A commit hands the queue on: what its first call has done to the view is  *)
(* what the rest of the queue counted on.                                   *)
LEMMA PairedShift ==
  ASSUME IInv, QueueInv, Logged, todo' = Tail(todo), up'
  PROVE  QueueInv'
<1>. DEFINE c == Head(todo)
<1>1. /\ Len(todo) \in Nat \ {0} /\ Len(todo') = Len(todo) - 1 /\ c = todo[1]
      /\ \A k \in 1 .. Len(todo') : todo'[k] = todo[k + 1] /\ k + 1 \in 2 .. Len(todo)
  BY QueueTail DEF Logged
<1>2. /\ view \in Views /\ c.id \in Ids
      /\ view' = [view EXCEPT ![c.id] = Materialise(c)]
      /\ c \in CreateCall => Materialise(c).lc = "CANDIDATE"
      /\ c \in MoveCall => Materialise(c) = After(c, view[c.id])
  BY ViewEffect
  DEF IInv, Shaped, TypeOK, CreateCall, MoveCall, NoteCall, MarkCall, DeleteCall
<1>3. c \in MoveCall => view'[c.id].lc = c.to
  BY <1>2, AfterKeeps DEF Views, MoveCall
<1>4. c \in CreateCall => view'[c.id].lc = "CANDIDATE"
  BY <1>2 DEF Views
<1>. HIDE DEF c
<1>5. ASSUME NEW k \in 1 .. Len(todo'), Supersedes(todo'[k])
      PROVE  /\ todo'[k].repl \in Ids
             /\ k + 1 = Len(todo') /\ todo'[k + 1] = Move(todo'[k].repl, "ACTIVE")
             /\ IF k = 1 THEN view'[todo'[k].repl].lc = "VALIDATED"
                         ELSE todo'[k - 1] = Move(todo'[k].repl, "VALIDATED")
  <2>1. todo'[k] = todo[k + 1] /\ k + 1 \in 2 .. Len(todo)
    BY <1>1
  <2>. DEFINE r == todo'[k].repl
  <2>2. /\ r \in Ids /\ k + 2 = Len(todo) /\ todo[k + 2] = Move(r, "ACTIVE")
        /\ todo[k] = Move(r, "VALIDATED")
    <3>1. Supersedes(todo[k + 1]) /\ k + 1 \in 1 .. Len(todo) /\ k + 1 # 1
          /\ (k + 1) + 1 = k + 2 /\ (k + 1) - 1 = k
      BY <1>1, <1>5, <2>1
    <3>. QED
      BY <2>1, <3>1 DEF QueueInv, Paired
  <2>. HIDE DEF r
  <2>3. k + 1 = Len(todo') /\ todo'[k + 1] = Move(r, "ACTIVE")
    <3>a. Len(todo) \in Nat /\ Len(todo') = Len(todo) - 1
      BY <1>1
    <3>d. \A m \in Nat, n \in Int : n = m - 1 /\ k \in 1 .. n => k \in Nat \ {0}
      OBVIOUS
    <3>b. k \in Nat \ {0} /\ k + 2 = Len(todo)
      BY <2>2, <3>a, <3>d
    <3>c. \A m \in Nat, n \in Int : n = m - 1 /\ k + 2 = m => k + 1 = n /\ k + 1 \in 1 .. n
      BY <3>b
    <3>1. k + 1 = Len(todo') /\ k + 1 \in 1 .. Len(todo') /\ (k + 1) + 1 = k + 2
      BY <3>a, <3>b, <3>c
    <3>2. todo'[k + 1] = todo[(k + 1) + 1]
      BY <1>1, <3>1
    <3>. QED
      BY <2>2, <3>1, <3>2
  <2>4. CASE k = 1
    <3>1. c = Move(r, "VALIDATED")
      BY <1>1, <2>2, <2>4
    <3>2. c \in MoveCall /\ c.to = "VALIDATED" /\ c.id = r
      BY <2>2, <3>1, CallTypes, OtherCalls DEF States
    <3>. QED
      BY <1>3, <2>2, <2>3, <2>4, <3>2 DEF r
  <2>5. CASE k # 1
    <3>1. todo'[k - 1] = todo[k]
      BY <1>1, <2>5
    <3>. QED
      BY <2>2, <2>3, <2>5, <3>1 DEF r
  <2>. QED
    BY <2>4, <2>5
<1>6. ASSUME NEW k \in 1 .. Len(todo'), Judges(todo'[k])
      PROVE  \/ k = 1 /\ view'[todo'[k].id].lc = "CANDIDATE"
             \/ k = 2 /\ Creates(todo', todo'[k].id)
  <2>1. todo'[k] = todo[k + 1] /\ k + 1 \in 2 .. Len(todo) /\ k + 1 # 1
    BY <1>1
  <2>2. k + 1 = 2 /\ Creates(todo, todo[k + 1].id)
    BY <1>6, <2>1 DEF QueueInv, Judged
  <2>3. k = 1 /\ c \in CreateCall /\ c.id = todo'[k].id
    BY <2>1, <2>2 DEF Creates, c
  <2>. QED
    BY <1>4, <2>3
<1>7. Paired(todo)'
  BY <1>5 DEF Paired
<1>8. Judged(todo)'
  BY <1>6 DEF Judged, Creates
<1>. QED
  BY <1>7, <1>8 DEF QueueInv

LEMMA QueueStep ==
  ASSUME IInv, GCInv, QueueInv, [PipelineNext]_vars, IInv'
  PROVE  QueueInv'
<1>1. CASE todo' = <<>>
  BY <1>1 DEF QueueInv, Paired, Judged
<1>2. CASE Queues
  <2>1. view' = view /\ Paired(todo') /\ Judged(todo')
    BY <1>2, PlanQueue DEF Queues, Start
  <2>. QED
    BY <2>1 DEF QueueInv, Paired, Judged, Creates
<1>3. CASE Rested
  BY <1>3 DEF Rested, QueueInv, Paired, Judged, Creates
<1>4. CASE Opened
  <2>1. todo' = <<>>
    BY <1>4 DEF Opened, IInv
  <2>. QED
    BY <1>1, <2>1
<1>5. CASE Collect
  <2>1. \A k \in 1 .. Len(todo') : todo'[k] \in DeleteCall
    BY <1>5, CollectedDeletes
  <2>2. \A k \in 1 .. Len(todo') : ~Supersedes(todo'[k]) /\ ~Judges(todo'[k])
    BY <2>1, OtherCalls
  <2>. QED
    BY <2>2 DEF QueueInv, Paired, Judged
<1>6. CASE Logged
  <2>1. todo' = <<>> \/ (todo' = Tail(todo) /\ up')
    BY <1>6 DEF Logged, IInv
  <2>. QED
    BY <1>1, <1>6, <2>1, PairedShift
<1>. QED
  BY <1>1, <1>2, <1>3, <1>4, <1>5, <1>6, PipelineCases DEF Failed, Stopped

LEMMA QueueInit == Init => QueueInv
BY DEF Init, QueueInv, Paired, Judged

LEMMA PipelineInv == IInv /\ [PipelineNext]_vars => [Next]_vars /\ IInv'
BY PipelineCases, NextPreserves

(* sync_active() (lifecycle.py:656-690), whatever fails or crashes: when the  *)
(* current artifact of a slot is superseded with one activation left, the    *)
(* artifact to activate is VALIDATED, so that the activation is a legal one. *)
THEOREM PairsComplete == PipelineSpec => PromotionPairCompletes
<1>1. ASSUME IInv, QueueInv, [PipelineNext]_vars,
             NEW i \in Ids, NEW r \in Ids,
             todo # <<>>, todo' = <<Move(r, "ACTIVE")>>,
             view[i].lc = "ACTIVE", view'[i].lc = "SUPERSEDED"
      PROVE  view[r].lc = "VALIDATED"
  <2>. DEFINE c == Head(todo)
  <2>1. Logged /\ todo' = Tail(todo) /\ up'
    <3>1. NoView[i].lc = "ABSENT"
      BY DEF NoView, Absent
    <3>2. view' # view /\ view' # NoView /\ todo' # <<>>
      BY <1>1, <3>1
    <3>3. ~Queues /\ ~Failed /\ ~Stopped /\ ~Opened /\ ~Rested /\ ~Collect
      BY <1>1, <3>2 DEF Queues, Start, Failed, Stopped, Opened, Rested, Collect, IInv
    <3>. QED
      BY <1>1, <3>2, <3>3, PipelineCases DEF Logged, Committing
  <2>2. /\ Len(todo) \in Nat \ {0} /\ Len(todo') = Len(todo) - 1 /\ c = todo[1]
        /\ \A k \in 1 .. Len(todo') : todo'[k] = todo[k + 1] /\ k + 1 \in 2 .. Len(todo)
    BY <1>1, <2>1, QueueTail
  <2>3. Len(todo) = 2 /\ todo[2] = Move(r, "ACTIVE")
    <3>1. Len(todo') = 1 /\ todo'[1] = Move(r, "ACTIVE")
      BY <1>1
    <3>a. Len(todo) \in Nat /\ Len(todo') = Len(todo) - 1
      BY <2>2
    <3>b. \A m \in Nat : m - 1 = 1 => m = 2
      OBVIOUS
    <3>c. Len(todo) = 2
      BY <3>a, <3>b, <3>1, Zenon
    <3>2. Len(todo) = 2 /\ 1 \in 1 .. Len(todo') /\ 1 + 1 = 2
      BY <3>c, <3>1
    <3>3. todo'[1] = todo[1 + 1]
      BY <2>2, <3>2
    <3>. QED
      BY <3>1, <3>2, <3>3
  <2>4. /\ view \in Views /\ c.id \in Ids
        /\ view' = [view EXCEPT ![c.id] = Materialise(c)]
        /\ \/ Materialise(c).lc = "CANDIDATE"
           \/ Materialise(c) = Absent
           \/ /\ c \in MoveCall \cup NoteCall \cup MarkCall
              /\ Materialise(c) = After(c, view[c.id])
    BY <1>1, <2>1, ViewEffect DEF IInv, Shaped, TypeOK
  <2>5. i = c.id /\ view'[i] = Materialise(c)
    BY <1>1, <2>4 DEF Views
  <2>6. Supersedes(c)
    <3>1. /\ c \in MoveCall \cup NoteCall \cup MarkCall
          /\ Materialise(c).lc = (IF c.kind = "move" THEN c.to ELSE view[i].lc)
      BY <1>1, <2>4, <2>5, AfterKeeps DEF Absent
    <3>. QED
      BY <1>1, <2>5, <3>1 DEF Supersedes, MoveCall, NoteCall, MarkCall
  <2>7. todo[2] = Move(c.repl, "ACTIVE") /\ view[c.repl].lc = "VALIDATED"
    <3>1. Supersedes(todo[1]) /\ 1 \in 1 .. Len(todo) /\ 1 + 1 = 2
      BY <2>2, <2>6
    <3>2. todo[1 + 1] = Move(todo[1].repl, "ACTIVE") /\ view[todo[1].repl].lc = "VALIDATED"
      BY <1>1, <3>1 DEF QueueInv, Paired
    <3>. QED
      BY <2>2, <3>1, <3>2
  <2>8. c.repl = r
    BY <2>3, <2>7 DEF Move
  <2>. QED
    BY <2>7, <2>8
<1>2. IInv /\ QueueInv /\ [PipelineNext]_vars =>
        [\A i \in Ids, r \in Ids :
           /\ todo # <<>> /\ todo' = <<Move(r, "ACTIVE")>>
           /\ view[i].lc = "ACTIVE" /\ view'[i].lc = "SUPERSEDED"
           => view[r].lc = "VALIDATED"]_vars
  BY <1>1
<1>3. IInv /\ GCInv /\ [PipelineNext]_vars => GCInv'
  BY PipelineInv, GCStep
<1>4. IInv /\ GCInv /\ QueueInv /\ [PipelineNext]_vars => QueueInv'
  BY PipelineInv, QueueStep
<1>. QED
  BY <1>2, <1>3, <1>4, InitHolds, PipelineInv, GCInit, QueueInit, PTL
  DEF PipelineSpec, PromotionPairCompletes

-----------------------------------------------------------------------------
(* Promotions to the end.  As long as nothing has failed, the replacement of *)
(* a superseded artifact has been activated, or its activation is what is    *)
(* left of the queue.                                                       *)

Troubled == {"CANDIDATE", "VALIDATED", "REJECTED"}

TookOver ==
  \A i \in In(replay, {"SUPERSEDED"}) :
    LET r == replay[i].by IN
    /\ r \in born
    /\ \/ replay[r].lc \notin Troubled
       \/ todo = <<Move(r, "ACTIVE")>> /\ replay[r].lc = "VALIDATED"

UntroubledInv == faults = 0 => up /\ view = replay /\ TookOver

LEMMA FaultlessCases ==
  ASSUME IInv, [PipelineNext]_vars, faults' = 0
  PROVE  /\ faults = 0
         /\ \/ Queues \/ Collect \/ Opened \/ Rested
            \/ Logged /\ up' /\ todo' = Tail(todo)
            \/ todo # <<>> /\ Raise(Head(todo))
<1>0. faults \in Nat
  BY ConstantsAssumption DEF IInv, Shaped, TypeOK, ConstantsAssumption
<1>1. CASE Step
  <2>. DEFINE c == Head(todo)
  <2>1. todo # <<>> /\ (\/ Commit(c) \/ Raise(c) \/ AppendFails(c) \/ SaveFails(c)
                       \/ CrashAfterAppend(c) \/ CrashMidAppend(c))
    BY <1>1 DEF Step
  <2>2. ~(AppendFails(c) \/ SaveFails(c) \/ CrashAfterAppend(c) \/ CrashMidAppend(c))
    BY <1>0 DEF AppendFails, SaveFails, CrashAfterAppend, CrashMidAppend, Strike
  <2>3. CASE Commit(c)
    BY <2>1, <2>3 DEF Commit, Committing, Logged
  <2>4. CASE Raise(c)
    BY <2>1, <2>4 DEF Raise
  <2>. QED
    BY <2>1, <2>2, <2>3, <2>4
<1>2. CASE Environment
  <2>1. ~(Crash \/ LoseDisk \/ \E i \in Ids : EditDisk(i))
    BY <1>0 DEF Crash, LoseDisk, EditDisk, Strike
  <2>2. CASE Open
    BY <2>2 DEF Open, Opened
  <2>3. CASE Tick
    BY <2>3 DEF Tick, Rested
  <2>. QED
    BY <1>2, <2>1, <2>2, <2>3 DEF Environment
<1>3. CASE UNCHANGED vars
  BY <1>3 DEF vars, logVars, Rested
<1>4. CASE Collect
  BY <1>4 DEF Collect
<1>5. CASE ~Step /\ ~Environment /\ ~Collect /\ ~UNCHANGED vars
  <2>1. Queues
    BY <1>5, OperationsQueue
  <2>. QED
    BY <2>1 DEF Queues, Start
<1>. QED
  BY <1>1, <1>2, <1>3, <1>4, <1>5

LEMMA LoggedAgrees ==
  ASSUME IInv, Logged, view = replay, up'
  PROVE  view' = replay'
<1>1. Materialise(Head(todo)) = ReplayEvent(Head(todo))
  BY SidesAgree DEF Logged
<1>2. view' = Applied(Head(todo))
  BY ViewEffect
<1>. QED
  BY <1>1, <1>2, EventEffect DEF Applied

LEMMA TookOverStep ==
  ASSUME IInv, BirthInv, QueueInv, view = replay, TookOver, Logged, todo' = Tail(todo)
  PROVE  TookOver'
<1>. DEFINE c == Head(todo)
<1>1. /\ todo # <<>> /\ c = todo[1] /\ Len(todo) \in Nat \ {0} /\ 1 \in 1 .. Len(todo)
      /\ Len(todo') = Len(todo) - 1
      /\ \A k \in 1 .. Len(todo') : todo'[k] = todo[k + 1]
      /\ todo' \in Seq(Call)
  BY QueueTail, HeadTailProperties DEF Logged, IInv, Shaped, TypeOK
<1>2. /\ c.id \in Ids /\ replay \in Views /\ born \subseteq Ids
      /\ replay' = [replay EXCEPT ![c.id] = ReplayEvent(c)]
      /\ born \subseteq born'
      /\ \/ c \in CreateCall /\ ReplayEvent(c).lc = "CANDIDATE"
         \/ ReplayEvent(c) = Absent
         \/ /\ c \in MoveCall \cup NoteCall \cup MarkCall
            /\ ReplayEvent(c) = After(c, replay[c.id])
  BY EventEffect DEF IInv, Shaped, TypeOK
<1>3. \A i \in Ids : replay'[i] = IF i = c.id THEN ReplayEvent(c) ELSE replay[i]
  BY <1>2 DEF Views
<1>4. c \in MoveCall => <<replay[c.id].lc, c.to>> \in Edges
  BY DEF Logged, Committing, Legal, MoveCall
<1>5. c \in CreateCall => c.id \notin born
  BY <1>1, NewIsUnborn DEF BirthInv, HeadNew, IInv, Shaped
<1>. HIDE DEF c
<1>6. ASSUME NEW i \in Ids, replay'[i].lc = "SUPERSEDED"
      PROVE  \/ Supersedes(c) /\ i = c.id /\ replay'[i].by = c.repl
             \/ replay[i].lc = "SUPERSEDED" /\ replay'[i].by = replay[i].by
  <2>1. CASE i # c.id
    BY <1>3, <1>6, <2>1
  <2>2. CASE i = c.id
    <3>1. replay'[i] = ReplayEvent(c)
      BY <1>3, <2>2
    <3>2. /\ c \in MoveCall \cup NoteCall \cup MarkCall
          /\ ReplayEvent(c) = After(c, replay[i])
      BY <1>2, <1>6, <2>2, <3>1 DEF Absent
    <3>3. /\ replay'[i].lc = (IF c.kind = "move" THEN c.to ELSE replay[i].lc)
          /\ replay'[i].by = (IF c.kind = "move" /\ c.to = "SUPERSEDED" THEN c.repl
                              ELSE replay[i].by)
      BY <3>1, <3>2, AfterKeeps
    <3>4. c.kind = "move" <=> c \in MoveCall
      BY <3>2 DEF MoveCall, NoteCall, MarkCall
    <3>. QED
      BY <1>6, <2>2, <3>3, <3>4 DEF Supersedes
  <2>. QED
    BY <2>1, <2>2
<1>7. ASSUME NEW i \in Ids, Supersedes(c), i = c.id, replay'[i].by = c.repl
      PROVE  LET r == replay'[i].by IN
             r \in born' /\ todo' = <<Move(r, "ACTIVE")>> /\ replay'[r].lc = "VALIDATED"
  <2>. DEFINE r == c.repl
  <2>1. /\ r \in Ids /\ Len(todo) = 2 /\ todo[2] = Move(r, "ACTIVE")
        /\ replay[r].lc = "VALIDATED"
    <3>1. Supersedes(todo[1])
      BY <1>1, <1>7
    <3>2. /\ todo[1].repl \in Ids /\ 1 + 1 = Len(todo)
          /\ todo[1 + 1] = Move(todo[1].repl, "ACTIVE")
          /\ view[todo[1].repl].lc = "VALIDATED"
      BY <1>1, <3>1 DEF QueueInv, Paired
    <3>3. 1 + 1 = 2
      OBVIOUS
    <3>4. todo[1].repl = r
      BY <1>1
    <3>. HIDE DEF r
    <3>5. r \in Ids /\ 2 = Len(todo) /\ todo[2] = Move(r, "ACTIVE") /\ view[r].lc = "VALIDATED"
      BY <3>2, <3>3, <3>4
    <3>. QED
      BY <3>5
  <2>2. Len(todo') = 1 /\ todo'[1] = Move(r, "ACTIVE")
    <3>1. Len(todo') = 1 /\ 1 \in 1 .. Len(todo')
      BY <1>1, <2>1
    <3>2. todo'[1] = todo[1 + 1]
      BY <1>1, <3>1
    <3>. QED
      BY <2>1, <3>1, <3>2
  <2>3. todo' = <<Move(r, "ACTIVE")>>
    <3>. DEFINE last == Move(r, "ACTIVE")
    <3>. HIDE DEF last
    <3>1. Len(todo') = 1 /\ todo'[1] = last
      BY <2>2 DEF last
    <3>2. todo' \in Seq(Call) /\ last \in Call
      BY <1>1, <3>1, ElementOfSeq
    <3>. DEFINE one == <<last>>
    <3>3. one \in Seq(Call) /\ Len(one) = 1 /\ one[1] = last
      BY <3>2
    <3>. HIDE DEF one
    <3>5. \A k \in 1 .. Len(todo') : todo'[k] = one[k]
      BY <3>1, <3>3
    <3>6. todo' = one
      BY <3>1, <3>2, <3>3, <3>5, SeqEqual
    <3>4. todo' = <<last>>
      BY <3>6 DEF one
    <3>. QED
      BY <3>4 DEF last
  <2>4. r # c.id
    <3>1. replay[c.id].lc = "ACTIVE"
      BY <1>4, <1>7 DEF Supersedes, Edges
    <3>. QED
      BY <2>1, <3>1
  <2>5. replay'[r].lc = "VALIDATED"
    BY <1>3, <2>1, <2>4
  <2>6. r \in born'
    <3>1. replay[r] # Absent
      BY <2>1 DEF Absent
    <3>. QED
      BY <1>2, <2>1, <3>1 DEF BirthInv
  <2>. QED
    BY <1>7, <2>3, <2>5, <2>6
<1>8. ASSUME NEW i \in Ids, replay[i].lc = "SUPERSEDED", replay'[i].by = replay[i].by
      PROVE  LET r == replay'[i].by IN r \in born' /\ replay'[r].lc \notin Troubled
  <2>. DEFINE r == replay[i].by
  <2>1. /\ r \in born /\ r \in Ids /\ r \in born'
        /\ \/ replay[r].lc \notin Troubled
           \/ todo = <<Move(r, "ACTIVE")>> /\ replay[r].lc = "VALIDATED"
    BY <1>2, <1>8 DEF TookOver, In
  <2>2. CASE todo = <<Move(r, "ACTIVE")>>
    <3>1. c = Move(r, "ACTIVE")
      BY <1>1, <2>2
    <3>2. c \in MoveCall /\ c.id = r /\ c.to = "ACTIVE" /\ c.kind = "move"
          /\ c \notin CreateCall
      BY <2>1, <3>1, CallTypes, CallKinds DEF Move, States
    <3>3. ReplayEvent(c).lc \in {"ACTIVE", "ABSENT"}
      BY <1>2, <3>2, AfterKeeps DEF Absent
    <3>4. replay'[r].lc \notin Troubled
      BY <1>3, <2>1, <3>2, <3>3 DEF Troubled
    <3>. QED
      BY <1>8, <2>1, <3>4
  <2>3. CASE replay[r].lc \notin Troubled
    <3>1. CASE r # c.id
      BY <1>3, <1>8, <2>1, <2>3, <3>1
    <3>2. CASE r = c.id
      <4>1. c \notin CreateCall
        BY <1>5, <2>1, <3>2
      <4>2. CASE ReplayEvent(c) = Absent
        BY <1>3, <1>8, <2>1, <3>2, <4>2 DEF Absent, Troubled
      <4>3. CASE /\ c \in MoveCall \cup NoteCall \cup MarkCall
                 /\ ReplayEvent(c) = After(c, replay[c.id])
        <5>1. replay'[r].lc = (IF c.kind = "move" THEN c.to ELSE replay[r].lc)
          BY <1>3, <2>1, <3>2, <4>3, AfterKeeps
        <5>2. c.kind = "move" => c \in MoveCall
          BY <4>3 DEF MoveCall, NoteCall, MarkCall
        <5>3. ~Judges(c)
          <6>1. Creates(todo, c.id) => c \in CreateCall
            BY <1>1 DEF Creates, c
          <6>2. Judges(c) => view[c.id].lc = "CANDIDATE"
            BY <1>1 DEF QueueInv, Judged
          <6>. QED
            BY <2>3, <3>2, <6>2 DEF Troubled
        <5>4. c \in MoveCall => c.to \notin Troubled
          BY <1>4, <5>3 DEF Judges, Edges, Troubled
        <5>. QED
          BY <1>8, <2>1, <2>3, <5>1, <5>2, <5>4
      <4>. QED
        BY <1>2, <4>1, <4>2, <4>3
    <3>. QED
      BY <3>1, <3>2
  <2>. QED
    BY <2>1, <2>2, <2>3
<1>9. \A i \in Ids : replay'[i].lc = "SUPERSEDED" =>
        LET r == replay'[i].by IN
        /\ r \in born'
        /\ \/ replay'[r].lc \notin Troubled
           \/ todo' = <<Move(r, "ACTIVE")>> /\ replay'[r].lc = "VALIDATED"
  BY <1>6, <1>7, <1>8
<1>. QED
  BY <1>9 DEF TookOver, In

LEMMA UntroubledStep ==
  ASSUME IInv, BirthInv, QueueInv, UntroubledInv, [PipelineNext]_vars
  PROVE  UntroubledInv'
<1>. SUFFICES ASSUME faults' = 0
              PROVE  up' /\ view' = replay' /\ TookOver'
  BY DEF UntroubledInv
<1>1. faults = 0 /\ up /\ view = replay /\ TookOver
  BY FaultlessCases DEF UntroubledInv
<1>2. CASE Rested
  BY <1>1, <1>2 DEF Rested, logVars, TookOver, In
<1>3. ASSUME UNCHANGED logVars, UNCHANGED <<up, view>>,
             \A r : replay[r].lc = "VALIDATED" => todo # <<Move(r, "ACTIVE")>>
      PROVE  up' /\ view' = replay' /\ TookOver'
  BY <1>1, <1>3 DEF logVars, TookOver, In
<1>4. CASE Queues
  <2>1. todo = <<>>
    BY <1>4 DEF Queues, Start
  <2>2. \A r : todo # <<Move(r, "ACTIVE")>>
    BY <2>1
  <2>. QED
    BY <1>3, <1>4, <2>2 DEF Queues, Start
<1>5. CASE Collect
  <2>1. \A r : Head(todo) # Move(r, "ACTIVE")
    BY <1>5 DEF Collect, Move
  <2>2. \A r : todo # <<Move(r, "ACTIVE")>>
    BY <2>1
  <2>. QED
    BY <1>3, <1>5, <2>2 DEF Collect
<1>6. CASE Opened
  BY <1>1, <1>6 DEF Opened
<1>7. CASE todo # <<>> /\ Raise(Head(todo))
  <2>1. \A r : todo = <<Move(r, "ACTIVE")>> => Head(todo) = Move(r, "ACTIVE")
    OBVIOUS
  <2>2. \A r : replay[r].lc = "VALIDATED" => Legal(Move(r, "ACTIVE"))
    BY <1>1 DEF Legal, Move, Edges
  <2>. QED
    BY <1>3, <1>7, <2>1, <2>2 DEF Raise
<1>8. CASE Logged /\ up' /\ todo' = Tail(todo)
  BY <1>1, <1>8, TookOverStep, LoggedAgrees
<1>. QED
  BY <1>2, <1>4, <1>5, <1>6, <1>7, <1>8, FaultlessCases

LEMMA UntroubledInit == Init => UntroubledInv
BY DEF Init, UntroubledInv, TookOver, In, NoView, Absent

(* sync_active() (lifecycle.py:656-690): through the pipeline, and as long   *)
(* as nothing has failed, a working artifact is never traded for one that    *)
(* stays behind; the policies and verdicts that follow do not change that.   *)
THEOREM ReplacementsTakeOver ==
  ASSUME OwnIdentities
  PROVE  PipelineSpec => []ReplacementTookOver
<1>1. IInv /\ BirthInv /\ [PipelineNext]_vars => BirthInv'
  BY PipelineInv, BirthStep
<1>2. IInv /\ GCInv /\ [PipelineNext]_vars => GCInv'
  BY PipelineInv, GCStep
<1>3. IInv /\ GCInv /\ QueueInv /\ [PipelineNext]_vars => QueueInv'
  BY PipelineInv, QueueStep
<1>4. IInv /\ BirthInv /\ QueueInv /\ UntroubledInv /\ [PipelineNext]_vars => UntroubledInv'
  BY UntroubledStep
<1>5. UntroubledInv => ReplacementTookOver
  <2>1. \A r : <<>> # <<Move(r, "ACTIVE")>>
    OBVIOUS
  <2>. QED
    BY <2>1 DEF UntroubledInv, TookOver, ReplacementTookOver, Troubled
<1>. QED
  BY <1>1, <1>2, <1>3, <1>4, <1>5, InitHolds, PipelineInv, BirthInit, GCInit, QueueInit,
     UntroubledInit, PTL
  DEF PipelineSpec
=============================================================================
