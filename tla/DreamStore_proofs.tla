--------------------------- MODULE DreamStore_proofs ---------------------------
(***************************************************************************)
(* Proofs about DreamStore, for every set of processes, every timeout and  *)
(* every number of faults.                                                 *)
(***************************************************************************)
EXTENDS DreamStore, FiniteSetTheorems, TLAPS

(* What the lock file says of the process that made it and is still alive.  *)
LockShape ==
  lock.by # NoOne =>
    /\ pc[lock.by] \in Owning
    /\ pc[lock.by] = "created" => lock.pid = NoOne /\ lock.age <= LockTimeout
    /\ pc[lock.by] # "created" => lock.pid = lock.by

(* A verdict that is not out of date is about the lock that is there, and a  *)
(* lock is condemned only when the process that made it has died.            *)
Judged ==
  \A p \in Procs \ outdated :
    /\ pc[p] = "probe" => owner[p] # NoOne /\ lock.pid = owner[p]
    /\ pc[p] = "stat" => lock \in Locks /\ lock.pid = NoOne
    /\ pc[p] = "reclaim" => lock \in Locks /\ lock.by = NoOne

(* Unless a lock was misjudged, a process between its creation of the lock   *)
(* and the removal is the one the lock names.                                *)
Held == misjudged \/ \A p \in Procs : pc[p] \in Owning => lock.by = p

(* The holder's copy of the counter is the counter, a full dream is due as   *)
(* long as it lasts.                                                         *)
Undisturbed ==
  misjudged \/
    /\ attempts = counted
    /\ \A p \in Procs : pc[p] = "counting" => reg[p] = attempts
    /\ \A p \in Procs : pc[p] \in {"full", "counting"} => Due

(* The process whose PID stands in a lock that nobody holds has died, unless *)
(* its _release has failed.                                                  *)
Stray ==
  lock.by = NoOne /\ lock.pid # NoOne => unreleased \/ pc[lock.pid] = "dead"

Safe == TypeOK /\ LockShape /\ Judged /\ Held
IInv == Safe /\ Undisturbed

-----------------------------------------------------------------------------
(* The steps of the specification, one by one. *)
LEMMA Steps ==
  ASSUME [Next]_vars
  PROVE  \/ Tick
         \/ \E p \in Procs :
              \/ Begin(p) \/ Create(p) \/ WritePid(p) \/ Read(p) \/ Probe(p)
              \/ Stat(p) \/ Reclaim(p) \/ Decide(p) \/ LoadAttempts(p)
              \/ SaveAttempts(p) \/ Finish(p)
              \/ \E score \in Scores : SaveRecipe(p, score)
              \/ ReadOwn(p) \/ Unlink(p) \/ Fail(p) \/ Crash(p)
              \/ AcquireFails(p) \/ ReadFails(p) \/ WriteFails(p) \/ CloseFails(p)
              \/ ReleaseFails(p)
         \/ UNCHANGED vars
BY DEF Next, Failing, Run, Acquiring, Dreaming, Releasing

(* A lock file is there if and only if the variable is a lock.  *)
LEMMA LockThere ==
  ASSUME lock \in Locks \cup {NoLock}
  PROVE  /\ Locked <=> lock \in Locks
         /\ lock.by # NoOne => lock \in Locks
         /\ lock.pid # NoOne => lock \in Locks
         /\ ~Locked => lock.by = NoOne /\ lock.pid = NoOne
<1>1. \A l \in Locks : l.age >= 0
  BY ConstantsAssumption DEF Locks, ConstantsAssumption
<1>2. NoLock.by = NoOne /\ NoLock.pid = NoOne /\ NoLock.age = -1
  BY DEF NoLock
<1>. QED
  BY <1>1, <1>2 DEF Locked

LEMMA LockTypes ==
  ASSUME NEW l \in Locks
  PROVE  l.age \in Nat /\ l.by \in Procs \cup {NoOne} /\ l.pid \in Procs \cup {NoOne}
BY ConstantsAssumption DEF Locks, ConstantsAssumption

(* Locks that differ from a lock in one field.  *)
LEMMA LockFields ==
  ASSUME NEW l \in Locks
  PROVE  /\ [l EXCEPT !.by = NoOne] \in Locks
         /\ [l EXCEPT !.by = NoOne].by = NoOne
         /\ [l EXCEPT !.by = NoOne].pid = l.pid
         /\ [l EXCEPT !.by = NoOne].age = l.age
         /\ l.age <= LockTimeout =>
              /\ [l EXCEPT !.age = l.age + 1] \in Locks
              /\ [l EXCEPT !.age = l.age + 1].by = l.by
              /\ [l EXCEPT !.age = l.age + 1].pid = l.pid
              /\ [l EXCEPT !.age = l.age + 1].age = l.age + 1
         /\ l.age \in 0 .. LockTimeout + 1
         /\ l.by \in Procs \cup {NoOne} /\ l.pid \in Procs \cup {NoOne}
BY ConstantsAssumption DEF Locks, ConstantsAssumption

LEMMA LockMade ==
  ASSUME NEW p \in Procs \cup {NoOne}, NEW q \in Procs \cup {NoOne}
  PROVE  /\ [by |-> p, pid |-> q, age |-> 0] \in Locks
         /\ [by |-> p, pid |-> q, age |-> 0].by = p
         /\ [by |-> p, pid |-> q, age |-> 0].pid = q
         /\ [by |-> p, pid |-> q, age |-> 0].age = 0
<1>1. 0 \in 0 .. LockTimeout + 1
  BY ConstantsAssumption DEF ConstantsAssumption
<1>. QED
  BY <1>1 DEF Locks

LEMMA NoLockFields == NoLock.by = NoOne /\ NoLock.pid = NoOne
BY DEF NoLock

(* What a process changes when it leaves without having removed its lock.    *)
LEMMA Departures ==
  ASSUME TypeOK, NEW p \in Procs, WriteFails(p) \/ CloseFails(p) \/ ReleaseFails(p)
  PROVE  /\ Strike /\ pc[p] \in {"created", "releasing", "unlinking"}
         /\ \A q \in Procs \ {p} :
              /\ pc'[q] = pc[q] /\ owner'[q] = owner[q] /\ reg'[q] = reg[q]
         /\ pc'[p] \in {"idle", "dead"}
         /\ UNCHANGED <<misjudged, storeVars>>
         /\ lock' \in Locks \cup {NoLock}
         /\ lock.by # p => (lock' = lock /\ outdated' = outdated)
         /\ lock.by = p => (lock' \in Locks /\ lock'.by = NoOne)
         /\ \/ lock'.pid = lock.pid /\ outdated' = outdated
            \/ outdated' = {q \in Procs \ {p} : pc[q] \in {"probe", "stat", "reclaim"}}
<1>1. p # NoOne /\ NoOne \in Procs \cup {NoOne} /\ lock \in Locks \cup {NoLock}
  BY ConstantsAssumption DEF ConstantsAssumption, TypeOK
<1>2. lock.by = p => lock \in Locks
  BY <1>1, LockThere
<1>3. /\ Strike /\ pc[p] \in {"created", "releasing", "unlinking"} /\ Depart(p)
  BY DEF WriteFails, CloseFails, ReleaseFails
<1>4. /\ \A q \in Procs \ {p} : pc'[q] = pc[q] /\ owner'[q] = owner[q] /\ reg'[q] = reg[q]
      /\ pc'[p] \in {"idle", "dead"}
      /\ UNCHANGED <<misjudged, storeVars>>
  BY <1>3 DEF Depart, Leave, Goto, TypeOK
<1>5. CASE lock.by # p
  <2>1. lock' = lock /\ outdated' = outdated
    BY <1>5 DEF WriteFails, CloseFails, ReleaseFails, Disowned
  <2>. QED
    BY <1>1, <1>3, <1>4, <1>5, <2>1
<1>6. CASE lock.by = p /\ (WriteFails(p) \/ ReleaseFails(p))
  <2>1. lock' = [lock EXCEPT !.by = NoOne] /\ outdated' = outdated
    BY <1>6 DEF WriteFails, ReleaseFails, Disowned
  <2>. QED
    BY <1>1, <1>2, <1>3, <1>4, <1>6, <2>1, LockFields
<1>7. CASE lock.by = p /\ CloseFails(p)
  <2>1. /\ lock' = [by |-> NoOne, pid |-> p, age |-> 0]
        /\ outdated' = {q \in Procs \ {p} : pc[q] \in {"probe", "stat", "reclaim"}}
    BY <1>7 DEF CloseFails, LockBecomes, Judging
  <2>. QED
    BY <1>1, <1>3, <1>4, <1>7, <2>1, LockMade
<1>. QED
  BY <1>5, <1>6, <1>7

-----------------------------------------------------------------------------
(* Types. *)

LEMMA InitTyped == Init => TypeOK
<1> SUFFICES ASSUME Init PROVE TypeOK
  OBVIOUS
<1>1. "idle" \in Places
  BY DEF Places
<1>2. pc \in [Procs -> Places]
  BY <1>1 DEF Init
<1>3. MaxAge \in 0 .. MaxAge /\ 0 \in 0 .. MaxFaults
  BY ConstantsAssumption DEF ConstantsAssumption
<1>. QED
  BY <1>2, <1>3 DEF Init, TypeOK

LEMMA TypePreserved == TypeOK /\ [Next]_vars => TypeOK'
<1> SUFFICES ASSUME TypeOK, [Next]_vars PROVE TypeOK'
  OBVIOUS
<1>. USE ConstantsAssumption DEF ConstantsAssumption, TypeOK, Places, Waiting, Owning, Working
<1>1. CASE UNCHANGED vars
  BY <1>1 DEF vars, lockVars, storeVars
<1>2. CASE Tick
  <2>1. lock' \in Locks \cup {NoLock}
    BY <1>2, LockFields, LockThere DEF Tick, Older
  <2>2. sinceFull' \in 0 .. MaxAge
    BY <1>2 DEF Tick
  <2>. QED
    BY <1>2, <2>1, <2>2 DEF Tick
<1>3. ASSUME NEW p \in Procs,
             Begin(p) \/ Read(p) \/ Probe(p) \/ Stat(p) \/ Decide(p) \/ ReadOwn(p)
      PROVE  TypeOK'
  <2>1. lock.pid \in Procs \cup {NoOne}
    BY LockFields, NoLockFields
  <2>. QED
    BY <1>3, <2>1 DEF Begin, Read, Probe, Stat, Decide, ReadOwn, GiveUp, Leave, Goto,
                      lockVars, storeVars, locals
<1>4. ASSUME NEW p \in Procs, Create(p) \/ WritePid(p) \/ Reclaim(p) \/ Unlink(p)
      PROVE  TypeOK'
  <2>1. lock' \in Locks \cup {NoLock}
    BY <1>4, LockMade DEF Create, WritePid, Reclaim, Unlink, LockBecomes
  <2>2. outdated' \subseteq Procs
    BY <1>4 DEF Create, WritePid, Reclaim, Unlink, LockBecomes
  <2>3. misjudged' \in BOOLEAN
    BY <1>4 DEF Create, WritePid, Reclaim, Unlink
  <2>. QED
    BY <1>4, <2>1, <2>2, <2>3
       DEF Create, WritePid, Reclaim, Unlink, Leave, Goto, storeVars, locals
<1>5. ASSUME NEW p \in Procs,
             LoadAttempts(p) \/ SaveAttempts(p) \/ Finish(p)
               \/ \E score \in Scores : SaveRecipe(p, score)
      PROVE  TypeOK'
  BY <1>5 DEF LoadAttempts, SaveAttempts, Finish, SaveRecipe, Goto, lockVars, storeVars
<1>6. ASSUME NEW p \in Procs, Fail(p)
      PROVE  TypeOK'
  BY <1>6 DEF Fail, Strike, Goto, lockVars, storeVars, locals
<1>7. ASSUME NEW p \in Procs, Crash(p)
      PROVE  TypeOK'
  <2>1. lock' \in Locks \cup {NoLock}
    BY <1>7, LockFields, LockThere DEF Crash, Disowned
  <2>. QED
    BY <1>7, <2>1 DEF Crash, Strike, Leave, Goto, storeVars
<1>8. ASSUME NEW p \in Procs, AcquireFails(p) \/ ReadFails(p)
      PROVE  TypeOK'
  BY <1>8 DEF AcquireFails, ReadFails, GiveUp, Strike, Leave, Goto, storeVars, locals
<1>9. ASSUME NEW p \in Procs, WriteFails(p) \/ CloseFails(p) \/ ReleaseFails(p)
      PROVE  TypeOK'
  <2>1. lock' \in Locks \cup {NoLock} /\ Strike /\ UNCHANGED <<misjudged, storeVars>>
    BY <1>9, Departures
  <2>2. outdated' \subseteq Procs
    BY <1>9 DEF WriteFails, CloseFails, ReleaseFails, LockBecomes
  <2>3. Depart(p)
    BY <1>9 DEF WriteFails, CloseFails, ReleaseFails
  <2>4. unreleased' \in BOOLEAN
    BY <2>3 DEF Depart
  <2>5. /\ pc' \in [Procs -> Places] /\ owner' \in [Procs -> Procs \cup {NoOne}]
        /\ snap' \in [Procs -> Scores \cup {0}] /\ reg' \in [Procs -> Nat]
    BY <2>3 DEF Depart, Leave, Goto
  <2>. QED
    BY <2>1, <2>2, <2>4, <2>5 DEF Strike, storeVars
<1>. QED
  BY <1>1, <1>2, <1>3, <1>4, <1>5, <1>6, <1>7, <1>8, <1>9, Steps

-----------------------------------------------------------------------------
(* The lock. *)

(* The lock names the process that made it until that process removes it.   *)
LEMMA LockShapePreserved == TypeOK /\ LockShape /\ [Next]_vars => LockShape'
<1> SUFFICES ASSUME TypeOK, LockShape, [Next]_vars PROVE LockShape'
  OBVIOUS
<1>0. /\ pc \in [Procs -> Places] /\ lock \in Locks \cup {NoLock}
      /\ lock.by \in Procs \cup {NoOne}
  BY LockFields, NoLockFields DEF TypeOK
<1>. USE ConstantsAssumption, <1>0 DEF ConstantsAssumption, LockShape, Owning, Working
<1>1. CASE UNCHANGED vars
  BY <1>1 DEF vars, lockVars
<1>2. CASE Tick
  <2>1. CASE Locked /\ lock.age <= LockTimeout
    <3>1. lock \in Locks /\ lock' = [lock EXCEPT !.age = lock.age + 1]
      BY <1>2, <2>1, LockThere DEF Tick, Older
    <3>2. lock'.by = lock.by /\ lock'.pid = lock.pid /\ lock'.age = lock.age + 1
      BY <3>1, <2>1, LockFields
    <3>3. lock.pid = NoOne /\ lock.by # NoOne => lock'.age <= LockTimeout
      <4>1. lock.age \in Nat /\ LockTimeout \in Nat
        BY <3>1, LockTypes
      <4>2. lock.pid = NoOne /\ lock.by # NoOne => lock.age < LockTimeout
        BY <1>2, <2>1 DEF Tick, PromptPid
      <4>. QED
        BY <4>1, <4>2, <3>2
    <3>. QED
      BY <1>2, <3>2, <3>3 DEF Tick
  <2>2. CASE ~(Locked /\ lock.age <= LockTimeout)
    BY <1>2, <2>2 DEF Tick, Older
  <2>. QED
    BY <2>1, <2>2
<1>3. ASSUME NEW p \in Procs,
             Begin(p) \/ Read(p) \/ Probe(p) \/ Stat(p)
      PROVE  LockShape'
  <2>1. pc[p] \notin Owning /\ lock' = lock /\ \A q \in Procs \ {p} : pc'[q] = pc[q]
    BY <1>3 DEF Begin, Read, Probe, Stat, GiveUp, Leave, Goto, lockVars
  <2>. QED
    BY <2>1
<1>4. ASSUME NEW p \in Procs, Create(p)
      PROVE  LockShape'
  <2>1. CASE Locked
    BY <1>4, <2>1 DEF Create, Goto
  <2>2. CASE ~Locked
    BY <1>4, <2>2, LockMade DEF Create, LockBecomes, Goto
  <2>. QED
    BY <2>1, <2>2
<1>5. ASSUME NEW p \in Procs, WritePid(p)
      PROVE  LockShape'
  <2>1. CASE lock.by = p
    BY <1>5, <2>1, LockMade DEF WritePid, LockBecomes, Goto
  <2>2. CASE lock.by # p
    BY <1>5, <2>2 DEF WritePid, Goto
  <2>. QED
    BY <2>1, <2>2
<1>6. ASSUME NEW p \in Procs, Reclaim(p) \/ Unlink(p)
      PROVE  LockShape'
  <2>1. lock' = NoLock
    BY <1>6 DEF Reclaim, Unlink, LockBecomes
  <2>. QED
    BY <2>1, NoLockFields
<1>7. ASSUME NEW p \in Procs,
             Decide(p) \/ LoadAttempts(p) \/ SaveAttempts(p) \/ Finish(p)
               \/ Fail(p) \/ \E score \in Scores : SaveRecipe(p, score)
      PROVE  LockShape'
  <2>1. /\ lock' = lock /\ \A q \in Procs \ {p} : pc'[q] = pc[q]
        /\ pc[p] # "created" /\ pc'[p] # "created" /\ pc'[p] \in Owning
    BY <1>7 DEF Decide, LoadAttempts, SaveAttempts, Finish, Fail, SaveRecipe, Goto, lockVars
  <2>. QED
    BY <2>1
<1>8. ASSUME NEW p \in Procs, ReadOwn(p)
      PROVE  LockShape'
  <2>1. CASE lock.pid = p
    BY <1>8, <2>1 DEF ReadOwn, Goto, lockVars
  <2>2. CASE lock.pid # p
    BY <1>8, <2>2 DEF ReadOwn, Leave, Goto, lockVars
  <2>. QED
    BY <2>1, <2>2
<1>9. ASSUME NEW p \in Procs, Crash(p)
      PROVE  LockShape'
  <2>1. CASE lock.by = p
    BY <1>9, <2>1, LockFields, LockThere DEF Crash, Disowned
  <2>2. CASE lock.by # p
    BY <1>9, <2>2 DEF Crash, Disowned, Leave, Goto
  <2>. QED
    BY <2>1, <2>2
<1>10. ASSUME NEW p \in Procs, AcquireFails(p) \/ ReadFails(p)
       PROVE  LockShape'
  <2>1. pc[p] \notin Owning /\ lock' = lock /\ \A q \in Procs \ {p} : pc'[q] = pc[q]
    BY <1>10 DEF AcquireFails, ReadFails, GiveUp, Leave, Goto
  <2>. QED
    BY <2>1
<1>11. ASSUME NEW p \in Procs, WriteFails(p) \/ CloseFails(p) \/ ReleaseFails(p)
       PROVE  LockShape'
  BY <1>11, Departures
<1>. QED
  BY <1>1, <1>2, <1>3, <1>4, <1>5, <1>6, <1>7, <1>8, <1>9, <1>10, <1>11, Steps

(* A lock that is judged again after it has changed is judged as it is; one  *)
(* that is condemned stays condemned, since the dead do not come back.       *)
LEMMA JudgedPreserved == TypeOK /\ LockShape /\ Judged /\ [Next]_vars => Judged'
<1> SUFFICES ASSUME TypeOK, LockShape, Judged, [Next]_vars PROVE Judged'
  OBVIOUS
<1>0. /\ pc \in [Procs -> Places] /\ lock \in Locks \cup {NoLock}
      /\ owner \in [Procs -> Procs \cup {NoOne}]
      /\ lock.by \in Procs \cup {NoOne} /\ lock.pid \in Procs \cup {NoOne}
  BY LockFields, NoLockFields DEF TypeOK
<1>. USE ConstantsAssumption, <1>0 DEF ConstantsAssumption, Judged
<1>1. CASE UNCHANGED vars
  BY <1>1 DEF vars, lockVars
<1>2. CASE Tick
  <2>1. CASE Locked /\ lock.age <= LockTimeout
    <3>1. lock \in Locks /\ lock' \in Locks /\ lock'.by = lock.by /\ lock'.pid = lock.pid
      BY <1>2, <2>1, LockThere, LockFields DEF Tick, Older
    <3>. QED
      BY <1>2, <3>1 DEF Tick
  <2>2. CASE ~(Locked /\ lock.age <= LockTimeout)
    BY <1>2, <2>2 DEF Tick, Older
  <2>. QED
    BY <2>1, <2>2
<1>3. ASSUME NEW p \in Procs,
             \/ Begin(p) \/ Decide(p) \/ LoadAttempts(p) \/ SaveAttempts(p) \/ Finish(p)
             \/ Fail(p) \/ ReadOwn(p) \/ \E score \in Scores : SaveRecipe(p, score)
      PROVE  Judged'
  <2>1. /\ lock' = lock /\ outdated' = outdated
        /\ \A q \in Procs \ {p} : pc'[q] = pc[q] /\ owner'[q] = owner[q]
        /\ pc'[p] \notin {"probe", "stat", "reclaim"}
    BY <1>3 DEF Begin, Decide, LoadAttempts, SaveAttempts, Finish, Fail, ReadOwn,
                SaveRecipe, Leave, Goto, lockVars, locals
  <2>. QED
    BY <2>1
<1>4. ASSUME NEW p \in Procs, Create(p) \/ WritePid(p) \/ Reclaim(p) \/ Unlink(p)
      PROVE  Judged'
  <2>1. /\ \A q \in Procs \ {p} : pc'[q] = pc[q] /\ owner'[q] = owner[q]
        /\ pc'[p] \notin {"probe", "stat", "reclaim"}
        /\ \/ lock' = lock /\ outdated' = outdated
           \/ outdated' = {q \in Procs \ {p} : pc[q] \in {"probe", "stat", "reclaim"}}
    BY <1>4 DEF Create, WritePid, Reclaim, Unlink, LockBecomes, Leave, Goto, locals, Judging
  <2>. QED
    BY <2>1
<1>5. ASSUME NEW p \in Procs, Read(p)
      PROVE  Judged'
  <2>1. /\ \A q \in Procs \ {p} : pc'[q] = pc[q] /\ owner'[q] = owner[q]
        /\ lock' = lock
        /\ \A q \in Procs \ {p} : q \in outdated' <=> q \in outdated
        /\ p \notin outdated' <=> Locked
    BY <1>5 DEF Read, Goto
  <2>2. owner'[p] = lock.pid /\ pc'[p] = IF lock.pid = NoOne THEN "stat" ELSE "probe"
    BY <1>5 DEF Read, Goto
  <2>. QED
    BY <2>1, <2>2, LockThere
<1>6. ASSUME NEW p \in Procs, Probe(p)
      PROVE  Judged'
  <2>1. /\ \A q \in Procs \ {p} : pc'[q] = pc[q] /\ owner'[q] = owner[q]
        /\ lock' = lock
        /\ \A q \in Procs \ {p} : q \in outdated' <=> q \in outdated
    BY <1>6 DEF Probe, GiveUp, Leave, Goto, locals
  <2>2. CASE Alive(owner[p])
    BY <1>6, <2>1, <2>2 DEF Probe, GiveUp, Leave, Goto
  <2>3. CASE ~Alive(owner[p])
    <3>1. pc'[p] = "reclaim" /\ outdated' = outdated
      BY <1>6, <2>3 DEF Probe, Goto
    <3>2. p \notin outdated => lock \in Locks /\ lock.pid = owner[p]
      BY <1>6, LockThere DEF Probe
    <3>3. p \notin outdated => lock.by = NoOne
      <4>1. SUFFICES ASSUME p \notin outdated, lock.by # NoOne PROVE FALSE
        OBVIOUS
      <4>2. owner[p] # NoOne /\ lock.pid = owner[p]
        BY <1>6, <4>1 DEF Probe
      <4>3. lock.by = owner[p] /\ pc[owner[p]] \in Owning
        BY <4>1, <4>2 DEF LockShape
      <4>. QED
        BY <4>3, <2>3 DEF Alive, Owning, Working
    <3>. QED
      BY <2>1, <3>1, <3>2, <3>3
  <2>. QED
    BY <2>2, <2>3
<1>7. ASSUME NEW p \in Procs, Stat(p)
      PROVE  Judged'
  <2>1. /\ \A q \in Procs \ {p} : pc'[q] = pc[q] /\ owner'[q] = owner[q]
        /\ lock' = lock
        /\ \A q \in Procs \ {p} : q \in outdated' <=> q \in outdated
    BY <1>7 DEF Stat, GiveUp, Leave, Goto, locals
  <2>2. CASE lock.age > LockTimeout
    <3>1. pc'[p] = "reclaim" /\ outdated' = outdated
      BY <1>7, <2>2 DEF Stat, Goto
    <3>2. p \notin outdated => lock \in Locks /\ lock.pid = NoOne
      BY <1>7 DEF Stat
    <3>3. p \notin outdated => lock.by = NoOne
      <4>1. SUFFICES ASSUME p \notin outdated, lock.by # NoOne PROVE FALSE
        OBVIOUS
      <4>2. lock.age \in Int /\ lock.pid = NoOne
        BY <3>2, <4>1, LockTypes
      <4>3. lock.pid = lock.by \/ lock.age <= LockTimeout
        BY <4>1 DEF LockShape
      <4>. QED
        BY <4>1, <4>2, <4>3, <2>2
    <3>. QED
      BY <2>1, <3>1, <3>2, <3>3
  <2>3. CASE ~(lock.age > LockTimeout)
    BY <1>7, <2>1, <2>3 DEF Stat, GiveUp, Leave, Goto
  <2>. QED
    BY <2>2, <2>3
<1>8. ASSUME NEW p \in Procs, Crash(p)
      PROVE  Judged'
  <2>1. /\ \A q \in Procs \ {p} : pc'[q] = pc[q] /\ owner'[q] = owner[q]
        /\ \A q \in Procs \ {p} : q \in outdated' <=> q \in outdated
        /\ pc'[p] = "dead"
    BY <1>8 DEF Crash, Leave, Goto
  <2>2. CASE lock.by = p
    <3>1. lock \in Locks /\ lock' \in Locks /\ lock'.by = NoOne /\ lock'.pid = lock.pid
      BY <1>8, <2>2, LockThere, LockFields DEF Crash, Disowned
    <3>. QED
      BY <2>1, <3>1
  <2>3. CASE lock.by # p
    BY <1>8, <2>1, <2>3 DEF Crash, Disowned
  <2>. QED
    BY <2>2, <2>3
<1>9. ASSUME NEW p \in Procs, AcquireFails(p) \/ ReadFails(p)
      PROVE  Judged'
  <2>1. /\ \A q \in Procs \ {p} : pc'[q] = pc[q] /\ owner'[q] = owner[q]
        /\ lock' = lock
        /\ \A q \in Procs \ {p} : q \in outdated' <=> q \in outdated
        /\ pc'[p] = "idle" \/ p \in outdated'
    BY <1>9 DEF AcquireFails, ReadFails, GiveUp, Leave, Goto, locals
  <2>. QED
    BY <2>1
<1>10. ASSUME NEW p \in Procs, WriteFails(p) \/ CloseFails(p) \/ ReleaseFails(p)
       PROVE  Judged'
  <2>1. /\ \A q \in Procs \ {p} : pc'[q] = pc[q] /\ owner'[q] = owner[q]
        /\ pc'[p] \in {"idle", "dead"}
        /\ lock.by # p => (lock' = lock /\ outdated' = outdated)
        /\ lock.by = p => (lock' \in Locks /\ lock'.by = NoOne)
        /\ \/ lock'.pid = lock.pid /\ outdated' = outdated
           \/ outdated' = {q \in Procs \ {p} : pc[q] \in {"probe", "stat", "reclaim"}}
    BY <1>10, Departures
  <2>. QED
    BY <2>1
<1>. QED
  BY <1>1, <1>2, <1>3, <1>4, <1>5, <1>6, <1>7, <1>8, <1>9, <1>10, Steps

(* Exclusion: a step puts a process among the owners only by creating the    *)
(* lock, and removes the lock only as its owner, as the heir of a dead one,  *)
(* or on an outdated verdict.                                                *)
LEMMA HeldPreserved == Safe /\ [Next]_vars => Held'
<1> SUFFICES ASSUME Safe, [Next]_vars PROVE Held'
  OBVIOUS
<1>0. /\ pc \in [Procs -> Places] /\ lock \in Locks \cup {NoLock}
      /\ LockShape /\ Judged /\ Held /\ misjudged \in BOOLEAN /\ NoOne \notin Procs
  BY ConstantsAssumption DEF Safe, TypeOK, ConstantsAssumption
<1>. USE <1>0 DEF Held, Owning, Working
<1>1. CASE UNCHANGED vars
  BY <1>1 DEF vars, lockVars
<1>2. CASE Tick
  <2>1. lock'.by = lock.by
    BY <1>2, LockFields, LockThere DEF Tick, Older
  <2>. QED
    BY <1>2, <2>1 DEF Tick
<1>3. ASSUME NEW p \in Procs,
             Begin(p) \/ Read(p) \/ Probe(p) \/ Stat(p) \/ Decide(p) \/ LoadAttempts(p)
               \/ SaveAttempts(p) \/ Finish(p) \/ Fail(p) \/ ReadOwn(p)
               \/ \E score \in Scores : SaveRecipe(p, score)
      PROVE  Held'
  <2>1. /\ lock' = lock /\ misjudged' = misjudged
        /\ \A q \in Procs \ {p} : pc'[q] = pc[q]
        /\ pc'[p] \in Owning => pc[p] \in Owning
    BY <1>3 DEF Begin, Read, Probe, Stat, Decide, LoadAttempts, SaveAttempts, Finish,
                Fail, ReadOwn, SaveRecipe, GiveUp, Leave, Goto, lockVars
  <2>. QED
    BY <2>1
<1>4. ASSUME NEW p \in Procs, Create(p)
      PROVE  Held'
  <2>1. CASE Locked
    BY <1>4, <2>1 DEF Create, Goto
  <2>2. CASE ~Locked
    <3>1. misjudged \/ \A q \in Procs : pc[q] \notin Owning
      BY <2>2, LockThere
    <3>. QED
      BY <1>4, <2>2, <3>1, LockMade DEF Create, LockBecomes, Goto
  <2>. QED
    BY <2>1, <2>2
<1>5. ASSUME NEW p \in Procs, WritePid(p)
      PROVE  Held'
  <2>1. lock'.by = lock.by
    BY <1>5, LockMade DEF WritePid, LockBecomes
  <2>. QED
    BY <1>5, <2>1 DEF WritePid, Goto
<1>6. ASSUME NEW p \in Procs, Reclaim(p)
      PROVE  Held'
  <2>1. misjudged' \/ lock.by = NoOne
    BY <1>6, LockThere DEF Reclaim, Judged
  <2>2. misjudged' \/ \A q \in Procs : pc[q] \notin Owning
    BY <1>6, <2>1 DEF Reclaim
  <2>. QED
    BY <1>6, <2>2 DEF Reclaim, Goto
<1>7. ASSUME NEW p \in Procs, Unlink(p)
      PROVE  Held'
  <2>1. misjudged \/ \A q \in Procs \ {p} : pc[q] \notin Owning
    BY <1>7 DEF Unlink
  <2>. QED
    BY <1>7, <2>1 DEF Unlink, Leave, Goto
<1>8. ASSUME NEW p \in Procs, Crash(p)
      PROVE  Held'
  <2>1. pc'[p] \notin Owning /\ \A q \in Procs \ {p} : pc'[q] = pc[q]
    BY <1>8 DEF Crash, Leave, Goto
  <2>2. \A q \in Procs \ {p} : lock.by = q => lock'.by = q
    BY <1>8 DEF Crash, Disowned
  <2>. QED
    BY <1>8, <2>1, <2>2 DEF Crash
<1>9. ASSUME NEW p \in Procs, AcquireFails(p) \/ ReadFails(p)
      PROVE  Held'
  <2>1. /\ lock' = lock /\ misjudged' = misjudged
        /\ \A q \in Procs \ {p} : pc'[q] = pc[q]
        /\ pc'[p] \notin Owning
    BY <1>9 DEF AcquireFails, ReadFails, GiveUp, Leave, Goto
  <2>. QED
    BY <2>1
<1>10. ASSUME NEW p \in Procs, WriteFails(p) \/ CloseFails(p) \/ ReleaseFails(p)
       PROVE  Held'
  <2>1. /\ \A q \in Procs \ {p} : pc'[q] = pc[q]
        /\ pc[p] \in Owning /\ pc'[p] \notin Owning /\ misjudged' = misjudged
        /\ lock.by # p => lock' = lock
    BY <1>10, Departures DEF Safe
  <2>. QED
    BY <2>1
<1>. QED
  BY <1>1, <1>2, <1>3, <1>4, <1>5, <1>6, <1>7, <1>8, <1>9, <1>10, Steps

(* The lock therefore keeps two processes from working at once. *)
LEMMA HeldExcludes == Held => ExclusiveUnlessMisjudged
BY DEF Held, ExclusiveUnlessMisjudged, Exclusive, Owning

(* The dead stay dead, and a PID is written by its own process only. *)
LEMMA StrayPreserved == TypeOK /\ LockShape /\ Stray /\ [Next]_vars => Stray'
<1> SUFFICES ASSUME TypeOK, LockShape, Stray, [Next]_vars PROVE Stray'
  OBVIOUS
<1>0. /\ pc \in [Procs -> Places] /\ lock \in Locks \cup {NoLock}
      /\ lock.by \in Procs \cup {NoOne} /\ lock.pid \in Procs \cup {NoOne}
      /\ NoOne \notin Procs
  BY LockFields, NoLockFields, ConstantsAssumption DEF TypeOK, ConstantsAssumption
<1>. USE <1>0 DEF Stray
<1>1. CASE UNCHANGED vars
  BY <1>1 DEF vars, lockVars
<1>2. CASE Tick
  <2>1. lock'.by = lock.by /\ lock'.pid = lock.pid
    BY <1>2, LockFields, LockThere DEF Tick, Older
  <2>. QED
    BY <1>2, <2>1 DEF Tick
<1>3. ASSUME NEW p \in Procs,
             \/ Begin(p) \/ Read(p) \/ Probe(p) \/ Stat(p) \/ Decide(p) \/ LoadAttempts(p)
             \/ SaveAttempts(p) \/ Finish(p) \/ Fail(p) \/ ReadOwn(p)
             \/ AcquireFails(p) \/ ReadFails(p) \/ \E score \in Scores : SaveRecipe(p, score)
      PROVE  Stray'
  <2>1. lock' = lock /\ unreleased' = unreleased
    BY <1>3 DEF Begin, Read, Probe, Stat, Decide, LoadAttempts, SaveAttempts, Finish, Fail,
                ReadOwn, AcquireFails, ReadFails, SaveRecipe, lockVars
  <2>2. pc[p] # "dead"
    BY <1>3 DEF Begin, Read, Probe, Stat, Decide, LoadAttempts, SaveAttempts, Finish, Fail,
                ReadOwn, AcquireFails, ReadFails, SaveRecipe, Working
  <2>3. \A q \in Procs \ {p} : pc'[q] = pc[q]
    BY <1>3 DEF Begin, Read, Probe, Stat, Decide, LoadAttempts, SaveAttempts, Finish, Fail,
                ReadOwn, AcquireFails, ReadFails, SaveRecipe, GiveUp, Leave, Goto
  <2>. QED
    BY <2>1, <2>2, <2>3
<1>4. ASSUME NEW p \in Procs, Create(p) \/ WritePid(p) \/ Reclaim(p) \/ Unlink(p)
      PROVE  Stray'
  <2>1. /\ unreleased' = unreleased /\ pc[p] # "dead"
        /\ \A q \in Procs \ {p} : pc'[q] = pc[q]
    BY <1>4 DEF Create, WritePid, Reclaim, Unlink, Leave, Goto
  <2>2. lock' = lock \/ lock'.by = p \/ lock' = NoLock
    BY <1>4, LockMade DEF Create, WritePid, Reclaim, Unlink, LockBecomes
  <2>. QED
    BY <2>1, <2>2, NoLockFields
<1>5. ASSUME NEW p \in Procs, Crash(p)
      PROVE  Stray'
  <2>1. /\ unreleased' = unreleased /\ pc'[p] = "dead"
        /\ \A q \in Procs \ {p} : pc'[q] = pc[q]
    BY <1>5 DEF Crash, Leave, Goto
  <2>2. CASE lock.by # p
    BY <1>5, <2>1, <2>2 DEF Crash, Disowned
  <2>3. CASE lock.by = p
    <3>1. lock'.pid = lock.pid
      BY <1>5, <2>3, LockFields, LockThere DEF Crash, Disowned
    <3>2. lock.pid \in {p, NoOne}
      BY <2>3 DEF LockShape
    <3>. QED
      BY <2>1, <3>1, <3>2
  <2>. QED
    BY <2>2, <2>3
<1>6. ASSUME NEW p \in Procs, WriteFails(p) \/ CloseFails(p) \/ ReleaseFails(p)
      PROVE  Stray'
  <2>1. /\ Depart(p) /\ pc[p] # "dead"
    BY <1>6 DEF WriteFails, CloseFails, ReleaseFails
  <2>2. /\ unreleased => unreleased'
        /\ lock'.pid = p => unreleased'
        /\ \A q \in Procs \ {p} : pc'[q] = pc[q]
    BY <2>1 DEF Depart, Leave, Goto
  <2>3. CASE lock.by # p
    <3>1. lock' = lock
      BY <1>6, <2>3, Departures
    <3>. QED
      BY <2>1, <2>2, <3>1
  <2>4. CASE lock.by = p
    <3>1. lock'.pid \in {p, NoOne}
      <4>1. lock.pid \in {p, NoOne}
        BY <2>4 DEF LockShape
      <4>0. lock \in Locks
        BY <2>4, LockThere
      <4>2. CASE WriteFails(p) \/ ReleaseFails(p)
        <5>1. lock' = [lock EXCEPT !.by = NoOne]
          BY <2>4, <4>2 DEF WriteFails, ReleaseFails, Disowned
        <5>. QED
          BY <4>0, <4>1, <5>1, LockFields
      <4>3. CASE CloseFails(p)
        <5>1. lock' = [by |-> NoOne, pid |-> p, age |-> 0]
          BY <2>4, <4>3 DEF CloseFails, LockBecomes
        <5>. QED
          BY <5>1
      <4>. QED
        BY <1>6, <4>2, <4>3
    <3>. QED
      BY <2>2, <3>1
  <2>. QED
    BY <2>3, <2>4
<1>. QED
  BY <1>1, <1>2, <1>3, <1>4, <1>5, <1>6, Steps

LEMMA InitSafe == Init => Safe
<1> SUFFICES ASSUME Init PROVE Safe
  OBVIOUS
<1>1. TypeOK
  BY InitTyped
<1>2. LockShape /\ Judged /\ Held
  BY NoLockFields DEF Init, LockShape, Judged, Held, Owning, Working
<1>. QED
  BY <1>1, <1>2 DEF Safe

LEMMA SafePreserved == Safe /\ [Next]_vars => Safe'
BY TypePreserved, LockShapePreserved, JudgedPreserved, HeldPreserved DEF Safe

(* The state of every process and file is of its type, always.              *)
THEOREM TypeCorrect == Spec => []TypeOK
<1>1. Init => TypeOK
  BY InitTyped
<1>2. TypeOK /\ [Next]_vars => TypeOK'
  BY TypePreserved
<1>. QED
  BY <1>1, <1>2, PTL DEF Spec

(* However many processes fire dream_once, whenever they fire it, however    *)
(* long a cycle lasts and whatever crashes: as long as no verdict on a lock  *)
(* was out of date when it was carried out, at most one process is at work.  *)
THEOREM LockExclusive == Spec => []ExclusiveUnlessMisjudged
<1>1. Init => Safe
  BY InitSafe
<1>2. Safe /\ [Next]_vars => Safe'
  BY SafePreserved
<1>3. Safe => ExclusiveUnlessMisjudged
  BY HeldExcludes DEF Safe
<1>. QED
  BY <1>1, <1>2, <1>3, PTL DEF Spec

(* _release and the finally clause: what is left of a lock by a process that *)
(* is no longer in dream_once has no maker any more (it was killed, or a     *)
(* write or its _release failed), and it names a living process, and so      *)
(* blocks every later call, only where a _release or a close has failed.     *)
THEOREM NoLockLeftBehind == Spec => []LockReleased
<1>1. Init => Safe /\ Stray
  BY InitSafe, NoLockFields DEF Init, Stray
<1>2. Safe /\ Stray /\ [Next]_vars => (Safe /\ Stray)'
  BY SafePreserved, StrayPreserved DEF Safe
<1>3. Safe /\ Stray => LockReleased
  BY DEF Safe, Stray, LockShape, LockReleased, Kept, Orphan, Alive
<1>. QED
  BY <1>1, <1>2, <1>3, PTL DEF Spec

-----------------------------------------------------------------------------
(* What the holder does under the lock. *)

LEMMA UndisturbedPreserved == IInv /\ [Next]_vars => Undisturbed'
<1> SUFFICES ASSUME IInv, [Next]_vars PROVE Undisturbed'
  OBVIOUS
<1>0. /\ pc \in [Procs -> Places] /\ reg \in [Procs -> Nat]
      /\ attempts \in Nat /\ counted \in Nat
      /\ sinceFull \in 0 .. MaxAge /\ MaxAge \in Nat /\ misjudged \in BOOLEAN
      /\ ExclusiveUnlessMisjudged /\ Undisturbed
  BY ConstantsAssumption, HeldExcludes DEF IInv, Safe, TypeOK, ConstantsAssumption
<1>. USE <1>0 DEF Undisturbed, Due
<1>1. CASE UNCHANGED vars
  BY <1>1 DEF vars, lockVars, storeVars
<1>2. CASE Tick
  BY <1>2 DEF Tick
<1>3. ASSUME NEW p \in Procs,
             \/ Begin(p) \/ Create(p) \/ WritePid(p) \/ Read(p) \/ Probe(p) \/ Stat(p)
             \/ Reclaim(p) \/ ReadOwn(p) \/ Unlink(p) \/ Fail(p) \/ Crash(p)
             \/ AcquireFails(p) \/ ReadFails(p)
      PROVE  Undisturbed'
  <2>1. /\ misjudged => misjudged'
        /\ UNCHANGED <<attempts, counted, sinceFull>>
        /\ pc'[p] \notin {"full", "counting"}
        /\ \A q \in Procs \ {p} : pc'[q] = pc[q] /\ reg'[q] = reg[q]
    BY <1>3 DEF Begin, Create, WritePid, Read, Probe, Stat, Reclaim, ReadOwn, Unlink,
                Fail, Crash, AcquireFails, ReadFails, GiveUp, Leave, Goto, lockVars, storeVars, locals
  <2>. QED
    BY <2>1
<1>4. ASSUME NEW p \in Procs, Decide(p)
      PROVE  Undisturbed'
  <2>1. /\ UNCHANGED <<misjudged, attempts, counted, sinceFull, reg>>
        /\ pc'[p] = IF Due THEN "full" ELSE "releasing"
        /\ \A q \in Procs \ {p} : pc'[q] = pc[q]
    BY <1>4 DEF Decide, Goto, lockVars, storeVars, locals
  <2>. QED
    BY <2>1
<1>5. ASSUME NEW p \in Procs, NEW score \in Scores, SaveRecipe(p, score)
      PROVE  Undisturbed'
  BY <1>5 DEF SaveRecipe, lockVars
<1>6. ASSUME NEW p \in Procs, LoadAttempts(p)
      PROVE  Undisturbed'
  <2>1. /\ UNCHANGED <<misjudged, attempts, counted, sinceFull>>
        /\ reg'[p] = attempts /\ pc[p] = "full" /\ pc'[p] = "counting"
        /\ \A q \in Procs \ {p} : pc'[q] = pc[q] /\ reg'[q] = reg[q]
    BY <1>6 DEF LoadAttempts, Goto, lockVars, storeVars
  <2>. QED
    BY <2>1
<1>7. ASSUME NEW p \in Procs, SaveAttempts(p)
      PROVE  Undisturbed'
  <2>1. /\ UNCHANGED <<misjudged, sinceFull, reg>>
        /\ attempts' = reg[p] + 1 /\ counted' = counted + 1
        /\ pc[p] = "counting" /\ pc'[p] = "full"
        /\ \A q \in Procs \ {p} : pc'[q] = pc[q]
    BY <1>7 DEF SaveAttempts, Goto, lockVars
  <2>2. misjudged \/ \A q \in Procs \ {p} : pc[q] \notin {"full", "counting"}
    BY <2>1 DEF ExclusiveUnlessMisjudged, Exclusive, Working
  <2>. QED
    BY <2>1, <2>2
<1>8. ASSUME NEW p \in Procs, Finish(p)
      PROVE  Undisturbed'
  <2>1. /\ UNCHANGED <<misjudged, attempts, counted, reg>>
        /\ pc[p] = "full" /\ pc'[p] = "releasing"
        /\ \A q \in Procs \ {p} : pc'[q] = pc[q]
    BY <1>8 DEF Finish, Goto, lockVars
  <2>2. misjudged \/ \A q \in Procs \ {p} : pc[q] \notin {"full", "counting"}
    BY <2>1 DEF ExclusiveUnlessMisjudged, Exclusive, Working
  <2>. QED
    BY <2>1, <2>2
<1>9. ASSUME NEW p \in Procs, WriteFails(p) \/ CloseFails(p) \/ ReleaseFails(p)
      PROVE  Undisturbed'
  <2>1. /\ UNCHANGED <<misjudged, attempts, counted, sinceFull>>
        /\ pc'[p] \notin {"full", "counting"}
        /\ \A q \in Procs \ {p} : pc'[q] = pc[q] /\ reg'[q] = reg[q]
    BY <1>9, Departures DEF IInv, Safe, storeVars
  <2>. QED
    BY <2>1
<1>. QED
  BY <1>1, <1>2, <1>3, <1>4, <1>5, <1>6, <1>7, <1>8, <1>9, Steps

LEMMA InitInv == Init => IInv
BY InitSafe DEF Init, IInv, Undisturbed

LEMMA InvPreserved == IInv /\ [Next]_vars => IInv'
BY SafePreserved, UndisturbedPreserved DEF IInv

(* The lock makes the unlocked read and write of record_task_attempt safe:   *)
(* no attempt is lost.                                                       *)
THEOREM NoAttemptLost == Spec => []AttemptsExact
<1>1. IInv => AttemptsExact
  BY DEF IInv, Undisturbed, AttemptsExact
<1>. QED
  BY <1>1, InitInv, InvPreserved, PTL DEF Spec

(* The cadence is kept across processes: the age of the last full dream is   *)
(* set back only by a full dream that was due, whoever else has run since    *)
(* its process looked at the age, and never by a step that fails.            *)
THEOREM CadenceKept == Spec => Cadence
<1>1. IInv /\ [Next]_vars =>
        (sinceFull' < sinceFull => (sinceFull >= MaxAge \/ misjudged) /\ faults' = faults)
  <2> SUFFICES ASSUME IInv, [Next]_vars, sinceFull' < sinceFull
               PROVE  (sinceFull >= MaxAge \/ misjudged) /\ faults' = faults
    OBVIOUS
  <2>0. sinceFull \in Nat /\ MaxAge \in Nat
    BY ConstantsAssumption DEF IInv, Safe, TypeOK, ConstantsAssumption
  <2>1. CASE UNCHANGED vars
    BY <2>0, <2>1 DEF vars, storeVars
  <2>2. CASE Tick
    BY <2>0, <2>2 DEF Tick
  <2>3. ASSUME NEW p \in Procs, Finish(p)
        PROVE  (sinceFull >= MaxAge \/ misjudged) /\ faults' = faults
    BY <2>3 DEF Finish, IInv, Undisturbed, Due
  <2>4. ASSUME NEW p \in Procs,
               \/ Begin(p) \/ Create(p) \/ WritePid(p) \/ Read(p) \/ Probe(p) \/ Stat(p)
               \/ Reclaim(p) \/ Decide(p) \/ LoadAttempts(p) \/ SaveAttempts(p)
               \/ \E score \in Scores : SaveRecipe(p, score)
               \/ ReadOwn(p) \/ Unlink(p) \/ Fail(p) \/ Crash(p)
               \/ AcquireFails(p) \/ ReadFails(p)
        PROVE  FALSE
    <3>1. sinceFull' = sinceFull
      BY <2>4 DEF Begin, Create, WritePid, Read, Probe, Stat, Reclaim, Decide,
                  LoadAttempts, SaveAttempts, SaveRecipe, ReadOwn, Unlink, Fail, Crash,
                  AcquireFails, ReadFails, storeVars
    <3>. QED
      BY <2>0, <3>1
  <2>5. ASSUME NEW p \in Procs, WriteFails(p) \/ CloseFails(p) \/ ReleaseFails(p)
        PROVE  FALSE
    <3>1. sinceFull' = sinceFull
      BY <2>5, Departures DEF IInv, Safe, storeVars
    <3>. QED
      BY <2>0, <3>1
  <2>. QED
    BY <2>1, <2>2, <2>3, <2>4, <2>5, Steps
<1>. QED
  BY <1>1, InitInv, InvPreserved, PTL DEF Spec, Cadence
=============================================================================
