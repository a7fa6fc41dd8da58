------------------------------ MODULE DreamStore ------------------------------
(***************************************************************************)
(* The seam every trigger calls (open_dream_rsi/dream.py): processes that  *)
(* run dream_once on one memory directory, at moments of their own.        *)
(*                                                                         *)
(* The directory holds dream.lock, dream_state.json (the time of the last  *)
(* full dream) and the stores of memory.py, of which two are modelled: one *)
(* that is read, incremented and written back inside a call                *)
(* (task_attempts.json) and one whose whole contents a process loads when  *)
(* it starts and rewrites from that copy (recipes.json; policies.json and  *)
(* policy_codes.json work alike).                                          *)
(*                                                                         *)
(* Every access to a file that another process may change is a step.       *)
(***************************************************************************)
EXTENDS Integers, FiniteSets

CONSTANTS
  Procs,        \* process identifiers that fire dream_once
  Servers,      \* those that live on between calls (the MCP server)
  NoOne,        \* no process identifier
  Scores,       \* scores of the recipes a dream may learn
  LockTimeout,  \* LOCK_TIMEOUT_S
  MaxAge,       \* max_age_seconds
  MaxAttempts,  \* bound: task attempts counted in a behaviour
  MaxFaults     \* bound: crashes, failed cycles and failed file accesses in a behaviour

ASSUME ConstantsAssumption ==
  /\ Servers \subseteq Procs
  /\ NoOne \notin Procs
  /\ Scores \subseteq Nat \ {0}
  /\ {LockTimeout, MaxAge, MaxAttempts, MaxFaults} \subseteq Nat

VARIABLES
  pc,         \* where each process is in dream_once
  lock,       \* dream.lock
  owner,      \* the PID a process has read in it
  sinceFull,  \* time since dream_state.json's last_full_dream
  recipe,     \* recipes.json: the score of the recipe it holds, 0 if none
  snap,       \* DreamMemory._recipes of each process
  attempts,   \* task_attempts.json
  reg,        \* the count a process has read there
  faults,     \* faults so far
  counted,    \* history: the attempts that have been recorded
  outdated,   \* history: processes whose verdict is not about the lock that is there
  misjudged,  \* history: an outdated verdict has removed a lock
  unreleased  \* history: a lock was kept by a failed _release, or a failed close

lockVars == <<lock, outdated, misjudged, unreleased>>
storeVars == <<sinceFull, recipe, attempts, counted>>
vars == <<pc, lockVars, owner, storeVars, snap, reg, faults>>

(* The lock file: who made it (NoOne once that process has died or has left  *)
(* dream_once without it), the PID written in it (NoOne before it is) and    *)
(* the age of its last change.                                               *)
NoLock == [by |-> NoOne, pid |-> NoOne, age |-> -1]
Locks == [by : Procs \cup {NoOne}, pid : Procs \cup {NoOne}, age : 0 .. LockTimeout + 1]
Locked == lock # NoLock

Waiting == {"acquire", "read", "probe", "stat", "reclaim"}
Working == {"holding", "full", "counting"}
Owning == Working \cup {"created", "releasing", "unlinking"}
Places == Waiting \cup Owning \cup {"idle", "dead"}

TypeOK ==
  /\ pc \in [Procs -> Places]
  /\ lock \in Locks \cup {NoLock}
  /\ owner \in [Procs -> Procs \cup {NoOne}]
  /\ sinceFull \in 0 .. MaxAge
  /\ recipe \in Scores \cup {0}
  /\ snap \in [Procs -> Scores \cup {0}]
  /\ attempts \in Nat /\ counted \in Nat
  /\ reg \in [Procs -> Nat]
  /\ faults \in 0 .. MaxFaults
  /\ outdated \subseteq Procs
  /\ misjudged \in BOOLEAN /\ unreleased \in BOOLEAN

Init ==
  /\ pc = [p \in Procs |-> "idle"]
  /\ lock = NoLock
  /\ owner = [p \in Procs |-> NoOne]
  /\ sinceFull = MaxAge
  /\ recipe = 0
  /\ snap = [p \in Procs |-> 0]
  /\ attempts = 0 /\ counted = 0
  /\ reg = [p \in Procs |-> 0]
  /\ faults = 0
  /\ outdated = {}
  /\ misjudged = FALSE /\ unreleased = FALSE

-----------------------------------------------------------------------------
Goto(p, place) == pc' = [pc EXCEPT ![p] = place]

(* dream_once ends: its local variables are gone. *)
locals == <<owner, snap, reg>>
Leave(p, place) ==
  /\ Goto(p, place)
  /\ owner' = [owner EXCEPT ![p] = NoOne]
  /\ snap' = [snap EXCEPT ![p] = 0]
  /\ reg' = [reg EXCEPT ![p] = 0]

(* os.kill(pid, 0) *)
Alive(p) == pc[p] # "dead" /\ (pc[p] = "idle" => p \in Servers)

Judging == {"probe", "stat", "reclaim"}

(* Process p changes the lock file: what others have read of it is out of date. *)
LockBecomes(p, new) ==
  /\ lock' = new
  /\ outdated' = {q \in Procs \ {p} : pc[q] \in Judging}

-----------------------------------------------------------------------------
(* Acquiring the lock. *)

(* Mutant: a store that is not there yet is loaded as nothing, not as empty. *)
BeginBare(p) ==
  /\ pc[p] = "idle"
  /\ snap' = [snap EXCEPT ![p] = IF recipe = 0 THEN -1 ELSE recipe]
  /\ Goto(p, "acquire")
  /\ UNCHANGED <<lockVars, owner, storeVars, reg, faults>>

(* The stores are loaded, and only then is the lock tried. *)
Begin(p) ==
  /\ pc[p] = "idle"
  /\ snap' = [snap EXCEPT ![p] = recipe]
  /\ Goto(p, "acquire")
  /\ UNCHANGED <<lockVars, owner, storeVars, reg, faults>>

(* Mutant: an empty lock file is taken for none. *)
CreateOverEmpty(p) ==
  /\ pc[p] = "acquire"
  /\ IF lock.pid # NoOne
     THEN Goto(p, "read") /\ UNCHANGED <<lock, outdated>>
     ELSE Goto(p, "created") /\ LockBecomes(p, [by |-> p, pid |-> NoOne, age |-> 0])
  /\ UNCHANGED <<misjudged, unreleased, storeVars, locals, faults>>

(* open(O_CREAT | O_EXCL) *)
Create(p) ==
  /\ pc[p] = "acquire"
  /\ IF Locked
     THEN Goto(p, "read") /\ UNCHANGED <<lock, outdated>>
     ELSE Goto(p, "created") /\ LockBecomes(p, [by |-> p, pid |-> NoOne, age |-> 0])
  /\ UNCHANGED <<misjudged, unreleased, storeVars, locals, faults>>

(* The file descriptor may be that of a lock someone has removed. *)
WritePid(p) ==
  /\ pc[p] = "created"
  /\ Goto(p, "holding")
  /\ IF lock.by = p
     THEN LockBecomes(p, [by |-> p, pid |-> p, age |-> 0])
     ELSE UNCHANGED <<lock, outdated>>
  /\ UNCHANGED <<misjudged, unreleased, storeVars, locals, faults>>

(* A lock without a PID, or no lock any more, is judged by its age. *)
Read(p) ==
  /\ pc[p] = "read"
  /\ owner' = [owner EXCEPT ![p] = lock.pid]
  /\ Goto(p, IF lock.pid = NoOne THEN "stat" ELSE "probe")
  /\ outdated' = IF Locked THEN outdated \ {p} ELSE outdated \cup {p}
  /\ UNCHANGED <<lock, misjudged, unreleased, storeVars, snap, reg, faults>>

GiveUp(p) == Leave(p, "idle") /\ outdated' = outdated \ {p}

(* Mutant: the age is looked at before the owner's liveness. *)
ProbeAgeFirst(p) ==
  /\ pc[p] = "probe"
  /\ IF lock.age <= LockTimeout /\ Alive(owner[p])
     THEN GiveUp(p)
     ELSE Goto(p, "reclaim") /\ UNCHANGED <<outdated, locals>>
  /\ UNCHANGED <<lock, misjudged, unreleased, storeVars, faults>>

Probe(p) ==
  /\ pc[p] = "probe"
  /\ IF Alive(owner[p])
     THEN GiveUp(p)
     ELSE Goto(p, "reclaim") /\ UNCHANGED <<outdated, locals>>
  /\ UNCHANGED <<lock, misjudged, unreleased, storeVars, faults>>

(* Mutant: a lock without a PID is left alone. *)
StatNever(p) ==
  /\ pc[p] = "stat"
  /\ GiveUp(p)
  /\ UNCHANGED <<lock, misjudged, unreleased, storeVars, faults>>

Stat(p) ==
  /\ pc[p] = "stat"
  /\ IF lock.age > LockTimeout
     THEN Goto(p, "reclaim") /\ UNCHANGED <<outdated, locals>>
     ELSE GiveUp(p)
  /\ UNCHANGED <<lock, misjudged, unreleased, storeVars, faults>>

(* unlink(missing_ok=True), and once more from the start of _acquire. *)
Reclaim(p) ==
  /\ pc[p] = "reclaim"
  /\ misjudged' = (misjudged \/ (p \in outdated /\ Locked))
  /\ LockBecomes(p, NoLock)
  /\ Goto(p, "acquire")
  /\ UNCHANGED <<unreleased, storeVars, locals, faults>>

-----------------------------------------------------------------------------
(* Under the lock. *)

(* Mutant: an off-by-one in the cadence. *)
DueEarly == sinceFull + 1 >= MaxAge
Due == sinceFull >= MaxAge

(* A maintenance cycle has no task and no budget, and learns nothing. *)
Decide(p) ==
  /\ pc[p] = "holding"
  /\ Goto(p, IF Due THEN "full" ELSE "releasing")
  /\ UNCHANGED <<lockVars, storeVars, locals, faults>>

(* save_recipe, decided by and written from the copy of this process. *)
SaveRecipe(p, score) ==
  /\ pc[p] = "full"
  /\ snap[p] < score
  /\ snap' = [snap EXCEPT ![p] = score]
  /\ recipe' = score
  /\ UNCHANGED <<pc, lockVars, owner, sinceFull, attempts, counted, reg, faults>>

(* record_task_attempt: load the counters, and save them incremented. *)
LoadAttempts(p) ==
  /\ pc[p] = "full"
  /\ counted + Cardinality({q \in Procs : pc[q] = "counting"}) < MaxAttempts
  /\ reg' = [reg EXCEPT ![p] = attempts]
  /\ Goto(p, "counting")
  /\ UNCHANGED <<lockVars, owner, storeVars, snap, faults>>

SaveAttempts(p) ==
  /\ pc[p] = "counting"
  /\ attempts' = reg[p] + 1
  /\ counted' = counted + 1
  /\ Goto(p, "full")
  /\ UNCHANGED <<lockVars, owner, sinceFull, recipe, snap, reg, faults>>

(* Mutant: the cycle's end is not written down. *)
FinishUnsaved(p) ==
  /\ pc[p] = "full"
  /\ Goto(p, "releasing")
  /\ UNCHANGED <<lockVars, storeVars, locals, faults>>

Finish(p) ==
  /\ pc[p] = "full"
  /\ sinceFull' = 0
  /\ Goto(p, "releasing")
  /\ UNCHANGED <<lockVars, owner, recipe, attempts, counted, snap, reg, faults>>

-----------------------------------------------------------------------------
(* _release *)

ReadOwn(p) ==
  /\ pc[p] = "releasing"
  /\ IF lock.pid = p
     THEN Goto(p, "unlinking") /\ UNCHANGED locals
     ELSE Leave(p, "idle")
  /\ UNCHANGED <<lockVars, storeVars, faults>>

Unlink(p) ==
  /\ pc[p] = "unlinking"
  /\ LockBecomes(p, NoLock)
  /\ Leave(p, "idle")
  /\ UNCHANGED <<misjudged, unreleased, storeVars, faults>>

-----------------------------------------------------------------------------
(* What goes wrong, and time. *)

Strike == faults < MaxFaults /\ faults' = faults + 1

(* Mutant: no finally clause. *)
FailKeeping(p) ==
  /\ pc[p] \in Working
  /\ Strike
  /\ Leave(p, "idle")
  /\ UNCHANGED <<lockVars, storeVars>>

(* The cycle raises (a failed call, a full disk): the lock is released by    *)
(* the finally clause, and nothing is said of a full dream.                  *)
Fail(p) ==
  /\ pc[p] \in Working
  /\ Strike
  /\ Goto(p, "releasing")
  /\ UNCHANGED <<lockVars, storeVars, locals>>

(* os.open, stat or unlink fails in _acquire: the call is skipped or raises, *)
(* and has no lock either way.                                               *)
AcquireFails(p) ==
  /\ pc[p] \in {"acquire", "stat", "reclaim"}
  /\ Strike
  /\ GiveUp(p)
  /\ UNCHANGED <<lock, misjudged, unreleased, storeVars>>

(* The lock is there and cannot be read: it is judged by its age.  *)
ReadFails(p) ==
  /\ pc[p] = "read" /\ Locked
  /\ Strike
  /\ Goto(p, "stat")
  /\ outdated' = outdated \cup {p}
  /\ UNCHANGED <<lock, misjudged, unreleased, storeVars, locals>>

(* Process p leaves dream_once without having removed its lock.  What is not *)
(* a server ends, and the PID it may have written is that of no process.     *)
Depart(p) ==
  /\ Leave(p, IF p \in Servers \/ lock'.pid # p THEN "idle" ELSE "dead")
  /\ unreleased' = (unreleased \/ lock'.pid = p)
  /\ UNCHANGED <<misjudged, storeVars>>

Disowned(p) == IF lock.by = p THEN [lock EXCEPT !.by = NoOne] ELSE lock

(* os.write fails, which is not inside the try. *)
WriteFails(p) ==
  /\ pc[p] = "created"
  /\ Strike
  /\ lock' = Disowned(p) /\ UNCHANGED outdated
  /\ Depart(p)

(* So does os.close, after the PID is written. *)
CloseFails(p) ==
  /\ pc[p] = "created"
  /\ Strike
  /\ IF lock.by = p
     THEN LockBecomes(p, [by |-> NoOne, pid |-> p, age |-> 0])
     ELSE UNCHANGED <<lock, outdated>>
  /\ Depart(p)

(* Errors of reading and of unlinking the own lock are swallowed.  *)
ReleaseFails(p) ==
  /\ pc[p] \in {"releasing", "unlinking"}
  /\ Strike
  /\ lock' = Disowned(p) /\ UNCHANGED outdated
  /\ Depart(p)

(* The process is killed: the lock it made, if any, is now nobody's. *)
Crash(p) ==
  /\ pc[p] \notin {"idle", "dead"}
  /\ Strike
  /\ Leave(p, "dead")
  /\ lock' = Disowned(p)
  /\ outdated' = outdated \ {p}
  /\ UNCHANGED <<misjudged, unreleased, storeVars>>

(* Ages are told apart up to their thresholds.  The two adjacent system      *)
(* calls of Create and WritePid never take as long as LockTimeout.           *)
PromptPid ==
  \/ ~Locked \/ lock.pid # NoOne \/ lock.by = NoOne
  \/ lock.age < LockTimeout

Older ==
  IF Locked /\ lock.age <= LockTimeout THEN [lock EXCEPT !.age = lock.age + 1] ELSE lock

Tick ==
  /\ PromptPid
  /\ \/ sinceFull < MaxAge
     \/ Locked /\ lock.age <= LockTimeout
  /\ sinceFull' = IF sinceFull < MaxAge THEN sinceFull + 1 ELSE sinceFull
  /\ lock' = Older
  /\ UNCHANGED <<pc, outdated, misjudged, unreleased, owner, recipe, attempts, counted, snap, reg, faults>>

-----------------------------------------------------------------------------
Acquiring(p) ==
  Create(p) \/ WritePid(p) \/ Read(p) \/ Probe(p) \/ Stat(p) \/ Reclaim(p)

Dreaming(p) ==
  \/ Decide(p) \/ LoadAttempts(p) \/ SaveAttempts(p) \/ Finish(p)
  \/ \E score \in Scores : SaveRecipe(p, score)

Releasing(p) == ReadOwn(p) \/ Unlink(p)

Run(p) == Begin(p) \/ Acquiring(p) \/ Dreaming(p) \/ Releasing(p)

Failing(p) ==
  \/ AcquireFails(p) \/ ReadFails(p) \/ WriteFails(p) \/ CloseFails(p)
  \/ Fail(p) \/ ReleaseFails(p)

Next == Tick \/ \E p \in Procs : Run(p) \/ Failing(p) \/ Crash(p)

(* The system schedules every process, triggers keep firing, time passes.    *)
Fairness == WF_vars(Tick) /\ \A p \in Procs : WF_vars(Run(p))

Spec == Init /\ [][Next]_vars
FairSpec == Spec /\ Fairness

-----------------------------------------------------------------------------
(* Properties. *)

(* README.md:225, dream.py:38-46: at most one dream runs on a directory. *)
Exclusive == \A p, q \in Procs : pc[p] \in Working /\ pc[q] \in Working => p = q

(* The same as long as no lock was removed by a process that had judged an  *)
(* earlier one: a cycle may last any time, be killed or raise, its age may   *)
(* pass LockTimeout, and the next call still does not walk in.               *)
ExclusiveUnlessMisjudged == misjudged \/ Exclusive

(* No attempt is lost: the counters that order the queue are exact.          *)
AttemptsExact == misjudged \/ attempts = counted

(* A full dream is completed only when MaxAge has passed since the one that  *)
(* was completed before it, whoever dreamed it, and never by a cycle that    *)
(* raises or is killed.                                                      *)
Cadence ==
  [][sinceFull' < sinceFull =>
       /\ sinceFull >= MaxAge \/ misjudged
       /\ faults' = faults]_vars

(* A lock that nobody holds and that names a living process: every later     *)
(* call finds its owner alive.                                               *)
Orphan == Locked /\ lock.by = NoOne
Kept == Orphan /\ lock.pid # NoOne /\ Alive(lock.pid)

(* dream.py:210 (the finally clause): a process that has left dream_once, in *)
(* time or by an exception of the cycle, has left no lock of its own.  What  *)
(* leaves one is a kill, a failed write of the PID and a failed _release;    *)
(* the one a later call cannot take over, that of a living process, comes    *)
(* from nothing but a failed _release or close.                              *)
LockReleased ==
  /\ lock.by # NoOne => pc[lock.by] \in Owning
  /\ Kept => unreleased

(* dream.py:39: the lock of a crashed run is reclaimed, and that of a run    *)
(* whose write of the PID failed, and of one that could not remove it, once  *)
(* its process has ended.                                                    *)
LockRecovered == Orphan /\ ~Kept ~> ~Orphan

(* Whatever crashes or fails, once a full dream is due one is completed,     *)
(* unless a server keeps the lock it has failed to remove.                   *)
DreamsWhenDue == Due ~> ~Due \/ Kept

(* memory.py:90 "keep the best-known solution": the recipe only improves. *)
RecipesKeepBest == [][recipe' >= recipe]_vars
=============================================================================
