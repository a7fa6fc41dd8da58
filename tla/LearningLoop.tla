----------------------------- MODULE LearningLoop -----------------------------
(***************************************************************************)
(* The runtime that improves itself (open_dream_rsi/loop.py): cycles over  *)
(* the task queue, and within a cycle one episode per task.                *)
(*                                                                         *)
(* What the model does not compute is chosen: whether a reply holds code,  *)
(* whether it solves the task and with which score, whether the offline    *)
(* dream finds other parameters, whether a new exploration policy beats    *)
(* the incumbent on the replay.  A discovery tree is the number of its     *)
(* steps.                                                                  *)
(*                                                                         *)
(* The counters of memory.py that order the queue only matter by their     *)
(* differences: `attempts` is kept with its least value at 0.              *)
(***************************************************************************)
EXTENDS Integers, Sequences, FiniteSets

CONSTANTS
  Queue,        \* tasks.json: a sequence of tasks without repetition
  Categories,
  Category,     \* [tasks -> Categories]
  TestLess,     \* the tasks a judge decides
  Unchecked,    \* the tasks whose tests may lack a call or an expected value
  Scores,       \* scores of solutions
  Params,       \* policy parameters the offline dream finds
  Budget,       \* api_call_budget
  MaxTries,     \* [tasks -> Nat], max_attempts of a task
  MaxRepair,    \* max_repair of the policy generator
  RegrowSteps,  \* POLICY_REGROW_STEPS
  MaxSteps,     \* bound: steps of a discovery tree
  MaxFaults     \* bound: crashes and failed writes in a behaviour

Tasks == {Queue[k] : k \in 1 .. Len(Queue)}

ASSUME ConstantsAssumption ==
  /\ Queue \in Seq(Tasks) /\ Queue # <<>>
  /\ \A j, k \in 1 .. Len(Queue) : Queue[j] = Queue[k] => j = k
  /\ Category \in [Tasks -> Categories]
  /\ TestLess \subseteq Tasks /\ Unchecked \subseteq Tasks \ TestLess
  /\ MaxTries \in [Tasks -> Nat]
  /\ Scores \cup Params \subseteq Nat \ {0} /\ Params # {}
  /\ {Budget, MaxRepair, RegrowSteps, MaxSteps, MaxFaults} \subseteq Nat

VARIABLES
  malformed, \* the tasks whose tests do lack one
  pc,        \* where run_once is
  left,      \* the tasks of this cycle still to be worked on
  task,      \* the one being worked on
  tries,     \* the attempts made on it in this episode
  solved,    \* one of them solved it
  used,      \* api_calls_used
  reported,  \* api_calls of the cycle's report
  before,    \* the same when the episode began
  nodes,     \* steps of the tree in memory
  steps,     \* steps of the archived trees
  attempts,  \* task_attempts.json
  stored,    \* recipes.json, policies.json, policy_codes.json
  mirrored,  \* what the lifecycle manager holds as ACTIVE in their slots
  old,       \* the slots whose artifact was registered too long ago
  faults,    \* crashes and failed writes so far
  unsynced,  \* history: <<store, category>> saved, and the manager's call did not end
  orphaned   \* history: categories whose program was saved, and its tree was lost

cycleVars == <<left, used, reported>>
episodeVars == <<task, tries, solved, before, nodes>>
almVars == <<mirrored, old>>
durableVars == <<steps, attempts, stored, almVars>>
history == <<unsynced, orphaned>>
others == <<malformed, faults, history>>
vars == <<pc, cycleVars, episodeVars, durableVars, others>>

(* A recipe is its score; a policy program is the number of replay steps it  *)
(* was promoted on; 0 is none.                                               *)
Stores == {"recipe", "params", "program"}
Values == Nat
Syncs == {"sync_recipe", "sync_params", "sync_program"}
Places == {"idle", "pick", "try", "judge", "dream", "evolve", "archive", "count"} \cup Syncs

TypeOK ==
  /\ pc \in Places
  /\ left \in Seq(Tasks)
  /\ task \in Tasks
  /\ malformed \subseteq Unchecked
  /\ tries \in Nat
  /\ solved \in BOOLEAN
  /\ used \in Nat /\ reported \in Nat /\ before \in Nat
  /\ nodes \in 0 .. MaxSteps
  /\ steps \in [Tasks -> 0 .. MaxSteps]
  /\ attempts \in [Tasks -> Nat]
  /\ stored \in [Stores -> [Categories -> Values]]
  /\ mirrored \in [Stores -> [Categories -> Values]]
  /\ old \subseteq Stores \X Categories
  /\ faults \in 0 .. MaxFaults
  /\ unsynced \subseteq Stores \X Categories
  /\ orphaned \subseteq Categories

Init ==
  /\ malformed \in SUBSET Unchecked
  /\ pc = "idle"
  /\ left = <<>>
  /\ task = Queue[1]
  /\ tries = 0 /\ solved = FALSE
  /\ used = 0 /\ reported = 0 /\ before = 0
  /\ nodes = 0
  /\ steps = [t \in Tasks |-> 0]
  /\ attempts = [t \in Tasks |-> 0]
  /\ stored = [k \in Stores |-> [c \in Categories |-> 0]]
  /\ mirrored = stored /\ old = {}
  /\ faults = 0
  /\ unsynced = {} /\ orphaned = {}

-----------------------------------------------------------------------------
(* The cycle. *)

(* Mutant: fair_queue is off. *)
LeastAttemptedOff == Queue

(* sorted() is stable: ties keep the order of the queue. *)
Ahead(j, k) ==
  \/ attempts[Queue[j]] < attempts[Queue[k]]
  \/ attempts[Queue[j]] = attempts[Queue[k]] /\ j < k

Place(j) == Cardinality({i \in 1 .. Len(Queue) : Ahead(i, j)})

LeastAttempted ==
  [k \in 1 .. Len(Queue) |-> Queue[CHOOSE j \in 1 .. Len(Queue) : Place(j) = k - 1]]

(* Every supervisor (run_forever, dream_once, the MCP tool, the dashboard)   *)
(* starts a cycle with a fresh count.                                        *)
Begin ==
  /\ pc = "idle"
  /\ pc' = "pick"
  /\ left' = LeastAttempted
  /\ used' = 0 /\ reported' = 0
  /\ UNCHANGED <<episodeVars, durableVars, others>>

Exhausted == used >= Budget

(* Mutant: the budget is only looked at within an episode. *)
PickAnyway ==
  /\ pc = "pick"
  /\ left # <<>>
  /\ task' = Head(left) /\ left' = Tail(left)
  /\ tries' = 0 /\ solved' = FALSE
  /\ before' = reported
  /\ nodes' = steps[task']
  /\ pc' = "try"
  /\ UNCHANGED <<used, reported, durableVars, others>>

Pick ==
  /\ pc = "pick"
  /\ left # <<>> /\ ~Exhausted
  /\ task' = Head(left) /\ left' = Tail(left)
  /\ tries' = 0 /\ solved' = FALSE
  /\ before' = reported
  /\ nodes' = steps[task']
  /\ pc' = "try"
  /\ UNCHANGED <<used, reported, durableVars, others>>

(* The local variables of an episode are gone. *)
Forget == task' = Queue[1] /\ tries' = 0 /\ solved' = FALSE /\ before' = 0 /\ nodes' = 0

(* detect_stale: an ACTIVE artifact goes STALE with the age of its           *)
(* registration, because nothing in the program reports a use of it.         *)
Retire ==
  mirrored' = [k \in Stores |-> [c \in Categories |->
                IF <<k, c>> \in old THEN 0 ELSE mirrored[k][c]]]

(* _alm_maintenance closes every cycle. *)
EndCycle ==
  /\ pc = "pick"
  /\ left = <<>> \/ Exhausted
  /\ pc' = "idle" /\ left' = <<>>
  /\ Retire
  /\ Forget
  /\ UNCHANGED <<used, reported, steps, attempts, stored, old, others>>

(* stale_after_seconds (a week) pass between two cycles. *)
Week ==
  /\ pc = "idle"
  /\ old' = {kc \in Stores \X Categories : mirrored[kc[1]][kc[2]] # 0} \cup old
  /\ old' # old
  /\ UNCHANGED <<pc, cycleVars, episodeVars, steps, attempts, stored, mirrored, others>>

-----------------------------------------------------------------------------
(* The online attempts of an episode. *)

Cat == Category[task]
Put(f, k, v) == [f EXCEPT ![k][Cat] = v]
Call(n) == used' = used + n /\ reported' = reported + n
Grow == nodes' = IF nodes < MaxSteps THEN nodes + 1 ELSE nodes

(* Mutant: the lifecycle manager is not told. *)
LearnSilently(score) ==
  /\ solved' = TRUE
  /\ stored' = IF stored["recipe"][Cat] < score THEN Put(stored, "recipe", score) ELSE stored
  /\ pc' = "dream"

(* save_recipe: only a better one.  The lifecycle manager is told next. *)
Learn(score) ==
  /\ solved' = TRUE
  /\ IF stored["recipe"][Cat] < score
     THEN /\ stored' = Put(stored, "recipe", score)
          /\ pc' = "sync_recipe"
     ELSE pc' = "dream" /\ UNCHANGED stored

(* The verdict on a candidate, which is a node of the tree either way. *)
Verdict ==
  /\ Grow
  /\ \/ pc' = "try" /\ UNCHANGED <<solved, stored>>
     \/ \E score \in Scores : Learn(score)
  /\ UNCHANGED <<left, task, before, steps, attempts, almVars, others>>

Trying == pc = "try" /\ tries < MaxTries[task] /\ ~Exhausted

(* One candidate is proposed: a failed call or a reply without code is       *)
(* charged, and costs the attempt.                                           *)
Propose ==
  /\ Trying /\ task \notin malformed
  /\ Call(1)
  /\ tries' = tries + 1
  /\ \/ /\ UNCHANGED <<pc, left, task, solved, before, nodes, durableVars, others>>
     \/ /\ task \in TestLess
        /\ pc' = "judge"
        /\ UNCHANGED <<left, task, solved, before, nodes, durableVars, others>>
     \/ /\ task \notin TestLess
        /\ Verdict

(* No budget for the judge, or code that does not run: not solved. *)
JudgeSkipped ==
  /\ pc = "judge"
  /\ Grow
  /\ pc' = "try"
  /\ UNCHANGED <<cycleVars, task, tries, solved, before, durableVars, others>>

Judge ==
  /\ pc = "judge" /\ ~Exhausted
  /\ Call(1)
  /\ Verdict
  /\ UNCHANGED tries

EndTries ==
  /\ pc = "try"
  /\ tries >= MaxTries[task] \/ Exhausted
  /\ pc' = "dream"
  /\ UNCHANGED <<cycleVars, episodeVars, durableVars, others>>

-----------------------------------------------------------------------------
(* The offline half of an episode. *)

(* _alm_sync: the manager mirrors what has been stored. *)
Mirror(k, v) ==
  /\ mirrored' = Put(mirrored, k, v)
  /\ old' = IF mirrored' = mirrored THEN old ELSE old \ {<<k, Cat>>}

Sync(k, place, next) ==
  /\ pc = place
  /\ Mirror(k, stored[k][Cat])
  /\ pc' = next
  /\ unsynced' = unsynced \ {<<k, Cat>>}
  /\ UNCHANGED <<cycleVars, episodeVars, steps, attempts, stored, malformed, faults, orphaned>>

(* run_offline_optimization: saved only when it differs. *)
Dream ==
  /\ pc = "dream"
  /\ \E best \in Params :
       IF stored["params"][Cat] # best
       THEN /\ stored' = Put(stored, "params", best)
            /\ pc' = "sync_params"
       ELSE pc' = "evolve" /\ UNCHANGED stored
  /\ UNCHANGED <<cycleVars, episodeVars, steps, attempts, almVars, others>>

(* Mutant: the budget is not looked at. *)
EvolvableAnyway ==
  LET incumbent == stored["program"][Cat] IN
  /\ nodes >= 2
  /\ incumbent # 0 => ~solved /\ nodes - incumbent >= RegrowSteps

(* When the model is asked to rewrite the exploration policy. *)
Evolvable ==
  LET incumbent == stored["program"][Cat] IN
  /\ ~Exhausted
  /\ nodes >= 2
  /\ incumbent # 0 => ~solved /\ nodes - incumbent >= RegrowSteps

(* One call and the repairs; the call that raises is not charged. *)
Evolve ==
  /\ pc = "evolve"
  /\ Evolvable
  /\ \E n \in 0 .. 1 + MaxRepair :
       /\ Call(n)
       /\ \/ pc' = "archive" /\ UNCHANGED stored
          \/ /\ n > 0
             /\ stored' = Put(stored, "program", nodes)
             /\ pc' = "sync_program"
  /\ UNCHANGED <<left, episodeVars, steps, attempts, almVars, others>>

EvolveSkipped ==
  /\ pc = "evolve"
  /\ ~Evolvable
  /\ pc' = "archive"
  /\ UNCHANGED <<cycleVars, episodeVars, durableVars, others>>

(* Mutant: a tree is archived only to be worked on again. *)
ArchiveUnsolved ==
  /\ pc = "archive"
  /\ steps' = IF solved THEN steps ELSE [steps EXCEPT ![task] = nodes]
  /\ pc' = "count"
  /\ UNCHANGED <<cycleVars, episodeVars, attempts, stored, almVars, others>>

(* archive_tree *)
Archive ==
  /\ pc = "archive"
  /\ steps' = [steps EXCEPT ![task] = nodes]
  /\ pc' = "count"
  /\ UNCHANGED <<cycleVars, episodeVars, attempts, stored, almVars, others>>

(* The least count is 0. *)
Levelled(f) ==
  LET least == CHOOSE n \in {f[t] : t \in Tasks} : \A t \in Tasks : n <= f[t]
  IN [t \in Tasks |-> f[t] - least]

(* Mutant: only an episode that solved its task is counted. *)
CountSolved ==
  /\ pc = "count"
  /\ attempts' = IF solved THEN Levelled([attempts EXCEPT ![task] = @ + 1]) ELSE attempts
  /\ pc' = "pick"
  /\ Forget
  /\ UNCHANGED <<cycleVars, steps, stored, almVars, others>>

(* record_task_attempt, back in run_once. *)
Count ==
  /\ pc = "count"
  /\ attempts' = Levelled([attempts EXCEPT ![task] = @ + 1])
  /\ pc' = "pick"
  /\ Forget
  /\ UNCHANGED <<cycleVars, steps, stored, almVars, others>>

-----------------------------------------------------------------------------
(* What goes wrong. *)

(* An exception leaves run_once, or the process is killed. *)
Abort ==
  /\ pc' = "idle" /\ left' = <<>>
  /\ used' = 0 /\ reported' = 0
  /\ Forget

(* A test without a call or an expected value raises where the prompt is     *)
(* rendered, in every cycle that takes the task: nothing has been saved.     *)
RenderRaises ==
  /\ Trying /\ task \in malformed
  /\ Abort
  /\ UNCHANGED <<durableVars, others>>

Strike == faults < MaxFaults /\ faults' = faults + 1

(* A program has been saved, or may have been, and its tree not yet archived. *)
Promoting == pc \in {"sync_program", "archive"}

(* A kill: what is saved stays. *)
Crash ==
  /\ pc \notin Syncs \cup {"idle"}
  /\ Strike
  /\ orphaned' = IF Promoting THEN orphaned \cup {Cat} ELSE orphaned
  /\ Abort
  /\ UNCHANGED <<durableVars, malformed, unsynced>>

(* A kill or a failed write while the manager mirrors: before its commits,   *)
(* after the supersession of the slot's artifact, or after them.  A failed   *)
(* write ends the cycle as a kill does, but for the mirroring of a program,  *)
(* around which every exception is caught.                                   *)
SyncFails(k, place) ==
  /\ pc = place
  /\ Strike
  /\ \E v \in {mirrored[k][Cat], 0, stored[k][Cat]} : Mirror(k, v)
  /\ unsynced' = unsynced \cup {<<k, Cat>>}
  /\ \/ /\ orphaned' = IF Promoting THEN orphaned \cup {Cat} ELSE orphaned
        /\ Abort
     \/ /\ k = "program"
        /\ pc' = "archive"
        /\ UNCHANGED <<cycleVars, episodeVars, orphaned>>
  /\ UNCHANGED <<steps, attempts, stored, malformed>>

-----------------------------------------------------------------------------
Cycle == Begin \/ Pick \/ EndCycle
Episode == Propose \/ RenderRaises \/ JudgeSkipped \/ Judge \/ EndTries
Offline ==
  \/ Dream \/ Evolve \/ EvolveSkipped \/ Archive \/ Count
  \/ Sync("recipe", "sync_recipe", "dream")
  \/ Sync("params", "sync_params", "evolve")
  \/ Sync("program", "sync_program", "archive")

Run == Cycle \/ Episode \/ Offline
Failure ==
  \/ Crash
  \/ SyncFails("recipe", "sync_recipe")
  \/ SyncFails("params", "sync_params")
  \/ SyncFails("program", "sync_program")

Next == Run \/ Week \/ Failure

(* A supervisor runs cycle after cycle, and starts again after a crash. *)
Spec == Init /\ [][Next]_vars
FairSpec == Spec /\ WF_vars(Run)

-----------------------------------------------------------------------------
(* Properties. *)

(* README.md:207, loop.py:16-17: a cycle stops early once the budget is used *)
(* up.  The bound the code keeps is that of its last check: a generation     *)
(* that began within the budget makes its repairs.                           *)
BudgetBound == used <= Budget + MaxRepair

(* loop.py:203-207: as long as the queue stays the same, no task is ever     *)
(* more than one episode ahead of another, however small the budget is,      *)
(* whatever is solved and whenever a cycle is killed.                        *)
FairGap == \A t \in Tasks : attempts[t] <= 1

(* memory.py:112-116: a task that did not get its turn gets it.  An episode  *)
(* of every task is counted again and again, whatever the budget and the     *)
(* cycles that are killed, as long as every test has its call and its        *)
(* expected value.  One that has not stops the queue: from some cycle on no  *)
(* task is served.                                                           *)
Served(t) == pc = "count" /\ task = t
Blocking == {t \in malformed : MaxTries[t] > 0}
EveryTaskServed ==
  /\ Blocking = {} => \A t \in Tasks : []<>Served(t)
  /\ Blocking # {} => <>[](pc # "count")

(* An episode that is counted as an attempt on a task that is granted any    *)
(* has asked the model at least once: the rotation is never advanced by a    *)
(* cycle without budget.                                                     *)
EpisodeSpends == pc = "count" /\ MaxTries[task] > 0 => reported > before

(* loop.py:281-283: between cycles the lifecycle manager holds what the      *)
(* runtime's stores hold, also after kills and failed writes.  It holds      *)
(* nothing where the artifact has gone STALE, and only the promotion whose   *)
(* own mirroring was cut short is missing, until the next one of its slot.   *)
MirrorInStep ==
  pc = "idle" =>
    \A k \in Stores, c \in Categories :
      \/ mirrored[k][c] = stored[k][c]
      \/ mirrored[k][c] = 0 /\ <<k, c>> \in old
      \/ <<k, c>> \in unsynced

(* The policy program of a category names no more replay evidence than an    *)
(* archived tree of the category holds, unless a cycle was killed after the  *)
(* program was saved and before the tree was.                                *)
ProgramHasEvidence ==
  pc = "idle" =>
    \A c \in Categories \ orphaned :
      stored["program"][c] # 0 =>
        \E t \in Tasks : Category[t] = c /\ steps[t] >= stored["program"][c]
=============================================================================
