# TLA+ models of open-dream-rsi

open-dream-rsi is a runtime that improves the programs it writes: it works a
queue of tasks against a language model, keeps the best solutions, search
parameters and exploration policies it finds, and rewrites those policies from
what it has recorded.  These modules model the parts of it whose correctness
depends on an order of steps: the artifact lifecycle store, the lock and the
cadence of the dream trigger, the learning loop, the counterfactual replay that
judges exploration policies, the sentinel that watches tool results, and the
smaller components with a state of their own.  TLC checks them on small
instances; TLAPS proves the properties that matter most for every value of the
constants.

Paths such as `lifecycle.py:428` are relative to `src/open_dream_rsi/`;
`README.md:207` is a line of the repository's own `src/README.md`.

## 1. The system

### Components

| component | state it keeps | operations | modelled |
|---|---|---|---|
| Artifact Lifecycle Manager (`lifecycle.py`) | `artifacts/events.jsonl`, `artifacts/states.json`, `self._states` | register, validate, activate, promote, supersede, stale, archive, quarantine, restore, reject, retire, pin, use, annotate, merge, rollback, `sync_active`, `detect_stale`, `gc`, open/reconcile | `ArtifactLifecycle` |
| Dream trigger and lock (`dream.py`) | `dream.lock`, `dream_state.json` | `dream_once`, `_acquire`, `_release` | `DreamStore` |
| Dream memory (`memory.py`) | `recipes.json`, `policies.json`, `policy_codes.json`, `task_attempts.json`, `trees/` | `save_*`, `record_task_attempt`, `archive_tree`, all loaded by the constructor | `DreamStore`, `LearningLoop` (in part) |
| Learning loop (`loop.py`) | the queue, `api_calls_used`, the cycle's report, the tree in memory | `run_forever`, `run_once`, `_work_on_task`, `_judge_attempt`, `_maybe_evolve_policy_code`, `_alm_sync`, `_alm_maintenance`, `append_task` | `LearningLoop`, `SharedFile` |
| Policy generation and replay (`core/policygen.py`) | the revealed part of a recorded tree, cursors, rewards, the floor | `generate`, `run_rollout`, the in-process greedy replay, the objective | `Rollout` |
| Evolution stopper (`evolution.py`) | a betting martingale per category | `observe`, and the cycles that feed it | `EvolutionStopper` |
| Sentinel (`sentinel.py`) | the ledger of error classes, counters per session, each bounded | `observe`, `observe_structured`, `_count_call`, load, save, `reset` | `Sentinel` |
| Task queue and holdout reservations (`loop.py:107`, `holdout.py`) | one JSON file each | `append_task`, `claim`, `release`, the creation of the queue by `odr_run_once` | `SharedFile` |
| Lesson sharing (`share.py`) | a directory of worlds and programs with a manifest of checksums | export, import | `Sharing` |
| LLM client (`llm.py`) | its configuration, corrected when the endpoint refuses | `chat`, `_post`, the lookup of the served model | `LLMClient` |
| Cache of sandbox runs (`sandbox.py`) | a bounded table in order of use | `lookup`, `store`, `cached_run_isolated` | `SandboxCache` |
| Replay gate for arms (`gate_replay.py`) | two indexes | `arm_pairs`, `gate_verdict` | `GateReplay` |
| Discovery tree, dreamer, simulator (`core/`) | tree nodes, parameters | expand, hill climb | no: real-valued search |
| Completion judge (`core/judge.py`) | none | prompt and parse | its verdict is a choice in `LearningLoop` |
| MCP, CLI, hooks, plugins | none of their own | call `dream_once`, `run_once`, the sentinel | as callers |
| Proxy, dashboard, metrics, benchmarks | presentation, I/O | | no |

### How they interact

A trigger (cron, a hook, an MCP tool) calls `dream_once`, which loads the
stores, takes `dream.lock`, and runs one maintenance cycle, or one full cycle
when the last is older than `max_age_seconds`.  `odr loop` runs cycle after
cycle in one process, and the MCP tool `odr_run_once` one cycle, **without the
lock**.  A cycle orders the queue by the number of attempts, and for each task
runs an episode: online attempts against the model through the client, verified
in the sandbox or by the judge; the offline dream over the recorded tree;
perhaps the rewriting of the exploration policy, which is accepted when its
replay on the recorded tree beats the floor.  Each improvement is saved to a
JSON store and then mirrored into the lifecycle store by `_alm_sync`; the
staleness and garbage policies of that store close every cycle, and the
evolution stopper is told which categories promoted something.  Feeders append
to the queue while cycles read it.  Stores of recorded trees and programs are
exported to, and imported from, a shared directory.  Beside all this the
sentinel sits in the agent hosts, fed with every tool result.

Nothing is transactional.  A process may be killed between any two writes, a
write may fail, another process may hold an older copy of any file, and the
model may answer anything or nothing.  `PROJECT.json` lists each such place as
a hazard, at its line, with the properties that cover it.

### What makes each part correct

* **Lifecycle store**: the view equals the replay of the log after anything;
  an artifact moves only along the rule table; a deleted identity is not given
  out again; one artifact per slot is ACTIVE; promotion never leaves a slot
  with a superseded artifact and no replacement; only rested, unpinned artifacts
  are deleted.
* **Dream trigger**: one dream at a time; no counter increment lost; a call that
  ends, in time or by an exception of its cycle, leaves no lock; one that is left
  by a kill or a failed file access is reclaimed, unless it names a server that
  goes on running; the cadence holds across processes, and a due dream is
  dreamed.
* **Learning loop**: the call budget; fair rotation of the queue, whatever the
  budget; the lifecycle store in step with the JSON stores, but for the promotion
  whose own mirroring was cut short; a policy program that names no evidence the
  archive does not have.
* **Replay and generation**: a policy sees only what its own path has revealed;
  it is paid for what it reveals; the two copies of the replay agree, so that
  what does as the greedy baseline does ties with it; a generation ends.
* **Evolution stopper**: a category is frozen on evidence, not before and not
  later.
* **Sentinel**: one note per class and session; one nudge per session, as long as
  the sessions fit the table of them.
* **Queue and reservations**: a file that is never torn, no acknowledged entry
  lost, no task granted to two phases.
* **Sharing**: a store that verifies between exports; an import that leaves
  only what was recorded, but for a file that somebody replaces between two
  accesses of one call.
* **Client, cache, gate**: a correction is made once; a cached run is recent; a
  promoted arm has harmed no task.

## 2. The modules

| module | models | how |
|---|---|---|
| `ArtifactHistory` | what the lifecycle store promises | identities are born once, move along the rule table, are forgotten from two states |
| `ArtifactLifecycle` | `lifecycle.py`, one manager process | below |
| `DreamStore` | `dream.py` and the two shapes of store behind it | below |
| `LearningLoop` | `loop.py` | below |
| `Rollout` | `core/policygen.py` | below |
| `Sentinel` | `sentinel.py` | below |
| `Sharing` | `share.py` | below |
| `LLMClient`, `SandboxCache`, `SharedFile`, `EvolutionStopper`, `GateReplay` | one component each | below |
| `MC_*` | small instances of each for TLC | values of the constants that a `.cfg` cannot write; `MC_Services` composes the last two rows |
| `*_proofs` | the theorems | section 5 |

The operators commented *Mutant* are forms of the definition that follows them
with a plausible mistake; no specification uses them.  Each property was seen
to fail when one of them takes that definition's place.

### ArtifactLifecycle

`replay` stands for the log: it is `rebuild_artifact_state(events)`, because
appending an event runs the body of the replay loop once (`ReplayEvent`).  The
other questions the code asks of the log are the variables `created` (for
`_auto_id`), `versions` (for `_next_version`), `named` and `born`.  `view` is
`self._states`, `disk` is `states.json` (`NoView` when missing or unreadable).

A public method reads the view, refuses what the code refuses by not being
enabled, and queues its commits in `todo`.  Each commit (`_commit`) is a step:
`Commit` appends, applies and saves; `AppendFails`, `SaveFails`, `Raise` and
the crashes end the operation in the middle with exactly what had been written.
The replay and the live application are two separate translations of two pieces
of code (`Materialise`, lines 904-924, and `ReplayEvent`, from
`rebuild_artifact_state`), so `ViewEqualsRebuild` compares them and is not true
by construction.

Data: a payload is a model value the validators accept or do not; what `merge`
combines is any payload; an automatic identity is the pair of type and number
(the code prints them).  A caller that names its own identity takes one from
`ExplicitIds`, which does not look like an automatic one.

### DreamStore

Any number of processes call `dream_once`, each access to a file that another
process may change being a step: `open(O_EXCL)`, writing the PID, reading the
PID, `os.kill(pid, 0)`, `stat`, `unlink`; under the lock the cadence, the saves
of a whole-file store from the copy loaded at the start (`recipe`, `snap`), the
load and the save of a counter (`attempts`, `reg`); then `_release`.

What can fail is an action beside each step: `Fail` is an exception inside the
cycle (the `finally` clause runs), `Crash` a kill (nothing runs), `AcquireFails`
an error of `open`, `stat` or `unlink` on the way to the lock, `ReadFails` a lock
that is there and cannot be read.  Three errors leave the caller's own lock
without a kill: `WriteFails` and `CloseFails` (`dream.py:76-77`, outside every
`try`) and `ReleaseFails` (`dream.py:93-94` and `97-98`, swallowed).  `Depart`
says what becomes of the process then: a server lives on, and the lock that names
it with it; any other caller ends.  `Disowned` is a lock that nobody will remove
any more.  Servers keep their PID alive between calls, other callers do not.  The
PID of a dead process stays dead here; section 4 says what happens when it is
given out again.

`Tick` ages the lock and the last full dream, each up to the threshold at which
it is told apart.  `PromptPid` is an assumption about time: creating the lock
and writing the PID in it, two adjacent system calls, never take longer than
`LOCK_TIMEOUT_S` (half an hour).

History variables: `counted` (attempts that were recorded), `outdated` (the
processes whose verdict is about a lock that has since been replaced),
`misjudged` (such a verdict has removed a lock), `unreleased` (a caller has kept
a lock with its PID, because `_release` or `os.close` failed).

### LearningLoop

`pc` is the place in `run_once` and the episode; every step of the code that
charges the budget, saves a store, tells the lifecycle manager or counts an
attempt is an action.  What the model, the sandbox, the judge, the hill climb
and the replay would answer is chosen.  A discovery tree is the number of its
steps; a policy program is the number of steps it was promoted on; the queue's
counters matter only by their differences and are kept with their least at 0.
`Week` lets the staleness threshold pass between two cycles.  A kill (`Crash`)
loses everything local and keeps everything saved.  `MaxTries` is `max_attempts`
of each task, which may be 0: nothing in `append_task` or `mcp.py:104` forbids
it, and such an episode is counted without a call.  `malformed` are the tasks
with a test that has no `call` or no `expected`: their prompt raises in every
cycle (`RenderRaises`, `loop.py:814-815`), before anything is counted.

In this module the lifecycle manager is what it holds as ACTIVE per slot
(`mirrored`), which `ArtifactLifecycle` justifies: `sync_active` ends with the
payload ACTIVE in its slot when nothing fails, and when it is cut short
(`SyncFails`) it leaves what was there before, nothing, or the payload.  A write
that fails there ends the cycle as a kill does, but for a program: the handler at
`loop.py:512` swallows it and the cycle goes on unmirrored.  The history variables
`unsynced` (store and category whose mirroring was cut short, until the next one)
and `orphaned` (categories with a program whose tree was lost) name these cases.

### Rollout

A recorded tree is `parent` and `score`, its nodes numbered in the order they
were recorded; `cursor` counts how often a replay has expanded each.  `Revealed`
(when a node may be shown), `AsOf` (the outcome each shown node has as of now,
one pass over the nodes from last to first) and `Reward` (what an expansion
pays) are three separate pieces of the child's script, `_ROLLOUT_HARNESS`, and
`OutcomesFromRevealed` and `RevealsWhatItPays` relate them.  The loop exists a
second time in process, for the greedy baseline ("keep in sync!"): it is
translated apart from its own lines as `SimulatedReveal`, `NextKids`,
`SimulatedReward` and `GreedyPick`, and `ReplaysAgree` compares the two.  What
they share in the code, the objective, is one operator.  A policy is the
picks it makes: any visible node, or anything else (`None`).  `phase` walks
through one `generate`: the incumbent is replayed again, or the greedy policy in
process, then the model is asked, with repairs, and a candidate is replayed;
each call may raise, each child may crash or time out.

Scores are integers in twentieths, because the seed of a tree is worth 0.05 when
the category has a recipe (`loop.py:779`) and 0 otherwise (`SeedScores`).  The
history variables `greedy` and `greedyPaid` keep the replay in process that made
the floor.  The objectives that are compared belong to
replays of one horizon, so they are compared before the division by it.  The
share of invalid picks is compared in floating point in the code, where 20
percent of a horizon of 8 is above `1.0 - 0.8`: `TooInvalid` says `>=`.

### Sentinel

An engine is a process with the ledger it has loaded and counters per session;
several engines may share the state file.  The ledger is a sequence in the order
of `last_ts`.  Counting a call and recording its error are separate steps,
because the code takes its lock twice: between them other threads of the process
may evict the session (`failing`).  Every eviction is there: sessions, classes,
sessions per class, notified sessions per class.  A budget belongs to a call, not
to a session (`sentinel.py:351`): each call brings the count of calls that
triggers its nudge, one of `Triggers`, where 0 is a call without a budget, which
is not counted.  A restart (`Exit`, `Start`), a failed save (`Write`) and a reset
are actions or parts of them.

The history variables `seen`, `due` and `nudges` are the sessions an engine has
counted, those of them a call of which reached its trigger, and the nudges they
were handed; they are kept while the engine has seen no more sessions than it
tracks.  `told` counts the thresholds crossed per class and session, and `apart`
remembers a failed save or a second engine.  The cap on notes per session is
modelled (`Capped`); no property is about it, because the code tests and raises
the counter in one section under its lock.

### Sharing

A content is an item and a version, and a checksum is the content itself: what
the properties are about is which content a name leads to.  An export writes
file after file and its manifest last, and reads each file again for the
checksum it records (`ExportFile`, then `ExportChecksum`; `share.py:282-285`,
`391-394`); an import checks a file and then reads it a second time.  Exports and
imports of one directory interleave, a kill may end either anywhere, and something
else may change a file, between any two of these accesses.  The history variables
are `torn` (written by an export that did not end), `changed` (changed by others
since the checksum was taken), `adopted` (items whose recorded checksum is that of
a foreign content), `displaced` and `swapped`.  Slugs are a function of
the item that need not be injective; the code disambiguates worlds of one
export and not programs.

### The small components

`LLMClient` is one `chat` at a time: a request with retries, one correction
(without the extra payload, or for the model the endpoint serves now), one more
request with retries; the endpoint may be redeployed at any time.
`SandboxCache` is the table with ages, and a run that is under way between a
miss and its store.  `SharedFile` is one file rewritten through one temporary
name: names, inodes and open files are told apart, because two writers share the
temporary name.  It is instantiated twice, as the queue (an unreadable file
stops the caller) and as the registry, where a file that does not parse and one
that cannot be read (`ReadFails`) both count as empty (`holdout.py:47`).
`EvolutionStopper` keeps wealth as an exact fraction, with `lam = 1/2`, and the
cycles, aborted cycles and restarts that feed it.  `GateReplay` indexes rows one
at a time and decides at any moment.

`MC_Services` composes them and `Sharing` by a variable `focus`: they share no
state in the program, and a behaviour is a behaviour of the one in focus.

## 3. The runs

| run | question | bounds, and why they are enough |
|---|---|---|
| `alm_api` | is the view always the log's rebuild, whatever an API caller does and whatever goes wrong once? | 2 registrations, 2 types in one slot, a named identity, one fault of four kinds. Every operation but `merge` involves at most two artifacts, and `merge` (two sources and a result) runs in `alm_slots`; one good and one bad payload decide each validation. The clock stands still, so nothing is deleted here: deletion is the question of `alm_marks`. |
| `alm_marks` | do pins, uses and the clock protect what they should from deletion? | one artifact, 4 clock readings against a retention of 1, one crash or failed save |
| `alm_slots` | is a slot ever in two minds? | 3 registrations of a single-active type (a holder, a competitor and one derived while both exist), a failed append or a crash |
| `alm_pipeline` | do the operations the program itself calls complete, and what does a kill leave on disk? | two typed slots, 3 registrations, two good payloads and a bad one, one crash |
| `alm_torn_log` | is a store whose writer was killed while appending opened again? (**no**) | one registration |
| `dream_store` | mutual exclusion, exact counters, cadence, release, recovery | two processes, one a server; one crash, exception, or failed access to the lock; ages one past each threshold. A race over the lock has an owner and a judge; a third caller repeats one of them. |
| `dream_exclusive` | do two dreams ever run at once? (**yes**) | two processes, no fault |
| `dream_recipes` | is a better recipe ever overwritten? (**yes**) | two processes, two scores |
| `loop_cycle` | budget, rotation, mirror, evidence, and service of every task | 3 tasks of one category, one of them judged and one with a test that may be malformed, a budget of 2 calls that can end between two episodes, within one, before the judge and before the evolution; 2 tries, and none for one task; 1 repair; trees of 3 steps; one kill or failed write |
| `sentinel_tables` | do the once-only promises survive the evictions? | 3 sessions against room for 2, 2 classes against room for 1, thresholds of 2; every table overflows but that of the notified; calls without a budget and with triggers of 1 and 2, mixed within a session; one engine at a time, one thread, no cap on notes (the default) |
| `rollout` | does the replay show and pay what it should, do its two copies agree, does a generation end? | every tree of up to 4 nodes (chains, stars, two levels of siblings), two scores, a seed of either worth; a horizon of 4 is longer than the 3 steps there are, so ladders are exhausted; `MinValidity` is scaled to it: one invalid pick of four is accepted and two are not; one repair |
| `services` | one promise of each small component | see below |

In `services`: two models and two retries; three programs against a cache of
two and ages past the time to live; two writers and three entries, two of them
of one id; twelve rounds of one category against a calibration of 3 (the eighth
bet alarms); two tasks and four rows in both arms; two worlds of one slug and a
program, one later version, four exports and imports in any order, overlapping,
and two kills or foreign changes: enough for a change between the write and the
checksum of an export whose store is then imported.

Deadlock is not checked: the store may be torn for ever, all faults may be
used up with a manager down, a caller may simply not call again, a generation
and a verdict end.

What the passing runs show about each property is stated above the property in
its module.  Some deserve a remark.

* `ExclusiveUnlessMisjudged` is what is left of mutual exclusion: it fails only
  through a verdict that was about an earlier lock.  It is worth having beside
  `dream_exclusive`, because every other way in (a long cycle, an empty lock
  file, a crash before the PID is written, an exception) is shown to be closed.
* `BudgetBound` is `used <= Budget + MaxRepair`: one generation of a policy that
  began within the budget makes its repairs.  `README.md:207` says that
  `--budget N` caps the calls of a cycle.
* `FairGap`, at most one episode between the most and the least attempted task,
  holds for a queue that does not change.  A task appended later starts at 0
  and is first until it has caught up.
* `LockReleased` says which lock can outlive a call: one that a kill or a failed
  write of the PID leaves, which is taken over later, and one that a failed
  `_release` or `close` leaves, which is taken over unless it names a server that
  goes on running (`Kept`).  `LockRecovered` and `DreamsWhenDue` carry that one
  exception.
* `EveryTaskServed` has two halves: when every test is well formed, every task is
  served again and again; a malformed test of a task that is granted an attempt
  stops the queue for good.
* `EpisodeSpends` is about tasks that are granted an attempt; one whose
  `max_attempts` is 0 is counted without a call.
* `ReplaysAgree` compares the two copies of the replay along every path that
  begins as the greedy one does: the same payments, and the next greedy pick is
  visible to the child.  Hence a program that rediscovers the greedy policy ties,
  and a tie is not promoted.
* `NudgedOnce` is the promise of `sentinel.py:24` as far as the code keeps it: the
  counters of a session are dropped with it when more sessions than
  `MAX_SESSIONS_TRACKED` report to one engine, and a session that comes back is
  nudged anew; a restart forgets the nudges as well.
* `NothingLost`, `StoreVerifies`, `ImportedAsRecorded`, `MirrorInStep`,
  `ProgramHasEvidence` and `LockReleased` carry their exceptions as history
  variables (`clean`, `torn`, `changed`, `adopted`, `displaced`, `swapped`,
  `unsynced`, `orphaned`, `unreleased`): what they exclude is named, and everything
  else is shown.

### Fairness

* `WF_vars(Open)`: the next hook, cron call or daemon start constructs a
  manager.  Only `Recovers`, in `alm_torn_log`, uses it: a torn line disables
  `Open`, so that fairness of it is not what the property says.
* `WF_vars(Tick)` and `WF_vars(Run(p))` in `DreamStore`: time passes, the
  operating system schedules every process, and a trigger that fired once fires
  again (they are cron lines and hooks).  Killed processes stay dead; with two
  processes and one fault, one goes on firing.
* `WF_vars(Run)` in `LearningLoop`: `run_forever` runs cycle after cycle, and
  cron or the user starts it again after a crash.  A `Run` step is any step of
  the one process, so nothing is assumed about which tasks it chooses or what
  the model answers.
* `WF_vars(Next)` in `Rollout`: `generate` is one call of one thread; the call
  to the model and the child process have timeouts, so each of its steps ends.

No property relies on strong fairness.

## 4. What the runs found

Each is a run that TLC refutes, with the quotation in `PROJECT.json`:

1. half a line in `events.jsonl` keeps every later manager from opening;
2. the lock of a live dream can be removed by the verdict about a dead one;
3. the stores are loaded before the lock is held, so a better recipe can be
   overwritten.

Seen while modelling, and not given a run.

In the lifecycle store:

* `register_candidate` puts the artifact into the view before its event is
  appended (`lifecycle.py:428`), against the "history first" of
  `README.md:331-333`; when the append fails the view holds an artifact the log
  has not.  This is why `ViewEqualsRebuild` is checked and proved without
  append failures, and `ViewAgreesOnBorn` with them.
* `promote_replacement`, "Atomic promotion pair" (`lifecycle.py:487`),
  supersedes the current artifact before the rule table refuses a replacement
  that is not VALIDATED.  Nothing in the program calls it; `sync_active`, which
  makes the same pair, validates first (`PromotionPairCompletes`).
* A caller that names an identity of the automatic form lets `_auto_id` give it
  out again (`lifecycle.py:854`).
* The staleness policy measures the age of the registration, because nothing in
  the program calls `record_use`: an artifact that every cycle uses goes STALE a
  week after it was registered (`loop.py:366`).

In the dream trigger and the loop:

* When the PID of a killed owner belongs to another process by then, its lock is
  never reclaimed: a live PID is never stale, whatever its age (`dream.py:60`).
* For the same reason a server that could not remove its own lock, the errors
  being swallowed (`dream.py:93-94`, `97-98`), keeps every later call from
  dreaming, its own among them, for as long as it lives.
* The PID is written outside of any `try` (`dream.py:76-77`): on a full disk
  `dream_once` raises and leaves an empty lock, which costs every caller
  `LOCK_TIMEOUT_S`.
* A queued test without `call` or `expected` raises while the prompt is rendered
  (`loop.py:815`), before the attempt is counted, so the task is first again in
  the next cycle and the tasks behind it are not served.
  `EveryTaskServed` states it.
* `append_task` and `mcp.py:104` accept `max_attempts` of 0: such a task is
  counted in every cycle without a call to the model.
* `_alm_sync` catches the manager's own errors only (`loop.py:294`): a full disk
  in the lifecycle store ends the cycle when a recipe or parameters are mirrored.
  Around the mirroring of a program every exception is swallowed (`loop.py:512`),
  and the cycle goes on with the lifecycle store behind.
* A kill between `save_recipe` and `_alm_sync`, or a failed write in the latter,
  leaves that slot of the mirror behind, or empty when it falls between the
  supersession and the activation, until the next improvement (`unsynced` in
  `MirrorInStep`).
* `hooks/odr_dream_hook.py` reads `memory` before it assigns it, so that hook
  fails before it calls the trigger.
* Rounds in which a solved category was not regenerated count as misses for the
  evolution stopper, so a solved category is frozen.  A cycle that raises leaves
  its promotions to the next one, which counts them when it works on the
  category and drops them when it does not (`loop.py:317`).  A promotion halves
  the wealth, where the docstring says that it resets the progress.

In the replay: a share of invalid picks of exactly 20 percent is refused
(floating point); two children of one node with equal scores count as one
discovery for the efficiency term.

In the files shared without a lock:

* `append_task` and `HoldoutRegistry` write through one temporary name each:
  overlapping writers lose entries, may leave a mixed file (against "a reader
  never sees a torn queue"), or fail on a name the other has renamed.
* A registry that is corrupt, or that cannot be read at the moment, reads as
  empty, and the next claim wipes it.
* `odr_run_once` creates `tasks.json` in place: a kill leaves an empty file,
  which every later read raises on (`mcp.py:163`).
* `export_policies` does not disambiguate slugs, so of two categories with one
  slug the file of the first is overwritten and its import aborts with a
  checksum mismatch.  Two exports with different filters may do the same to
  worlds.  `import_worlds` writes worlds of one slug to one name.  A kill between
  `register_candidate` and `validate` leaves a CANDIDATE that a later import
  does not validate.
* "A tampered store is detected, not trusted" (`share.py:13-14`) has two
  exceptions.  On import the checksum and the load are
  two reads of the file.  On export the file is replaced and then read back for
  its checksum (`share.py:282-285`, `391-394`), so a content that somebody else
  put there in between is recorded as the item's own, and every import takes it.

In the sentinel: the finalize nudge, "at most ONCE per session"
(`sentinel.py:24`), is repeated for a session that was evicted from the counters
(more than `MAX_SESSIONS_TRACKED`, 512, have reported) or that outlives a restart.
A session that was noted long ago is noted again once as many others as a class
remembers were noted after it.  `_session_notes` is not among the tables that are
bounded: its entries go with those of `_calls`, which has none when calls carry no
budget, and no longer that of a session evicted between the two sections of one
call, whose count then starts again at 0.  The command-line hooks build one engine per
call, so their counters start at 0 each time, and overlapping hook processes
overwrite each other's ledger.

In the client: any HTTP 400 drops the extra payload for good, also when
something else in the request was refused.  In the gate: a numeric task key is
never recognised as a duplicate, and of duplicates the first row counts, where
the docstring says that they are skipped.  In the dashboard: a reset replaces
the memory and the runtime while the worker is inside a cycle of the old ones;
overlapping resets, or two within one second, may leave the page and the worker
on one directory or on two.

## 5. The proofs

`tlapm` proves, for every value of the constants:

| theorem | says |
|---|---|
| `ArtifactLifecycle_proofs!TypeCorrect` | `Spec => []TypeOK` |
| `ArtifactLifecycle_proofs!ViewRebuilt` | `Spec => []ViewEqualsRebuild` if appends do not fail |
| `DreamStore_proofs!TypeCorrect` | `Spec => []TypeOK` |
| `DreamStore_proofs!LockExclusive` | `Spec => []ExclusiveUnlessMisjudged` |
| `DreamStore_proofs!NoLockLeftBehind` | `Spec => []LockReleased` |
| `DreamStore_proofs!NoAttemptLost` | `Spec => []AttemptsExact` |
| `DreamStore_proofs!CadenceKept` | `Spec => Cadence` |
| `LearningLoop_proofs!BudgetKept` | `Spec => []BudgetBound` |
| `LearningLoop_proofs!EpisodesSpend` | `Spec => []EpisodeSpends` |
| `Rollout_proofs!RolloutTyped` | `Spec => []TypeOK` |
| `Rollout_proofs!RolloutRevealsWhatItPays` | `Spec => RevealsWhatItPays` |
| `Rollout_proofs!RolloutReplaysAgree` | `Spec => []ReplaysAgree` |
| `ArtifactLifecycle_proofs!VersionsAreOrdered` | `Spec => []VersionsOrderSlot` |
| `ArtifactLifecycle_proofs!BornAsLogged` | `Spec => []ViewAgreesOnBorn` (*) |
| `ArtifactLifecycle_proofs!IdentitiesStay` | `Spec => IdentityImmutable` (*) |
| `ArtifactLifecycle_proofs!DeletedHasRested` | `Spec => DeletionRested` (*) |
| `ArtifactLifecycle_proofs!HistoryImplemented` | `Spec => ImplementsHistory` (*) |
| `ArtifactLifecycle_proofs!DiskFollowsLog` | `Spec => []DiskIsRebuildOrMissing` if the faults are crashes and torn lines |
| `ArtifactSlots_proofs!OneActivePerSlot` | `Spec => []SingleActive` (*) if every slot has one type |
| `ArtifactSlots_proofs!LineageKept` | `Spec => []LineageClosed` (*) if appends do not fail |
| `ArtifactSlots_proofs!PairsComplete` | `PipelineSpec => PromotionPairCompletes` |
| `ArtifactSlots_proofs!ReplacementsTakeOver` | `PipelineSpec => []ReplacementTookOver` (*) |
| `LearningLoop_proofs!LoopTyped` | `Spec => []TypeOK` |
| `LearningLoop_proofs!RotationIsFair` | `Spec => []FairGap` |
| `LearningLoop_proofs!MirrorKept` | `Spec => []MirrorInStep` |
| `LearningLoop_proofs!ProgramsAreBacked` | `Spec => []ProgramHasEvidence` |
| `Services_proofs!ImportsAreRecorded` | `Spec => []ImportedAsRecorded` |
| `Services_proofs!StoresVerify` | `Spec => []StoreVerifies` |
| `Services_proofs!CorrectionsLast` | `Chat!Spec \/ ChatTimeouts!Spec => []HealsLast` |
| `Services_proofs!PromotionsAreUnharmed` | `Gate!Spec => []PromotedUnharmed` |
| `Services_proofs!NothingIsLost` | `Queue!Spec \/ Registry!Spec => []NothingLost` |
| `Services_proofs!FreezesAreEarned` | `Calibrated => (Stopper!Spec => []FreezeEarned)` |
| `Services_proofs!RecentIsKept` | `Cache!Spec => CacheKeepsRecent` |
| `Rollout_proofs!OutcomesAreRevealed` | `Spec => []OutcomesFromRevealed` |
| `Sentinel_proofs!SentinelTyped` | `Spec => []TypeOK` |
| `Sentinel_proofs!NudgesAreOnce` | `Spec => []NudgedOnce` |
| `Sentinel_proofs!NotesAreOnce` | `Spec => []NotedOnce` if the sessions are finitely many |

**ArtifactLifecycle.**  `TypeOK` alone is not inductive: the commit at the head
of `todo` is applied to a view that earlier commits have changed.  `IInv` adds
the shape of the queue: a creation, or a call that only marks an artifact, can
only be first, the marked artifact is there and the creation is within the
bound; and a manager that is down has no operation.  The moves behind the
first need nothing, because `Legal` looks at the view when they are reached.
`ViewRebuilt` then compares `Materialise` with `ReplayEvent` for each kind of
call, under the assumption that they start from equal states.  It needs
`"append" \notin Faults`, the divergence above.

**DreamStore.**  The argument for the lock is `Safe`: `LockShape` says what a
lock file tells of a maker that is alive, `Judged` that a process whose verdict
is not out of date has judged the lock that is there and condemns only one whose
maker has died, and `Held` that whoever is between creating and unlinking is the
one the lock names.  `Judged` is what makes `Held` inductive: without it
`Reclaim` could remove anything.  For `LockReleased` the errors of writing and of
removing a lock are cases of their own (`Departures`): whoever leaves `dream_once`
without its lock disowns it, and `Stray` says of a lock that nobody holds that the
process whose PID is in it has died, unless its `_release` or `close` has failed.
`Undisturbed` adds that the copy of the counter the holder has read is the counter, and that a full dream stays due for
as long as it lasts; both follow from there being one holder.

**LearningLoop.**  `BudgetInv` needs only that calls are made under `~Exhausted`
and in lots of at most `1 + MaxRepair`.  `SpendInv` carries through the episode
that it was begun with a call left, and that the first try makes one; that it
ends without a try only where the task is granted none.
`FairGap` is not inductive: nothing in it says why the next task taken is not
already ahead.  `FairInv` adds that the tasks left in a cycle are in the order of
their counts (`InOrder`), that the task being worked on has no more than those
after it (`First`), and that as long as a task that is ahead is still waiting, so
are all that are behind (`BehindWait`).  The counts are relative to the least of
them, so one is 0.  It needs that the queue is not empty and names no task twice,
which the constants assume.  `MirrorInv` lets a store be ahead of its mirror
exactly right before its `sync_*` step, or when that step was cut short
(`unsynced`), until the next step of the same slot; `EvidenceInv` says that between
the promotion of a program and the archiving of the tree, the tree in memory holds
the evidence the program names, unless a kill or a failed write lost that tree
(`orphaned`).

**Rollout.**  The trees, scores and horizons are arbitrary here, so the proofs
rest on lemmas about finite sets of numbers: the library's induction theorems
take an operator as a parameter, which the provers cannot instantiate, so
`LeastNatural` (every non-empty set of naturals has a least element) takes
their place; a maximum exists because there is an element with fewest above it,
and the recursive sum of `Total` exists because there is no least length
without one.  `SiblingIndex` says that two children of a node have different
indexes; hence `Expansion`: the one child whose index is the cursor is the one
revealed, and the one paid for.  
For `RolloutReplaysAgree`, `CopiesAgree` proves of the two translations of the
loop that they reveal the same nodes and pay the same, for any tree and any
counts; `Paying` says that the cursor and the rewards are a function of the picks
alone (`ReplayGrows`), and `FloorInv` that the greedy picks were paid by that
function too, each being visible when it was made (`GroundedPicks`).  A path that
begins as the greedy one has therefore its cursor (`CursorOfPrefix`), its payments
and its next node.  Equal picks have equal objectives, which are integers
(`ObjectiveInt`), and none of them is above itself: hence `PromotedElse`, what was
promoted over a greedy floor has done something else.

**The history and the disk.**  `HistoryImplemented` shows that the lifecycle
store implements `ArtifactHistory`, step by step: `StepKinds` sorts every step
into the few it can be for the log, and each is a birth, a move along the rule
table, a deletion, or leaves every life alone.  Two invariants carry it: the view
agrees with the log about what the log has created (`ViewAgreesOnBorn`, also
where appends fail), so a rule table asked about the view speaks of the log; and
`GCInv`, so what is forgotten was ARCHIVED or REJECTED.  `DiskFollowsLog` allows
crashes and torn lines only: a failed save leaves the view behind on disk, and a
hand edit anything.

**Slots.**  The theorems marked (*) assume `OwnIdentities`: no identity a caller
names has the generated form, since `_auto_id` would give it out again (section
4).  `BirthInv` says that what the log holds was created in it, that a generated
identity has a number within the count of creations, and that the creation about
to be logged is of a new identity; without it, a creation could write over an
artifact the view still holds.  `GCInv` says that the second pass of `gc()` comes
last in its queue and that once deletions are queued there is nothing else, each
of an artifact past its retention.  `SlotInv` strengthens `SingleActive` by what
the queue is about to do (`Clears`): an activation is the last call of its
operation, and whatever is ACTIVE in its slot leaves by an earlier call, so that a
crash between any two commits leaves a slot empty, never doubly held.  It assumes
`OneTypeSlots`, the discipline of `loop.py` and `share.py`, where the name of a
slot starts with its type: `sync_active` looks for one incumbent of any type.
For the operations the program calls (`PipelineSpec`), `QueueInv` says that a
supersession is queued right before the activation of the replacement it names
and nothing else, and that the replacement is VALIDATED in the view already or by
the call before; that a verdict is about a candidate of the view or the artifact
the first call creates.  No call in between can spoil it, so the pair of commits
is never refused half way.  `UntroubledInv` adds that as long as nothing has
failed the view is the log and whoever is superseded has a replacement that is
active, or is about to be by the call that is left.
`LineageInv` adds to `LineageClosed` that the replacement named by a queued
supersession is created, or is created by the first call of the same queue.

**Sharing.**  An import is judged against the manifest it has loaded, and a
manifest holds only records of exports (`Recorded`), so what is checked and then
imported is what was recorded under that name.  What is recorded is what the export
finds when it reads its file back: a content of that item, or a foreign one
(`AtHand`), and then the item is among the `adopted` (`ChecksumTaken`).  For the
store, `Published` says
of the manifest on disk, and `Exporting` of the one in memory, which entries
verify: all but those whose file is torn, changed or displaced, and the one that is
written and not yet read back (`Pending`).  The only file
two items can share is the one named by the slug alone, and only if it was
free of the items already taken; hence an export that writes over the file of
another item is one of the cases `displaced` names.  The assumptions are that
the values that stand for no export, no content and a foreign content are not
one of them.

**Sentinel.**  `SentinelTyped` is more than types: the ledger holds a class once
and each of its lists a session once, which is what its bounds are about
(`DistinctIsShort`) and what every other proof starts from.  For
`NudgedOnce` the invariant is `Counted`: the mark of a nudge is kept for sessions
that are counted only, and as long as an engine has seen no more sessions than it
tracks, it has evicted none (`RoomForFew`), so the marks are the sessions that were
due, and each was nudged once.  For `NotedOnce` it is
`Remembered`, whoever has been told is in the list of its class, and `InStep`,
the one engine that runs has in memory what is on disk; the list has room for
every session, so none is pushed out of it.

**The replay.**  `OutcomesFromRevealed` compares two recursive functions over the
tree, one that goes up from a node and one that goes down to it.  That the first
finds the ancestors is an induction by the least counterexample; what is known of
ancestors otherwise (`AncestorsOfParent`, `AncestorsKid`) comes from describing
them as what every set closed under parents must have.  The pass of the code is
then compared with what it has done after each step (`AfterSteps`).  It needs
`CursorInv`: only what is revealed has been expanded, so what is revealed is
closed under parents; without it a score could be under a node the policy has
not seen.

**The client, the gate, the cache and the shared file.**  `PostsInv` counts what
is left of each round of posts; `ConfigInv` says that a request under way asks
for what the client is configured for.  The client that does not retry timeouts
takes no step the other could not (`SameClient`), so one proof does for both.
`GateInv` says of both indexes that they have a task exactly if there is a row of
it, and the verdict of one of its rows.  `CacheInv` describes the table of runs
through what has happened since (`Good`): it holds a program once, with what its
last run put out, and a program behind another in it has been used since that one
was.  So the first entry of a full table has seen all the others used
(`FirstIsOld`), and it is the only one the table gives up unexpired.  For the
shared file, `SharedInv` holds while no two calls have overlapped and no creation
was cut short: one process at most is at work (`Alone`), what it has read, opened
and written is what the file needs (`Writer`, `Prepared`), and the file that has
its name is whole and holds what was acknowledged (`FileSound`).  A name that is
free exists because one process has at most one file open.  The lemmas are about
the queue; `OneWayToWrite` carries them over to the registry, which differs in
what it reads and in who may release.

**The stopper.**  The numbers of `FreezeEarned` (five misses, eight bets) are
those of the calibration, the rounds and the threshold the code uses
(`Calibrated`: 3, 4 and 20, the defaults `loop.py` makes its stopper with), so
the theorem assumes them.  `Worth` says what the wealth of a category can be.
While nothing was promoted it is one of eight numbers (`Dead`), and the eighth is
the first above the threshold.  If the calibration missed once, the rate is one
half or two thirds, a miss at most doubles the wealth and a promotion halves it,
so it is backed by the misses over the promotions (`Backed`); twenty times the
stake then takes five more of them.  Powers of two are described by a function
that doubles (`Doubling`), not computed, so no induction over the number of
rounds is needed.  A category whose wealth is below the threshold runs and one
whose wealth has reached it stopped in that round (`Running`, `Stopped`), which
missed, because a promotion makes no one richer (`MissEnriches`).

The assumptions are the `ConstantsAssumption` of each module, which TLC
evaluates on the instances.

**Only model-checked**: liveness (`DreamsWhenDue`, `LockRecovered`,
`EveryTaskServed`, `GenerationEnds`, and `Recovers`, which is refuted), which
the prover cannot do under fairness; every other property of a passing run is
stated by a theorem.  Where a theorem has a hypothesis (no caller names a
generated identity, every slot has one type, appends do not fail, the faults
are crashes and torn lines, the sessions are finitely many, the stopper has the
numbers of the loop), the rest of what the runs cover is TLC's.

## 6. Not modelled

* Two lifecycle managers, or an unlocked runner beside a locked one, on one
  directory.  Nothing in the code keeps them apart, so the properties of
  `ArtifactLifecycle` and `DreamStore` are false of them at once and there is no
  weaker promise in the code to state; what remains true is that the next
  manager to open rebuilds its view from the log.
* `task_outcomes.json`, the event log of the memory and all reports: written,
  never read back by a decision.
* The seeding of the wake task in `dream_once` and the choice of the branch to
  expand: they decide which candidate is asked for, which is a choice in the
  model.
* Real-valued search (hill climb, simulator, tree scores): its outcome is a
  choice.
* The static gate on generated programs, prompts, the redaction of secrets, the
  parsing of error texts into classes: pure functions of text.
* Subprocesses, HTTP, git, the dashboard's pages and its reset (about which no
  document promises anything), the benchmarks.
* The vendored copies of the package under `plugins/`, which a test of the
  repository keeps identical to `src/open_dream_rsi/`: what is shown of the one
  holds of the others.
