---------------------------- MODULE MC_Services -----------------------------
(***************************************************************************)
(* The components that keep a state of their own: a behaviour is a behaviour *)
(* of one of them, the one in focus.                                        *)
(***************************************************************************)
EXTENDS Sharing, Sequences

CONSTANTS
  Models, MaxRetries, NoModel,
  Keys, Outcomes, MaxEntries, TTL,
  Processes, QueueEntries, RegistryEntries, Torn,
  Categories, Calibration, MinRounds, Threshold, MaxRounds,
  Tasks, MinNet, MaxRows,
  Nothing

ASSUME ServicesAssumption ==
  /\ MaxRetries \in Nat
  /\ MinNet \in Nat \ {0}
  /\ IsFiniteSet(Processes)
  /\ MaxEntries \in Nat \ {0} /\ TTL \in Nat
  /\ Nothing \notin Keys \cup [out : Outcomes, age : Nat] /\ Nothing \notin Int
  /\ \A S \in (SUBSET QueueEntries) \cup (SUBSET RegistryEntries) : S # Torn

VARIABLES
  focus,
  served, accepts, model, extra, request, sent, tries, posts, settled,
  entries, running, returned, latest, later,
  names, content, step, copy, opened, change, told, clean,
  stopper, inCycle, attempted, promoted,
  rows, index, duplicates, verdict

Chat == INSTANCE LLMClient WITH RetryTimeouts <- FALSE
ChatTimeouts == INSTANCE LLMClient WITH RetryTimeouts <- TRUE
Cache == INSTANCE SandboxCache
Queue == INSTANCE SharedFile WITH Forgiving <- FALSE, Entries <- QueueEntries
Registry == INSTANCE SharedFile WITH Forgiving <- TRUE, Entries <- RegistryEntries
Stopper == INSTANCE EvolutionStopper
Gate == INSTANCE GateReplay

chatVars == <<served, accepts, model, extra, request, sent, tries, posts, settled>>
cacheVars == <<entries, running, returned, latest, later>>
fileVars == <<names, content, step, copy, opened, change, told, clean>>
stopperVars == <<stopper, inCycle, attempted, promoted>>
gateVars == <<rows, index, duplicates, verdict>>
sharingVars == vars
MCVars == <<focus, chatVars, cacheVars, fileVars, stopperVars, gateVars, sharingVars>>

\* Two tasks, and one for two uses.
MCRegistryEntries == {[id |-> 1, for |-> 1], [id |-> 1, for |-> 2]}
MCQueueEntries == MCRegistryEntries \cup {[id |-> 2, for |-> 1]}

\* Worlds 1 and 2 have one slug, the programs have one each.
MCSlug == [i \in Items |-> IF i \in Worlds THEN 1 ELSE i]

\* Out of focus the client starts in one state of those it may start in.
MCInit ==
  /\ focus \in {"chat", "chat timeouts", "cache", "queue", "registry", "stopper", "gate",
               "sharing"}
  /\ Chat!Init
  /\ focus \notin {"chat", "chat timeouts"} =>
       served = model /\ model = (CHOOSE m \in Models : TRUE) /\ accepts /\ ~extra
  /\ Cache!Init /\ Queue!Init /\ Stopper!Init /\ Gate!Init
  /\ Init

MCNext ==
  /\ UNCHANGED focus
  /\ \/ /\ focus = "chat" /\ Chat!Next
        /\ UNCHANGED <<cacheVars, fileVars, stopperVars, gateVars, sharingVars>>
     \/ /\ focus = "chat timeouts" /\ ChatTimeouts!Next
        /\ UNCHANGED <<cacheVars, fileVars, stopperVars, gateVars, sharingVars>>
     \/ /\ focus = "cache" /\ Cache!Next
        /\ UNCHANGED <<chatVars, fileVars, stopperVars, gateVars, sharingVars>>
     \/ /\ focus = "queue" /\ Queue!Next
        /\ UNCHANGED <<chatVars, cacheVars, stopperVars, gateVars, sharingVars>>
     \/ /\ focus = "registry" /\ Registry!Next
        /\ UNCHANGED <<chatVars, cacheVars, stopperVars, gateVars, sharingVars>>
     \/ /\ focus = "stopper" /\ Stopper!Next
        /\ UNCHANGED <<chatVars, cacheVars, fileVars, gateVars, sharingVars>>
     \/ /\ focus = "gate" /\ Gate!Next
        /\ UNCHANGED <<chatVars, cacheVars, fileVars, stopperVars, sharingVars>>
     \/ /\ focus = "sharing" /\ Next
        /\ UNCHANGED <<chatVars, cacheVars, fileVars, stopperVars, gateVars>>

MCSpec == MCInit /\ [][MCNext]_MCVars

\* LLMClient: a correction of the configuration is kept (llm.py:248-268).
HealsLast == Chat!HealsLast

\* SandboxCache: what a call returns is recent, and only what is old or least used
\* is given up (sandbox.py:250-269).
CacheKeepsRecent == Cache!CacheKeepsRecent

\* SharedFile: an acknowledged entry stays while writers do not overlap
\* (loop.py:107-142, holdout.py:44-93).
NothingLost == Queue!NothingLost

\* EvolutionStopper: a category is frozen on evidence only (evolution.py:60-75).
FreezeEarned == Stopper!FreezeEarned

\* GateReplay: a promoted arm gained and harmed nothing (gate_replay.py:49-69).
PromotedUnharmed == Gate!PromotedUnharmed
=============================================================================
