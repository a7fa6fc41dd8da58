-------------------------- MODULE ArtifactLifecycle --------------------------
(***************************************************************************)
(* The Artifact Lifecycle Manager (open_dream_rsi/lifecycle.py): one       *)
(* manager process over one memory directory.                              *)
(*                                                                         *)
(* Two planes.  events.jsonl is an append-only log; states.json is a       *)
(* materialised view of it, and the manager keeps a third copy in memory.  *)
(* The log is modelled by what its left-to-right replay yields: appending  *)
(* an event applies the replay loop's body once (ReplayEvent), so `replay` *)
(* IS rebuild_artifact_state(events), and created / versions / named are   *)
(* the other three questions the code asks of the log.                     *)
(*                                                                         *)
(* A public operation is a program: it reads the view once, and queues the *)
(* commits it is going to make in `todo`.  Each commit is a step of its    *)
(* own, so that an exception, a failed write or a crash may fall between   *)
(* any two commits of one operation.                                       *)
(***************************************************************************)
EXTENDS Integers, Sequences, FiniteSets, SequencesExt

CONSTANTS
  Types,        \* the lifecycle-managed artifact types in use
  Slots,        \* logical slots
  SlotTypes,    \* [Slots -> SUBSET Types]: the types callers put in a slot
  Payloads,     \* artifact payloads
  Good,         \* the payloads the type validators accept
  ExplicitIds,  \* identities a caller may name itself
  NoId,         \* Python's None, where an identity is expected
  Faults,       \* which kinds of fault may strike
  StaleAfter, Grace, Retention,  \* thresholds of the automatic policies
  MaxCreated,   \* bound: artifact.created events
  MaxClock,     \* bound: clock readings
  MaxFaults     \* bound: faults in a behaviour

FaultKinds == {"crash", "torn", "append", "save", "edit"}
SingleActiveTypes == {"policy_parameters", "policy_program"}

ASSUME ConstantsAssumption ==
  /\ SlotTypes \in [Slots -> SUBSET Types]
  /\ Good \subseteq Payloads
  /\ Faults \subseteq FaultKinds
  /\ {StaleAfter, Grace, Retention, MaxCreated, MaxClock, MaxFaults} \subseteq Nat
  /\ IsFiniteSet(Types) /\ IsFiniteSet(ExplicitIds)
  /\ NoId \notin (Types \X (1 .. MaxCreated)) \cup ExplicitIds

-----------------------------------------------------------------------------
(* Vocabulary. *)

States == {"CANDIDATE", "VALIDATED", "ACTIVE", "STALE", "SUPERSEDED",
           "QUARANTINED", "ARCHIVED", "REJECTED"}

Edges ==
  {<<"CANDIDATE", "VALIDATED">>, <<"CANDIDATE", "REJECTED">>,
   <<"VALIDATED", "ACTIVE">>, <<"VALIDATED", "REJECTED">>,
   <<"VALIDATED", "QUARANTINED">>, <<"ACTIVE", "STALE">>,
   <<"ACTIVE", "SUPERSEDED">>, <<"ACTIVE", "QUARANTINED">>,
   <<"STALE", "ARCHIVED">>, <<"STALE", "QUARANTINED">>,
   <<"SUPERSEDED", "ARCHIVED">>, <<"ARCHIVED", "VALIDATED">>,
   <<"QUARANTINED", "VALIDATED">>}

AutoIds == Types \X (1 .. MaxCreated)
Ids == AutoIds \cup ExplicitIds

Absent == [lc |-> "ABSENT"]

State ==
  [type : Types, slot : Slots, lc : States, version : Nat, pinned : BOOLEAN,
   payload : Payloads, by : Ids \cup {NoId},
   created_at : Nat, updated_at : Nat, last_used_at : Nat]

Views == [Ids -> State \cup {Absent}]
NoView == [i \in Ids |-> Absent]

(* A call is one commit an operation is going to make; "collect" stands    *)
(* for the second pass of gc(), whose commits are known when it is reached. *)
CreateCall == [kind : {"create"}, id : Ids, type : Types, slot : Slots, payload : Payloads]
MoveCall == [kind : {"move"}, id : Ids, to : States, repl : Ids \cup {NoId}]
NoteCall == [kind : {"annotated"}, id : Ids, payload : Payloads]
MarkCall == [kind : {"used", "pinned", "unpinned"}, id : Ids]
DeleteCall == [kind : {"deleted"}, id : Ids]
CollectCall == [kind : {"collect"}]
Call == CreateCall \cup MoveCall \cup NoteCall \cup MarkCall \cup DeleteCall \cup CollectCall

VARIABLES
  up,        \* the manager process is running
  clock,     \* the wall clock, in units of the thresholds
  view,      \* the manager's self._states
  disk,      \* states.json; NoView when missing or unreadable
  replay,    \* rebuild_artifact_state(events.jsonl)
  created,   \* number of artifact.created events
  versions,  \* per slot, the highest version in an artifact.created event
  named,     \* the identities some event is about
  born,      \* the identities with an artifact.created event
  torn,      \* the last line of events.jsonl is half written
  todo,      \* the commits the running operation still has to make
  faults     \* faults so far

logVars == <<replay, created, versions, named, born>>
vars == <<up, clock, view, disk, replay, created, versions, named, born,
          torn, todo, faults>>

Present(v) == {i \in Ids : v[i].lc # "ABSENT"}
In(v, S) == {i \in Ids : v[i].lc \in S}

TypeOK ==
  /\ up \in BOOLEAN /\ torn \in BOOLEAN
  /\ clock \in 1 .. MaxClock + 1
  /\ view \in Views /\ disk \in Views /\ replay \in Views
  /\ created \in 0 .. MaxCreated
  /\ versions \in [Slots -> Nat]
  /\ named \in SUBSET Ids /\ born \in SUBSET Ids
  /\ todo \in Seq(Call)
  /\ faults \in 0 .. MaxFaults

Init ==
  /\ up = TRUE /\ torn = FALSE
  /\ clock = 1
  /\ view = NoView /\ disk = NoView /\ replay = NoView
  /\ created = 0
  /\ versions = [s \in Slots |-> 0]
  /\ named = {} /\ born = {}
  /\ todo = <<>>
  /\ faults = 0

-----------------------------------------------------------------------------
(* One commit: the event, the two ways it is applied, and where it can fail. *)

(* Mutant: the version is counted in the view, which deletion shrinks. *)
NextVersionOfView(s) == 1 + Cardinality({i \in Present(view) : view[i].slot = s})

(* The log is asked, not the view: a version is never given twice in a slot. *)
NextVersion(s) == versions[s] + 1

(* self._states.get(...) of _commit before the event is applied: a created   *)
(* artifact is materialised beforehand by register_candidate.                *)
Fresh(c) ==
  [type |-> c.type, slot |-> c.slot, lc |-> "CANDIDATE",
   version |-> NextVersion(c.slot), pinned |-> FALSE, payload |-> c.payload,
   by |-> NoId, created_at |-> 0, updated_at |-> 0, last_used_at |-> 0]

(* What _commit does to the materialised artifact: every commit stamps it,   *)
(* and each kind assigns the fields of its own.                              *)
Materialise(c) ==
  LET st == IF c.kind = "create" THEN Fresh(c) ELSE view[c.id] IN
  IF c.kind = "deleted" THEN Absent
  ELSE [type |-> st.type, slot |-> st.slot, version |-> st.version,
        lc |-> IF c.kind = "move" THEN c.to ELSE st.lc,
        by |-> IF c.kind = "move" /\ c.to = "SUPERSEDED" THEN c.repl ELSE st.by,
        pinned |-> IF c.kind \in {"pinned", "unpinned"} THEN c.kind = "pinned" ELSE st.pinned,
        payload |-> IF c.kind = "annotated" THEN c.payload ELSE st.payload,
        created_at |-> IF c.kind = "create" THEN clock ELSE st.created_at,
        last_used_at |-> IF c.kind = "used" THEN clock ELSE st.last_used_at,
        updated_at |-> clock]

(* The body of rebuild_artifact_state's loop, on the event of call c: one     *)
(* branch for each kind of event, and an event about an identity without an   *)
(* artifact.created event is skipped.                                         *)
Touched(i) == [replay[i] EXCEPT !.updated_at = clock]
Moved(c) == [Touched(c.id) EXCEPT !.lc = c.to]

ReplayEvent(c) ==
  IF c.kind = "create" THEN
    [type |-> c.type, slot |-> c.slot, version |-> NextVersion(c.slot),
     lc |-> "CANDIDATE", by |-> NoId, pinned |-> FALSE, payload |-> c.payload,
     created_at |-> clock, last_used_at |-> 0, updated_at |-> clock]
  ELSE IF c.kind = "deleted" \/ replay[c.id] = Absent THEN Absent
  ELSE IF c.kind = "used" THEN [Touched(c.id) EXCEPT !.last_used_at = clock]
  ELSE IF c.kind = "pinned" THEN [Touched(c.id) EXCEPT !.pinned = TRUE]
  ELSE IF c.kind = "unpinned" THEN [Touched(c.id) EXCEPT !.pinned = FALSE]
  ELSE IF c.kind = "annotated" THEN [Touched(c.id) EXCEPT !.payload = c.payload]
  ELSE IF c.to = "SUPERSEDED" THEN [Moved(c) EXCEPT !.by = c.repl]
  ELSE Moved(c)

(* ArtifactEventStore.append: one line at the end of events.jsonl. *)
AppendEvent(c) ==
  /\ replay' = [replay EXCEPT ![c.id] = ReplayEvent(c)]
  /\ named' = named \cup {c.id}
  /\ IF c.kind = "create"
     THEN /\ created' = created + 1
          /\ versions' = [versions EXCEPT ![c.slot] = NextVersion(c.slot)]
          /\ born' = born \cup {c.id}
     ELSE UNCHANGED <<created, versions, born>>

(* Mutant: the rule table is not consulted. *)
LegalUnchecked(c) == c.kind = "move" => view[c.id] # Absent

(* _transition refuses a move that is not in the rule table. *)
Legal(c) == c.kind = "move" => <<view[c.id].lc, c.to>> \in Edges

Committing(c) == up /\ c.kind # "collect" /\ Legal(c)
Applied(c) == [view EXCEPT ![c.id] = Materialise(c)]
Strike(kind) == kind \in Faults /\ faults < MaxFaults /\ faults' = faults + 1

(* The event is appended, then the view changes, then states.json is saved. *)
Commit(c) ==
  /\ Committing(c)
  /\ AppendEvent(c)
  /\ view' = Applied(c)
  /\ disk' = view'
  /\ todo' = Tail(todo)
  /\ UNCHANGED <<up, clock, torn, faults>>

(* InvalidTransitionError in the middle of an operation: what was committed *)
(* before it stays, the rest of the operation is not done.                  *)
Raise(c) ==
  /\ up /\ ~Legal(c)
  /\ todo' = <<>>
  /\ UNCHANGED <<up, clock, view, disk, logVars, torn, faults>>

(* Mutant: the view is changed before the event is appended. *)
AppendFailsLate(c) ==
  /\ Committing(c)
  /\ Strike("append")
  /\ view' = Applied(c)
  /\ todo' = <<>>
  /\ UNCHANGED <<up, clock, disk, logVars, torn>>

(* store.append raises (no space, no permission).  register_candidate has   *)
(* already put the candidate into self._states.                             *)
AppendFails(c) ==
  /\ Committing(c)
  /\ Strike("append")
  /\ view' = IF c.kind = "create" THEN [view EXCEPT ![c.id] = Fresh(c)] ELSE view
  /\ todo' = <<>>
  /\ UNCHANGED <<up, clock, disk, logVars, torn>>

(* save_states raises: the event and the view in memory are ahead of disk.  *)
SaveFails(c) ==
  /\ Committing(c)
  /\ Strike("save")
  /\ AppendEvent(c)
  /\ view' = Applied(c)
  /\ todo' = <<>>
  /\ UNCHANGED <<up, clock, disk, torn>>

Stops == up' = FALSE /\ view' = NoView /\ todo' = <<>> /\ UNCHANGED clock

(* The process dies after the append and before states.json is replaced. *)
CrashAfterAppend(c) ==
  /\ Committing(c)
  /\ Strike("crash")
  /\ AppendEvent(c)
  /\ Stops
  /\ UNCHANGED <<disk, torn>>

(* The process dies while the line is being written. *)
CrashMidAppend(c) ==
  /\ Committing(c)
  /\ Strike("torn")
  /\ torn' = TRUE
  /\ Stops
  /\ UNCHANGED <<disk, logVars>>

(* The process dies, or simply ends, between two commits. *)
Crash ==
  /\ up
  /\ Strike("crash")
  /\ Stops
  /\ UNCHANGED <<disk, logVars, torn>>

(* Mutants: a states.json that can be read is trusted; it is rebuilt in      *)
(* memory only.                                                              *)
OpenTrusting ==
  /\ ~up /\ ~torn
  /\ up' = TRUE
  /\ view' = IF disk # NoView THEN disk ELSE replay
  /\ UNCHANGED <<clock, disk, logVars, torn, todo, faults>>

OpenForgetting ==
  /\ ~up /\ ~torn
  /\ up' = TRUE
  /\ view' = replay
  /\ UNCHANGED <<clock, disk, logVars, torn, todo, faults>>

(* ArtifactLifecycleManager.__init__.  read_events raises on a torn line;   *)
(* an empty or unreadable view is ignored, one that differs from the log is *)
(* replaced.                                                                *)
Open ==
  /\ ~up /\ ~torn
  /\ up' = TRUE
  /\ IF disk = NoView \/ disk = replay
     THEN /\ view' = IF disk # NoView THEN disk ELSE replay
          /\ UNCHANGED disk
     ELSE /\ view' = replay
          /\ disk' = view'
  /\ UNCHANGED <<clock, logVars, torn, todo, faults>>

(* External: states.json is lost, or someone edits an artifact's state in it. *)
LoseDisk ==
  /\ Strike("edit")
  /\ disk # NoView
  /\ disk' = NoView
  /\ UNCHANGED <<up, clock, view, logVars, torn, todo>>

EditDisk(i) ==
  /\ Strike("edit")
  /\ disk[i] # Absent
  /\ disk[i].lc # "ACTIVE"
  /\ disk' = [disk EXCEPT ![i].lc = "ACTIVE"]
  /\ UNCHANGED <<up, clock, view, logVars, torn, todo>>

-----------------------------------------------------------------------------
(* The public operations.  Each reads the view, refuses what the code       *)
(* refuses by not being enabled, and queues its commits.                    *)

Create(i, t, s, p) == [kind |-> "create", id |-> i, type |-> t, slot |-> s, payload |-> p]
Move(i, to) == [kind |-> "move", id |-> i, to |-> to, repl |-> NoId]
Supersession(i, r) == [kind |-> "move", id |-> i, to |-> "SUPERSEDED", repl |-> r]
Mark(i, kind) == [kind |-> kind, id |-> i]

Start(calls) ==
  /\ up /\ todo = <<>>
  /\ todo' = calls
  /\ UNCHANGED <<up, clock, view, disk, logVars, torn, faults>>

(* Mutant: an off-by-one. *)
NewIdSkipping(t) == <<t, created + 2>>

(* _auto_id: the next number, whatever the identities in use are. *)
NewId(t) == <<t, created + 1>>
CanCreate(t, s) == created < MaxCreated /\ t \in SlotTypes[s]

RegisterCandidate(t, s, p) ==
  /\ CanCreate(t, s)
  /\ Start(<<Create(NewId(t), t, s, p)>>)

(* Mutant: the identity is not looked up. *)
RegisterCandidateAnyway(i, t, s, p) ==
  CanCreate(t, s) /\ Start(<<Create(i, t, s, p)>>)

RegisterCandidateAs(i, t, s, p) ==
  /\ CanCreate(t, s)
  /\ view[i] = Absent /\ i \notin named
  /\ Start(<<Create(i, t, s, p)>>)

(* Structural validation of a candidate that carries payload p. *)
Verdict(i, p) == Move(i, IF p \in Good THEN "VALIDATED" ELSE "REJECTED")

(* Mutants: the current artifact is dealt with before the new one is        *)
(* registered; the verdict is ignored.                                      *)
DeriveLast(new, t, s, p, rest) == rest \o <<Create(new, t, s, p), Verdict(new, p)>>
DeriveAnyway(new, t, s, p, rest) == <<Create(new, t, s, p), Verdict(new, p)>> \o rest

(* How sync_active, merge and rollback begin: register a new artifact,      *)
(* validate it, and go on only if it passed.                                *)
Derive(new, t, s, p, rest) ==
  <<Create(new, t, s, p), Verdict(new, p)>> \o IF p \in Good THEN rest ELSE <<>>

Validate(i) ==
  /\ view[i].lc = "CANDIDATE"
  /\ Start(<<Verdict(i, view[i].payload)>>)

(* active_in_slot: the first ACTIVE artifact of the slot, in the order of   *)
(* the dictionary, which is the order of creation.                          *)
Actives(s, T) == {i \in In(view, {"ACTIVE"}) : view[i].slot = s /\ view[i].type \in T}
ActiveInSlot(s, T) ==
  IF Actives(s, T) = {} THEN {NoId}
  ELSE {i \in Actives(s, T) : \A j \in Actives(s, T) : view[i].version <= view[j].version}

(* Mutant: the slot is not looked at. *)
ActivateAnyway(i) == view[i].lc = "VALIDATED" /\ Start(<<Move(i, "ACTIVE")>>)

Activate(i) ==
  /\ view[i].lc = "VALIDATED"
  /\ view[i].type \in SingleActiveTypes =>
       Actives(view[i].slot, {view[i].type}) = {}
  /\ Start(<<Move(i, "ACTIVE")>>)

PromoteReplacement(i) ==
  \E cur \in ActiveInSlot(view[i].slot, {view[i].type}) \ {i} :
    Start((IF cur = NoId THEN <<>> ELSE <<Supersession(cur, i)>>) \o <<Move(i, "ACTIVE")>>)

MarkStale(i) == <<view[i].lc, "STALE">> \in Edges /\ Start(<<Move(i, "STALE")>>)
Archive(i) == <<view[i].lc, "ARCHIVED">> \in Edges /\ Start(<<Move(i, "ARCHIVED")>>)
Quarantine(i) == <<view[i].lc, "QUARANTINED">> \in Edges /\ Start(<<Move(i, "QUARANTINED")>>)
Reject(i) == <<view[i].lc, "REJECTED">> \in Edges /\ Start(<<Move(i, "REJECTED")>>)

Supersede(i, r) ==
  /\ view[i].lc = "ACTIVE"
  /\ view[r].type = view[i].type
  /\ Start(<<Supersession(i, r)>>)

Restore(i) ==
  /\ view[i].lc \in {"ARCHIVED", "QUARANTINED"}
  /\ view[i].payload \in Good
  /\ Start(<<Move(i, "VALIDATED")>>)

RecordUse(i) == view[i].lc = "ACTIVE" /\ Start(<<Mark(i, "used")>>)
Pin(i) == ~view[i].pinned /\ Start(<<Mark(i, "pinned")>>)
Unpin(i) == view[i].pinned /\ Start(<<Mark(i, "unpinned")>>)
Annotate(i, p) == Start(<<[kind |-> "annotated", id |-> i, payload |-> p]>>)

VerifyIntegrity(i) ==
  /\ view[i].payload \notin Good
  /\ view[i].lc \in {"ACTIVE", "VALIDATED", "STALE"}
  /\ Start(<<Move(i, "QUARANTINED")>>)

Retire(i) ==
  CASE view[i].lc = "ACTIVE" -> Start(<<Move(i, "STALE"), Move(i, "ARCHIVED")>>)
    [] view[i].lc \in {"STALE", "SUPERSEDED"} -> Start(<<Move(i, "ARCHIVED")>>)
    [] view[i].lc \in {"CANDIDATE", "VALIDATED"} -> Start(<<Move(i, "REJECTED")>>)
    [] OTHER -> FALSE

(* The seam the learning pipeline calls when it has promoted payload p. *)
SyncActive(t, s, p) ==
  LET new == NewId(t) IN
  /\ CanCreate(t, s)
  /\ \E cur \in ActiveInSlot(s, Types) :
       /\ cur # NoId => ~(view[cur].payload = p /\ view[cur].type = t)
       /\ Start(Derive(new, t, s, p,
                (IF cur = NoId THEN <<>>
                 ELSE IF view[cur].type = t THEN <<Supersession(cur, new)>>
                 ELSE <<Move(cur, "QUARANTINED")>>) \o <<Move(new, "ACTIVE")>>))

Usable == {"ACTIVE", "VALIDATED", "STALE"}

(* merge([i, j]): the merged artifact takes i's slot. *)
Merge(i, j, p) ==
  LET new == NewId(view[i].type) IN
  /\ {view[i].lc, view[j].lc} \subseteq Usable
  /\ view[i].type = view[j].type
  /\ CanCreate(view[i].type, view[i].slot)
  /\ Start(Derive(new, view[i].type, view[i].slot, p,
           (IF view[i].lc = "ACTIVE" THEN <<Supersession(i, new)>> ELSE <<>>) \o
           (IF view[j].lc = "ACTIVE" /\ i # j THEN <<Supersession(j, new)>> ELSE <<>>)))

(* rollback: supersede() refuses a current artifact of another type after   *)
(* the derived one has been registered and validated.                       *)
Rollback(i) ==
  LET t == view[i].type
      s == view[i].slot
      p == view[i].payload
      new == NewId(t) IN
  /\ view[i].lc \in {"SUPERSEDED", "ARCHIVED", "STALE"}
  /\ CanCreate(t, s)
  /\ \E cur \in ActiveInSlot(s, Types) :
       Start(Derive(new, t, s, p,
             IF cur = NoId THEN <<Move(new, "ACTIVE")>>
             ELSE IF view[cur].type # t THEN <<>>
             ELSE <<Supersession(cur, new), Move(new, "ACTIVE")>>))

(* The automatic policies: one commit per eligible artifact. *)
ForEach(S, call(_)) == LET q == SetToSeq(S) IN [k \in 1 .. Len(q) |-> call(q[k])]

LastUse(st) == IF st.last_used_at # 0 THEN st.last_used_at ELSE st.created_at
Forgotten == {i \in In(view, {"ACTIVE"}) :
                ~view[i].pinned /\ clock - LastUse(view[i]) > StaleAfter}
PastGrace == {i \in In(view, {"SUPERSEDED", "STALE"}) :
                ~view[i].pinned /\ clock - view[i].updated_at > Grace}
(* Mutant: a pin does not protect from deletion. *)
PastRetentionPinned == {i \in In(view, {"ARCHIVED", "REJECTED"}) :
                          clock - view[i].updated_at > Retention}
PastRetention == {i \in In(view, {"ARCHIVED", "REJECTED"}) :
                    ~view[i].pinned /\ clock - view[i].updated_at > Retention}

ToStale(i) == Move(i, "STALE")
ToArchive(i) == Move(i, "ARCHIVED")
ToDelete(i) == Mark(i, "deleted")

DetectStale == Forgotten # {} /\ Start(ForEach(Forgotten, ToStale))

GC ==
  /\ PastGrace \cup PastRetention # {}
  /\ Start(ForEach(PastGrace, ToArchive) \o <<[kind |-> "collect"]>>)

(* The second pass of gc() reads the view as the first has left it. *)
Collect ==
  /\ up /\ todo # <<>> /\ Head(todo).kind = "collect"
  /\ todo' = ForEach(PastRetention, ToDelete) \o Tail(todo)
  /\ UNCHANGED <<up, clock, view, disk, logVars, torn, faults>>

(* The thresholds are days: an operation reads one value of the clock. *)
Tick ==
  /\ clock <= MaxClock /\ todo = <<>>
  /\ clock' = clock + 1
  /\ UNCHANGED <<up, view, disk, logVars, torn, todo, faults>>

-----------------------------------------------------------------------------
Authoring ==
  \E s \in Slots, t \in Types, p \in Payloads :
    \/ RegisterCandidate(t, s, p)
    \/ \E i \in ExplicitIds : RegisterCandidateAs(i, t, s, p)
    \/ SyncActive(t, s, p)

Moves ==
  \E i \in Present(view) :
    \/ Validate(i) \/ Activate(i) \/ PromoteReplacement(i)
    \/ MarkStale(i) \/ Archive(i) \/ Quarantine(i) \/ Reject(i)
    \/ Restore(i) \/ Retire(i) \/ Rollback(i) \/ VerifyIntegrity(i)
    \/ \E j \in Present(view) : Supersede(i, j) \/ \E p \in Payloads : Merge(i, j, p)

Marks ==
  \E i \in Present(view) :
    \/ RecordUse(i) \/ Pin(i) \/ Unpin(i)
    \/ \E p \in Payloads : Annotate(i, p)

Maintenance == DetectStale \/ GC \/ Collect

Step ==
  /\ todo # <<>>
  /\ LET c == Head(todo) IN
       Commit(c) \/ Raise(c) \/ AppendFails(c) \/ SaveFails(c)
         \/ CrashAfterAppend(c) \/ CrashMidAppend(c)

Environment == Crash \/ Open \/ LoseDisk \/ Tick \/ \E i \in Ids : EditDisk(i)

Next == Authoring \/ Moves \/ Marks \/ Maintenance \/ Step \/ Environment

Spec == Init /\ [][Next]_vars

(* What the shipped program asks of the manager: the loop mirrors its       *)
(* promotions and runs the policies after each cycle, odr import registers  *)
(* and validates candidates.                                                *)
PipelineNext ==
  \/ \E s \in Slots, t \in Types, p \in Payloads :
       RegisterCandidate(t, s, p) \/ SyncActive(t, s, p)
  \/ \E i \in Present(view) : Validate(i)
  \/ Maintenance \/ Step \/ Environment

UnmarkedNext == Authoring \/ Moves \/ Maintenance \/ Step \/ Environment

UnmarkedSpec == Init /\ [][UnmarkedNext]_vars

PipelineSpec == Init /\ [][PipelineNext]_vars
(* Somebody opens the store again after a crash: the next hook, cron call or *)
(* daemon start constructs a manager.                                        *)
FairPipelineSpec == PipelineSpec /\ WF_vars(Open)

-----------------------------------------------------------------------------
(* Properties. *)

(* README, lifecycle.py:277-280 and :847: while a manager runs, its view is *)
(* rebuild_artifact_state(events), whatever failed, crashed or was edited.  *)
ViewEqualsRebuild == up => view = replay

(* The same where an append may fail: the view and the log agree about      *)
(* every artifact the log has created.                                      *)
ViewAgreesOnBorn == up => \A i \in born : view[i] = replay[i]

(* lifecycle.py:98-101: in a slot that holds one type, at most one artifact *)
(* of a single-active type is ACTIVE, for the runtime and in the log.       *)
OneActive(v) ==
  \A i, j \in In(v, {"ACTIVE"}) :
    /\ v[i].type \in SingleActiveTypes
    /\ v[i].type = v[j].type /\ v[i].slot = v[j].slot
    => i = j
SingleActive == OneActive(view) /\ OneActive(replay)

(* supersede()'s "explicit replacement lineage": whatever happened between, *)
(* the replacement a SUPERSEDED artifact names has been registered.         *)
LineageClosed ==
  \A i \in In(replay, {"SUPERSEDED"}) : replay[i].by \in born

(* Promotion through the pipeline never trades a working artifact for one   *)
(* that stays behind: when no operation is running and nothing has failed,  *)
(* the replacement of every SUPERSEDED artifact has been activated.         *)
ReplacementTookOver ==
  up /\ todo = <<>> /\ faults = 0 =>
    \A i \in In(replay, {"SUPERSEDED"}) :
      replay[replay[i].by].lc \notin {"CANDIDATE", "VALIDATED", "REJECTED"}

(* sync_active(): the current artifact of a slot is superseded only when    *)
(* the activation that follows is a legal one.  promote_replacement(),      *)
(* which the pipeline does not call, does not promise it.                   *)
PromotionPairCompletes ==
  [][\A i \in Ids, r \in Ids :
       /\ todo # <<>> /\ todo' = <<Move(r, "ACTIVE")>>
       /\ view[i].lc = "ACTIVE" /\ view'[i].lc = "SUPERSEDED"
       => view[r].lc = "VALIDATED"]_vars

(* gc(): what is physically deleted was ARCHIVED or REJECTED, unpinned, and *)
(* had rested longer than the retention time since its last change.         *)
DeletionRested ==
  [][\A i \in Ids : replay[i] # Absent /\ replay'[i] = Absent =>
       /\ replay[i].lc \in {"ARCHIVED", "REJECTED"}
       /\ ~replay[i].pinned
       /\ clock - replay[i].updated_at > Retention]_vars

(* lifecycle.py:400-402: a registered identity is never registered again;   *)
(* its type, slot and version are what they were.                           *)
IdentityImmutable ==
  [][\A i \in Ids : replay[i] # Absent /\ replay'[i] # Absent =>
       /\ replay'[i].version = replay[i].version
       /\ replay'[i].type = replay[i].type
       /\ replay'[i].slot = replay[i].slot]_vars

(* Versions order the artifacts of a slot: no two that the log still holds  *)
(* have the same one, and none is above the slot's counter.                 *)
VersionsOrderSlot ==
  \A i, j \in Present(replay) :
    replay[i].slot = replay[j].slot =>
      /\ replay[i].version <= versions[replay[i].slot]
      /\ i # j => replay[i].version # replay[j].version

(* states.json is missing or is the log's rebuild whenever a manager runs   *)
(* and the only faults are crashes.                                         *)
DiskIsRebuildOrMissing == up => disk \in {replay, NoView}

(* lifecycle.py:17: states.json is always reconstructible from the events,   *)
(* so a crash is followed by a manager that runs again.                      *)
Recovers == ~up ~> up

(* The log implements ArtifactHistory: crashes, failures, restarts and hand *)
(* edits never move an artifact, and commits move it along the rule table.  *)
Life(i) ==
  IF replay[i] # Absent THEN replay[i].lc
  ELSE IF i \in born THEN "forgotten" ELSE "unborn"
History == INSTANCE ArtifactHistory WITH life <- [i \in Ids |-> Life(i)]
ImplementsHistory == History!Spec
=============================================================================
