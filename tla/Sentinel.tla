------------------------------ MODULE Sentinel ------------------------------
(***************************************************************************)
(* The error-class sentinel, src/open_dream_rsi/sentinel.py: an engine that *)
(* is fed every tool result, counts the classes of the failing ones across  *)
(* sessions, notes a class that recurs, and nudges a session that has used  *)
(* most of its budget of tool calls.  Every table it keeps is bounded, each *)
(* by an eviction of its own.                                               *)
(*                                                                          *)
(* A ledger is the sequence of its records, least recently seen first, which *)
(* is what last_ts is for; counts are kept up to the threshold they are      *)
(* compared with, and the calls of a session up to the largest trigger.      *)
(***************************************************************************)
EXTENDS Integers, Sequences, FiniteSets, SequencesExt

CONSTANTS
  Engines,             \* processes that hold an engine on the one state file
  Threads,             \* threads of those processes that report a tool result
  Sessions,
  Classes,             \* classes of errors, by signature_key
  Clean,               \* a result that is no error
  Intra, Cross,        \* intra_session_repeat, cross_session_count
  Triggers,            \* ceil(finalize_at * budget) of a call, 0 when it has no budget
  MaxTrigger,          \* the largest of them
  MaxNotes,            \* max_notes_per_session, 0 when there is no cap
  MaxTracked,          \* error classes in the ledger
  MaxSessionsPerSig,   \* sessions listed with a class
  MaxNotifiedPerSig,   \* notified sessions remembered with a class
  MaxSessionsTracked   \* sessions with counters in memory

ASSUME ConstantsAssumption ==
  /\ Clean \notin Classes
  /\ Intra \in Nat \ {0} /\ Cross \in Nat \ {0}
  /\ MaxTrigger \in Nat /\ Triggers \subseteq 0..MaxTrigger /\ MaxNotes \in Nat
  /\ MaxTracked \in Nat \ {0} /\ MaxSessionsPerSig \in Nat \ {0}
  /\ MaxNotifiedPerSig \in Nat \ {0} /\ MaxSessionsTracked \in Nat \ {0}

VARIABLES
  up,         \* the engines that are running
  ledger,     \* [Engines -> ledger]: _sigs
  tracked,    \* [Engines -> Seq(Sessions)]: the keys of _calls in insertion order
  used,       \* [Engines -> [Sessions -> 0..MaxTrigger]]: _calls
  nudged,     \* [Engines -> SUBSET Sessions]: _nudged
  notes,      \* [Engines -> [Sessions -> Nat]]: _session_notes
  disk,       \* the ledger in the state file
  failing,    \* [Threads -> an error counted as a call and not yet observed, or Clean]
  seen,       \* history: the sessions whose calls an engine has counted
  nudges,     \* history: nudges handed out per session, up to 2, and
  due,        \* the sessions a call of which has reached its trigger, both until
              \* an engine has seen more sessions than it tracks
  told,       \* history: thresholds crossed per class in the ledger and session, up to 2
  apart       \* history: a save has failed, or two engines had a ledger each

counters == <<tracked, used, nudged, seen, nudges, due>>
vars == <<up, ledger, counters, notes, disk, failing, told, apart>>

Record == [sig : Classes, sessions : Seq(Sessions), notified : Seq(Sessions),
           hits : [Sessions -> 0..Intra]]

AtMost(n, x) == IF x > n THEN n ELSE x
Elems(s) == {s[i] : i \in 1..Len(s)}
Newest(s, n) == IF Len(s) <= n THEN s ELSE SubSeq(s, Len(s) - n + 1, Len(s))

Init ==
  /\ up = {}
  /\ ledger = [e \in Engines |-> <<>>]
  /\ tracked = [e \in Engines |-> <<>>]
  /\ used = [e \in Engines |-> [s \in Sessions |-> 0]]
  /\ nudged = [e \in Engines |-> {}]
  /\ notes = [e \in Engines |-> [s \in Sessions |-> 0]]
  /\ disk = <<>>
  /\ failing = [t \in Threads |-> Clean]
  /\ seen = [e \in Engines |-> {}]
  /\ nudges = [e \in Engines |-> [s \in Sessions |-> 0]]
  /\ due = [e \in Engines |-> {}]
  /\ told = [c \in Classes |-> [s \in Sessions |-> 0]]
  /\ apart = FALSE

-----------------------------------------------------------------------------
(* The two tables.                                                          *)

\* What one more call of session s leaves of the counters: s is inserted last
\* if it is new, and the oldest insertions make room.
Insert(seq, s) ==
  Newest(IF s \in Elems(seq) THEN seq ELSE Append(seq, s), MaxSessionsTracked)

Holds(l, c) == \E i \in 1..Len(l) : l[i].sig = c
Place(l, c) == CHOOSE i \in 1..Len(l) : l[i].sig = c

\* The record of class c, a new one when the ledger has none.
RecordOf(l, c) ==
  IF Holds(l, c)
  THEN l[Place(l, c)]
  ELSE [sig |-> c, sessions |-> <<>>, notified |-> <<>>,
        hits |-> [s \in Sessions |-> 0]]

\* One more hit of session s: a session that is not listed is appended, and the
\* hits of those the list has no room for are forgotten.
Hit(rec, s) ==
  LET listed == IF s \in Elems(rec.sessions) THEN rec.sessions
                ELSE Newest(Append(rec.sessions, s), MaxSessionsPerSig)
  IN [rec EXCEPT !.sessions = listed,
                 !.hits = [x \in Sessions |->
                             IF x = s THEN AtMost(Intra, rec.hits[s] + 1)
                             ELSE IF x \in Elems(listed) THEN rec.hits[x] ELSE 0]]

\* The hit is the first that crosses a threshold for this class and session.
Recurring(rec, s) ==
  /\ s \notin Elems(rec.notified)
  /\ rec.hits[s] >= Intra \/ Len(rec.sessions) >= Cross

Renotified(rec, s) ==        \* Mutant of Notified: the bound of the other list.
  IF Recurring(rec, s)
  THEN [rec EXCEPT !.notified = Newest(Append(rec.notified, s), MaxSessionsPerSig)]
  ELSE rec

Notified(rec, s) ==
  IF Recurring(rec, s)
  THEN [rec EXCEPT !.notified = Newest(Append(rec.notified, s), MaxNotifiedPerSig)]
  ELSE rec

Others(l, c) == IF Holds(l, c) THEN RemoveAt(l, Place(l, c)) ELSE l

\* The ledger after the hit: its record is the most recently seen one, and the
\* least recently seen ones make room.
CountHit(l, c, s) ==
  Newest(Append(Others(l, c), Notified(Hit(RecordOf(l, c), s), s)), MaxTracked)

-----------------------------------------------------------------------------
(* Engines come and go: a server or a plugin holds one for its life, a      *)
(* command hook for one call.                                               *)

Start(e) ==
  /\ e \notin up
  /\ up' = up \cup {e}
  /\ ledger' = [ledger EXCEPT ![e] = disk]
  /\ apart' = (apart \/ up # {})
  /\ UNCHANGED <<counters, notes, disk, failing, told>>

Fresh(e) ==
  /\ tracked' = [tracked EXCEPT ![e] = <<>>]
  /\ used' = [used EXCEPT ![e] = [s \in Sessions |-> 0]]
  /\ nudged' = [nudged EXCEPT ![e] = {}]
  /\ notes' = [notes EXCEPT ![e] = [s \in Sessions |-> 0]]
  /\ seen' = [seen EXCEPT ![e] = {}]
  /\ nudges' = [nudges EXCEPT ![e] = [s \in Sessions |-> 0]]
  /\ due' = [due EXCEPT ![e] = {}]

\* The process ends, or is killed: what only memory held is gone.
Exit(e) ==
  /\ e \in up
  /\ up' = up \ {e}
  /\ ledger' = [ledger EXCEPT ![e] = <<>>]
  /\ failing' = [t \in Threads |-> IF failing[t] # Clean /\ failing[t].engine = e
                                  THEN Clean ELSE failing[t]]
  /\ Fresh(e)
  /\ UNCHANGED <<disk, told, apart>>

\* Store failures are swallowed; one is enough to tell.
Write(l) == \/ disk' = l /\ UNCHANGED apart
            \/ ~apart /\ disk' = disk /\ apart' = TRUE

Reset(e) ==
  /\ e \in up
  /\ ledger' = [ledger EXCEPT ![e] = <<>>]
  /\ Fresh(e)
  /\ Write(<<>>)
  /\ told' = [c \in Classes |-> [s \in Sessions |-> 0]]
  /\ UNCHANGED <<up, failing>>

-----------------------------------------------------------------------------
(* observe and observe_structured: two sections under the lock, between     *)
(* which the other threads of the process run.                              *)

Few(sessions) == Cardinality(sessions) <= MaxSessionsTracked

\* The histories of one call that has reached its trigger or not, and for which
\* the nudge has fired or not.
Nudge(e, s, reached, fired) ==
  LET now  == seen[e] \cup {s}
      mine == [nudges[e] EXCEPT ![s] = IF fired THEN AtMost(2, @ + 1) ELSE @]
  IN /\ seen' = [seen EXCEPT ![e] = now]
     /\ nudges' = [nudges EXCEPT ![e] = IF Few(now) THEN mine ELSE [x \in Sessions |-> 0]]
     /\ due' = [due EXCEPT ![e] = IF Few(now) THEN @ \cup (IF reached THEN {s} ELSE {})
                                             ELSE {}]

CountCallAgain(e, s, b) ==  \* Mutant of CountCall: every call past the trigger is nudged.
  IF b = 0 THEN UNCHANGED <<counters, notes>>
  ELSE LET kept  == Insert(tracked[e], s)
           dead  == Elems(tracked[e]) \ Elems(kept)
           n     == AtMost(MaxTrigger, used[e][s] + 1)
           fired == n >= b
       IN /\ tracked' = [tracked EXCEPT ![e] = kept]
          /\ used' = [used EXCEPT ![e] = [x \in Sessions |->
                        IF x \in dead THEN 0 ELSE IF x = s THEN n ELSE used[e][x]]]
          /\ nudged' = [nudged EXCEPT ![e] = (nudged[e] \ dead) \cup
                                             (IF fired THEN {s} ELSE {})]
          /\ notes' = [notes EXCEPT ![e] = [x \in Sessions |->
                        IF x \in dead THEN 0 ELSE notes[e][x]]]
          /\ Nudge(e, s, n >= b, fired)

\* One call, of the budget whose trigger is b.  The nudge it is handed fires
\* once while the counters of the session are kept.
CountCall(e, s, b) ==
  IF b = 0 THEN UNCHANGED <<counters, notes>>
  ELSE LET kept  == Insert(tracked[e], s)
           dead  == Elems(tracked[e]) \ Elems(kept)
           n     == AtMost(MaxTrigger, used[e][s] + 1)
           fired == n >= b /\ s \notin nudged[e]
       IN /\ tracked' = [tracked EXCEPT ![e] = kept]
          /\ used' = [used EXCEPT ![e] = [x \in Sessions |->
                        IF x \in dead THEN 0 ELSE IF x = s THEN n ELSE used[e][x]]]
          /\ nudged' = [nudged EXCEPT ![e] = (nudged[e] \ dead) \cup
                                             (IF fired THEN {s} ELSE {})]
          /\ notes' = [notes EXCEPT ![e] = [x \in Sessions |->
                        IF x \in dead THEN 0 ELSE notes[e][x]]]
          /\ Nudge(e, s, n >= b, fired)

\* A clean result is done when it has been counted.
ObserveClean(t, e, s, b) ==
  /\ e \in up /\ failing[t] = Clean
  /\ CountCall(e, s, b)
  /\ UNCHANGED <<up, ledger, disk, failing, told, apart>>

ObserveFailing(t, e, s, b, c) ==
  /\ e \in up /\ failing[t] = Clean
  /\ CountCall(e, s, b)
  /\ failing' = [failing EXCEPT ![t] = [engine |-> e, session |-> s, class |-> c]]
  /\ UNCHANGED <<up, ledger, disk, told, apart>>

Capped(e, s) == MaxNotes # 0 /\ notes[e][s] >= MaxNotes
ObserveError(t) ==
  /\ failing[t] # Clean
  /\ LET e == failing[t].engine
         s == failing[t].session
         c == failing[t].class
         l == CountHit(ledger[e], c, s)
         crossed == Recurring(Hit(RecordOf(ledger[e], c), s), s)
         noted == crossed /\ ~Capped(e, s)
     IN /\ Write(l)
        /\ ledger' = [ledger EXCEPT ![e] = l]
        /\ notes' = [notes EXCEPT ![e][s] = IF noted THEN AtMost(MaxNotes, @ + 1) ELSE @]
        /\ told' = [k \in Classes |-> [x \in Sessions |->
                      IF apart' \/ ~Holds(l, k) THEN 0
                      ELSE IF crossed /\ <<k, x>> = <<c, s>> THEN AtMost(2, told[k][x] + 1)
                      ELSE told[k][x]]]
  /\ failing' = [failing EXCEPT ![t] = Clean]
  /\ UNCHANGED <<up, counters>>

Next ==
  \/ \E e \in Engines : Start(e) \/ Exit(e) \/ Reset(e)
  \/ \E t \in Threads, e \in Engines, s \in Sessions, b \in Triggers :
       \/ ObserveClean(t, e, s, b)
       \/ \E c \in Classes : ObserveFailing(t, e, s, b, c)
  \/ \E t \in Threads : ObserveError(t)

Spec == Init /\ [][Next]_vars

-----------------------------------------------------------------------------
(* Properties                                                               *)

LedgerOK(l) ==
  /\ Len(l) <= MaxTracked
  /\ \A i \in 1..Len(l) :
       /\ l[i] \in Record
       /\ Len(l[i].sessions) <= MaxSessionsPerSig
       /\ Len(l[i].notified) <= MaxNotifiedPerSig
       /\ \A s \in Sessions : l[i].hits[s] > 0 <=> s \in Elems(l[i].sessions)
       /\ \A j \in 1..Len(l) : l[i].sig = l[j].sig => i = j

\* Every table stays within its bound (sentinel.py:62-64), whatever is evicted
\* from the others, and the hits of a class are those of the listed sessions.
TypeOK ==
  /\ up \subseteq Engines
  /\ \A e \in Engines : LedgerOK(ledger[e]) /\ Len(tracked[e]) <= MaxSessionsTracked
  /\ LedgerOK(disk)
  /\ tracked \in [Engines -> Seq(Sessions)]
  /\ used \in [Engines -> [Sessions -> 0..MaxTrigger]]
  /\ nudged \in [Engines -> SUBSET Sessions]
  /\ notes \in [Engines -> [Sessions -> 0..MaxNotes]]
  /\ failing \in [Threads -> [engine : Engines, session : Sessions, class : Classes]
                             \cup {Clean}]
  /\ apart \in BOOLEAN /\ told \in [Classes -> [Sessions -> 0..2]]
  /\ seen \in [Engines -> SUBSET Sessions]
  /\ nudges \in [Engines -> [Sessions -> 0..2]]
  /\ due \in [Engines -> SUBSET Sessions]

\* One note per class and session (sentinel.py:23), across restarts and while
\* sessions leave the list and come back, as long as the ledger keeps the class
\* and nothing but the ledger's own bounds made it forget.  It needs the list of
\* the notified to have room for every session: MAX_NOTIFIED_PER_SIG is 12.
NotedOnce ==
  ~apart /\ Cardinality(Sessions) <= MaxNotifiedPerSig =>
    \A c \in Classes, s \in Sessions : told[c][s] <= 1

\* The finalize nudge fires at most once per session (sentinel.py:24), and it
\* fires for every session a call of which reaches the trigger of its own budget,
\* as long as no more sessions than MAX_SESSIONS_TRACKED have reported to the
\* engine.  Beyond that a session that was evicted and comes back is nudged anew,
\* because no nudge is remembered of a session whose calls are not counted.
NudgedOnce ==
  \A e \in Engines :
    /\ nudged[e] \subseteq Elems(tracked[e])
    /\ Few(seen[e]) =>
         \A s \in Sessions : nudges[e][s] = IF s \in due[e] THEN 1 ELSE 0
=============================================================================
