---------------------------- MODULE SandboxCache ----------------------------
(***************************************************************************)
(* The memo of sandbox runs, src/open_dream_rsi/sandbox.py: a bounded table *)
(* in order of use, with a time to live, in front of run_isolated.          *)
(***************************************************************************)
EXTENDS Integers, Sequences, FiniteSets, SequencesExt

CONSTANTS
  Keys, Outcomes,     \* contents of programs, what a run of one may put out
  MaxEntries, TTL,    \* max_entries, ttl_seconds (0: entries do not expire)
  Nothing

VARIABLES
  entries,     \* sequence of [key, age, out], least recently used first
  running,     \* the key a missed lookup is running, or Nothing
  returned,    \* what the last call returned: [key, out], or Nothing
  latest,      \* history: key -> [out, age] of its last completed run, or Nothing
  later        \* history: key -> the keys used since its last use

vars == <<entries, running, returned, latest, later>>

Init ==
  /\ entries = <<>>
  /\ running = Nothing /\ returned = Nothing
  /\ latest = [k \in Keys |-> Nothing]
  /\ later = [k \in Keys |-> {}]

Cached(k) == \E i \in 1..Len(entries) : entries[i].key = k
Place(k) == CHOOSE i \in 1..Len(entries) : entries[i].key = k
Entry(k) == entries[Place(k)]
Drop(k) == IF Cached(k) THEN RemoveAt(entries, Place(k)) ELSE entries
Expired(e) == TTL > 0 /\ e.age > TTL
Use(k) == later' = [j \in Keys |-> IF j = k THEN {} ELSE later[j] \cup {k}]

TouchFresh(e) ==      \* Mutant of Touch: a use renews the time to live.
  [e EXCEPT !.age = 0]

\* A hit is moved to the end, with the time of its run.
Touch(e) == e

Hit(k) ==
  /\ running = Nothing /\ Cached(k) /\ ~Expired(Entry(k))
  /\ entries' = Append(Drop(k), Touch(Entry(k)))
  /\ returned' = [key |-> k, out |-> Entry(k).out]
  /\ Use(k)
  /\ UNCHANGED <<running, latest>>

\* An expired entry is deleted, whatever its new run comes to.
Miss(k) ==
  /\ running = Nothing /\ (Cached(k) => Expired(Entry(k)))
  /\ entries' = Drop(k)
  /\ running' = k /\ returned' = Nothing
  /\ UNCHANGED <<latest, later>>

EvictNewest(s) ==     \* Mutant of Evict: popitem from the other end.
  IF Len(s) > MaxEntries THEN Front(Front(s)) \o <<Last(s)>> ELSE s

Evict(s) == IF Len(s) > MaxEntries THEN Tail(s) ELSE s

Complete(out) ==
  /\ running # Nothing
  /\ entries' = Evict(Append(entries, [key |-> running, age |-> 0, out |-> out]))
  /\ returned' = [key |-> running, out |-> out]
  /\ latest' = [latest EXCEPT ![running] = [out |-> out, age |-> 0]]
  /\ Use(running)
  /\ running' = Nothing

\* A run that times out or is not spawned is not stored.
Fail ==
  /\ running # Nothing
  /\ running' = Nothing /\ returned' = Nothing
  /\ UNCHANGED <<entries, latest, later>>

\* Ages are told apart up to the first past the time to live.
Older(e) == [e EXCEPT !.age = IF @ > TTL THEN @ ELSE @ + 1]

Tick ==
  /\ entries # <<>>
  /\ entries' = [i \in DOMAIN entries |-> Older(entries[i])]
  /\ latest' = [k \in Keys |-> IF latest[k] = Nothing THEN Nothing ELSE Older(latest[k])]
  /\ returned' = Nothing
  /\ UNCHANGED <<running, later>>

Next ==
  \/ \E k \in Keys : Hit(k) \/ Miss(k)
  \/ \E out \in Outcomes : Complete(out)
  \/ Fail \/ Tick

Spec == Init /\ [][Next]_vars

-----------------------------------------------------------------------------
TypeOK ==
  /\ entries \in Seq([key : Keys, age : 0..TTL + 1, out : Outcomes])
  /\ running \in Keys \cup {Nothing}
  /\ Len(entries) <= MaxEntries
  /\ later \in [Keys -> SUBSET Keys]

\* A call returns what the last completed run of the program put out, no longer
\* ago than the time to live, and an entry is given up only when it has expired
\* or when max_entries others were used after it (sandbox.py:250-269), however
\* hits, expiries, timeouts and evictions follow each other.
CacheKeepsRecent ==
  [][/\ returned' # Nothing =>
          /\ returned'.out = latest'[returned'.key].out
          /\ TTL > 0 => latest'[returned'.key].age <= TTL
     /\ \A e \in ToSet(entries) :
          (\A d \in ToSet(entries') : d.key # e.key) =>
             \/ TTL > 0 /\ e.age > TTL
             \/ Cardinality(later'[e.key]) >= MaxEntries]_vars
=============================================================================
