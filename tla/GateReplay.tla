----------------------------- MODULE GateReplay -----------------------------
(***************************************************************************)
(* The replay of the promotion gate over recorded outcomes of a baseline     *)
(* and of an arm, src/open_dream_rsi/gate_replay.py: arm_pairs indexes both  *)
(* by task, joins them, and gate_verdict decides.                           *)
(***************************************************************************)
EXTENDS Naturals, Sequences, FiniteSets

CONSTANTS
  Tasks,        \* the texts of keys
  MinNet,       \* GATE_MIN_NET
  MaxRows       \* bound: rows of both files

VARIABLES
  rows,         \* arm -> the rows indexed so far
  index,        \* arm -> task -> solved, for the tasks that are in it
  duplicates,   \* duplicate_keys
  verdict       \* none, promoted, rejected

vars == <<rows, index, duplicates, verdict>>

Arms == {"baseline", "arm"}
\* A row has no key, or one that is a text or (a number) only prints as one.
Rows == {[keyed |-> FALSE]}
        \cup [keyed : {TRUE}, task : Tasks, text : BOOLEAN, solved : BOOLEAN]

Init ==
  /\ rows = [a \in Arms |-> <<>>]
  /\ index = [a \in Arms |-> [t \in {} |-> FALSE]]
  /\ duplicates = 0
  /\ verdict = "none"

\* The key is looked up as it is and stored as text: a number is never found, and
\* its last row counts instead of its first.
Index(a, r) ==
  /\ verdict = "none"
  /\ Len(rows["baseline"]) + Len(rows["arm"]) < MaxRows
  /\ rows' = [rows EXCEPT ![a] = Append(@, r)]
  /\ IF ~r.keyed
     THEN UNCHANGED <<index, duplicates>>
     ELSE IF r.text /\ r.task \in DOMAIN index[a]
     THEN duplicates' = duplicates + 1 /\ UNCHANGED index
     ELSE /\ index' = [index EXCEPT ![a] =
               [t \in DOMAIN @ \cup {r.task} |-> IF t = r.task THEN r.solved ELSE @[t]]]
          /\ UNCHANGED duplicates
  /\ UNCHANGED verdict

Joined == DOMAIN index["baseline"] \cap DOMAIN index["arm"]
Gains == {t \in Joined : index["arm"][t] /\ ~index["baseline"][t]}
Regressions == {t \in Joined : index["baseline"][t] /\ ~index["arm"][t]}

PassesUnregressed ==  \* Mutant of Passes: an arm that gains nothing passes too.
  Regressions = {}

Passes ==
  /\ Cardinality(Gains) >= MinNet + Cardinality(Regressions)
  /\ Regressions = {}

Verdict ==
  /\ verdict = "none"
  /\ verdict' = IF Passes THEN "promoted" ELSE "rejected"
  /\ UNCHANGED <<rows, index, duplicates>>

Next == (\E a \in Arms, r \in Rows : Index(a, r)) \/ Verdict

Spec == Init /\ [][Next]_vars

-----------------------------------------------------------------------------
RowsOf(a, t) == {i \in DOMAIN rows[a] : rows[a][i].keyed /\ rows[a][i].task = t}
AllSolved(a, t) == RowsOf(a, t) # {} /\ \A i \in RowsOf(a, t) : rows[a][i].solved
AllFailed(a, t) == RowsOf(a, t) # {} /\ \A i \in RowsOf(a, t) : ~rows[a][i].solved

\* A promoted arm solved a recorded task the baseline failed and failed none that
\* the baseline solved, wherever the rows of a task agree (gate_replay.py:49-69,
\* 136-152); duplicate, unkeyed and unmatched rows change neither.
PromotedUnharmed ==
  verdict = "promoted" =>
    /\ \A t \in Tasks : ~(AllSolved("baseline", t) /\ AllFailed("arm", t))
    /\ \E t \in Tasks : /\ \E i \in RowsOf("arm", t) : rows["arm"][i].solved
                        /\ \E i \in RowsOf("baseline", t) : ~rows["baseline"][i].solved
=============================================================================
