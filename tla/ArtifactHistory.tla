--------------------------- MODULE ArtifactHistory ---------------------------
(***************************************************************************)
(* What the lifecycle store promises about its artifacts, with no log, no  *)
(* view, no process and no failure: every identity is registered at most   *)
(* once, moves only along the rule table, and is forgotten only from a     *)
(* state in which the runtime no longer uses it.                           *)
(***************************************************************************)
CONSTANT Ids

VARIABLE life

(* The edges of the rule table, by the state they leave. *)
Successors ==
  [CANDIDATE   |-> {"VALIDATED", "REJECTED"},
   VALIDATED   |-> {"ACTIVE", "REJECTED", "QUARANTINED"},
   ACTIVE      |-> {"STALE", "SUPERSEDED", "QUARANTINED"},
   STALE       |-> {"ARCHIVED", "QUARANTINED"},
   SUPERSEDED  |-> {"ARCHIVED"},
   ARCHIVED    |-> {"VALIDATED"},
   QUARANTINED |-> {"VALIDATED"},
   REJECTED    |-> {}]

Init == life = [i \in Ids |-> "unborn"]

Register(i) ==
  /\ life[i] = "unborn"
  /\ life' = [life EXCEPT ![i] = "CANDIDATE"]

Move(i) ==
  /\ life[i] \in DOMAIN Successors
  /\ \E to \in Successors[life[i]] : life' = [life EXCEPT ![i] = to]

Forget(i) ==
  /\ life[i] \in {"ARCHIVED", "REJECTED"}
  /\ life' = [life EXCEPT ![i] = "forgotten"]

Next == \E i \in Ids : Register(i) \/ Move(i) \/ Forget(i)

Spec == Init /\ [][Next]_life
=============================================================================
