---------------------------- MODULE MC_DreamStore ----------------------------
(* Small instances of DreamStore for TLC. *)
EXTENDS DreamStore

MCOneScore == {1}
MCTwoScores == {1, 2}
=============================================================================
