----------------------------- MODULE MC_Rollout -----------------------------
(* A small instance of Rollout for TLC. *)
EXTENDS Rollout

\* In twentieths: an attempt that failed, and one that passed some tests.
MCScores == {0, 6}

\* A seed is worth 0, or 0.05 when the category has a recipe.
MCSeedScores == {0, 1}
=============================================================================
