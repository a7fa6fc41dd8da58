----------------------------- MODULE MC_Sentinel -----------------------------
(* Small instances of Sentinel for TLC. *)
EXTENDS Sentinel, TLC

MCSymmetry == Permutations(Sessions) \cup Permutations(Threads)
=============================================================================
