--------------------------- MODULE MC_LearningLoop ---------------------------
(* A small instance of LearningLoop for TLC: three tasks of one category,   *)
(* one of which is granted no attempt.                                      *)
EXTENDS LearningLoop, TLC

CONSTANTS t1, t2, t3, c1

MCQueue == <<t1, t2, t3>>
MCCategory == t1 :> c1 @@ t2 :> c1 @@ t3 :> c1
MCTries == t1 :> 0 @@ t2 :> 2 @@ t3 :> 2
MCOneScore == {1}
=============================================================================
