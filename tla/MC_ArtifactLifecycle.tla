------------------------ MODULE MC_ArtifactLifecycle ------------------------
(* Small instances of ArtifactLifecycle. *)
EXTENDS ArtifactLifecycle

\* The discipline of loop.py and share.py: a slot's name starts with its type.
MCTypedSlots ==
  [s \in Slots |-> IF s = "recipe:c" THEN {"recipe"} ELSE {"policy_parameters"}]

\* Any caller of the manager's API: every slot takes every type.
MCAnyType == [s \in Slots |-> Types]
=============================================================================
