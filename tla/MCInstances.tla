----------------------------- MODULE MCInstances -----------------------------
(* Instances instantiated for TLC. *)
EXTENDS Instances, TLC

MCSymmetry == Permutations(Processes)
==============================================================================
