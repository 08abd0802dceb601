--------------------------- MODULE MCLeaseTiming ---------------------------
(* Instances of LeaseTiming for TLC. *)
EXTENDS LeaseTiming, TLC

Symmetry == Permutations(Agents)
=============================================================================
