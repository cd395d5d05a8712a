---------------------------- MODULE MCDebugPort ----------------------------
(* Instances of DebugPort for TLC. *)
EXTENDS DebugPort, TLC

(* The words of memory are interchangeable. *)
Symmetry == Permutations(Values)

=============================================================================
