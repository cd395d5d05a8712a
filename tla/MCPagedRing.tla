---------------------------- MODULE MCPagedRing ----------------------------
(* Instances of PagedRing for TLC.  Consumers are interchangeable. *)
EXTENDS PagedRing, TLC

ConsumerSymmetry == Permutations(Consumers)

=============================================================================
