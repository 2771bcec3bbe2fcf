---------------------------- MODULE MCGcSafepoint ----------------------------
(* Instances of GcSafepoint for TLC.                                       *)
EXTENDS GcSafepoint, TLC

(* Exploration bound: a state in which collections have got into each      *)
(* other's way is checked, what follows it is not.  Every property but the *)
(* type invariant asks for Orderly, which never comes back once it is      *)
(* lost, so nothing that could refute one lies beyond the bound.           *)
UntilDisturbed == Orderly

(* The mutators differ, one has a stack base and the other has none.       *)
Symmetry == Permutations(Blocks)

=============================================================================
