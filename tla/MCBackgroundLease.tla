------------------------- MODULE MCBackgroundLease -------------------------
(* The processes of the lease are alike. *)
EXTENDS BackgroundLease, TLC

Symmetry == Permutations(Process)
=============================================================================
