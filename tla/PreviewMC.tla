----------------------------- MODULE PreviewMC -----------------------------
(* Preview on small sets of threads. *)
EXTENDS PreviewProofs, TLC

(* Threads are created in any order and are otherwise alike.  Not for the  *)
(* runs that check liveness.                                               *)
Symmetry == Permutations(Thread)

=============================================================================
