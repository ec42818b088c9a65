----------------------------- MODULE OverlapMC -----------------------------
(* Overlap on small sets of threads. *)
EXTENDS Overlap, TLC

(* Threads are created in any order and are otherwise alike. *)
Symmetry == Permutations(Thread)

=============================================================================
