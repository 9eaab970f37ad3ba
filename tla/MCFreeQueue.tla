---------------------------- MODULE MCFreeQueue ----------------------------
(* FreeQueue for TLC: blocks and threads are interchangeable. *)
EXTENDS FreeQueue, TLC

Symmetry == Permutations(Blocks) \cup Permutations(Threads)
=============================================================================
