---------------------------- MODULE MC_BufferMap ----------------------------
(* Instances of BufferMap for TLC: threads are model values, and they are  *)
(* interchangeable, so the invariant runs use them as a symmetry set.      *)
EXTENDS BufferMap, TLC

ThreadSymmetry == Permutations(Threads)
=============================================================================
