------------------------------- MODULE MC_Queue -------------------------------
(* Queue for TLC: threads are model values and interchangeable, so the     *)
(* runs use them as a symmetry set.                                         *)
EXTENDS Queue, TLC

ThreadSymmetry == Permutations(Threads)
================================================================================
