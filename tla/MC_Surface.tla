----------------------------- MODULE MC_Surface -----------------------------
(* Instances of Surface for TLC: threads and configurations are model     *)
(* values; configurations are interchangeable, and so are threads.        *)
EXTENDS Surface, TLC

SurfaceSymmetry == Permutations(Threads) \cup Permutations(Configs)
=============================================================================
