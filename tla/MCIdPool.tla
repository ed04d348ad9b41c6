------------------------------ MODULE MCIdPool ------------------------------
(* Model of IdPool and of the inductive invariant its proof rests on;      *)
(* the threads are interchangeable.                                        *)
EXTENDS IdPoolProofs, TLC

Symmetry == Permutations(Threads)
=============================================================================
