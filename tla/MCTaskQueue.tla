---------------------------- MODULE MCTaskQueue -----------------------------
(* Model of TaskQueue: interchangeable threads and tasks.                  *)
EXTENDS TaskQueue, TLC

Symmetry == Permutations(Threads) \cup Permutations(Tasks)
=============================================================================
