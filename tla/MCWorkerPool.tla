---------------------------- MODULE MCWorkerPool ----------------------------
(* TLC instances of WorkerPool.                                            *)
EXTENDS WorkerPool, TLC

Symmetry == Permutations(Callers) \cup Permutations(Processes)

=============================================================================
