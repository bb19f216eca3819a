--------------------------- MODULE MCWorkerFences ---------------------------
(* TLC instances of WorkerFences.  Handlers and files are interchangeable.  *)
EXTENDS WorkerFences, TLC

Symmetry == Permutations(Requests) \cup Permutations(Files)

=============================================================================
