------------------------ MODULE MCWorkerRetirement ------------------------
(* TLC instances of WorkerRetirement, with the code's own bounds in seconds. *)
EXTENDS WorkerRetirement

=============================================================================
