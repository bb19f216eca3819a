---------------------------- MODULE MCSessionMove ---------------------------
(* SessionMove with two projects, two requests and three entries, for TLC. *)
EXTENDS SessionMove, TLC

Symmetry == Permutations(Projects) \cup Permutations(Requests)
=============================================================================
