------------------------ MODULE MCSessionRouteLease ------------------------
(* TLC instance of SessionRouteLease: two paths, so that a move can want    *)
(* both, two requests and two writers, so that a new release can   *)
(* start between the settling of a gate and the resumption of its waiter.   *)
EXTENDS SessionRouteLease

=============================================================================
