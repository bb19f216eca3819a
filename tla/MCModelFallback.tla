--------------------------- MODULE MCModelFallback --------------------------
(* ModelFallback with a profile of three models for TLC: the second holds  *)
(* less than the others.                                                   *)
EXTENDS ModelFallback

CONSTANTS a, b, c

MCModels == {a, b, c}
MCProfiles == {<<a, b, c>>, <<b>>}
MCWindow == [m \in MCModels |-> IF m = b THEN 1 ELSE 2]

=============================================================================
