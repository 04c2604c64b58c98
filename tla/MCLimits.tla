------------------------------- MODULE MCLimits --------------------------------
(* Limits with one key: keys do not affect each other. *)
EXTENDS Limits

CONSTANT k1

OneKey == {k1}
================================================================================
