--------------------------- MODULE MCDigestScheduler ---------------------------
(***************************************************************************)
(* DigestScheduler with two events, of one group or of two.                *)
(***************************************************************************)
EXTENDS DigestScheduler

CONSTANTS e1, e2, g1, g2

TwoEvents == {e1, e2}
TwoGroups == {g1, g2}
SameGroup == [e \in Event |-> g1]
OwnGroup == [e \in Event |-> IF e = e1 THEN g1 ELSE g2]
================================================================================
