--------------------------- MODULE MCDeliveryQueue ---------------------------
(***************************************************************************)
(* DeliveryQueue with small values: two events, which either both carry    *)
(* the same media (SameMedia) or no media at all (NoMedia).                *)
(***************************************************************************)
EXTENDS DeliveryQueueRefinement

CONSTANTS e1, e2, m1

TwoEvents == {e1, e2}
OneKey == {m1}
SameMedia == [e \in Event |-> m1]
NoMedia == [e \in Event |-> NoKey]
==============================================================================
