------------------------ MODULE DeliveryQueueRefinement ------------------------
(***************************************************************************)
(* The delivery queue implements EventCustody: which table an event is in  *)
(* says where it stands.  An event may be in processed_events and have an  *)
(* old dead letter, or be queued again while one exists; the tables are    *)
(* read in the order the code reads them.                                  *)
(***************************************************************************)
EXTENDS DeliveryQueue

Status == [e \in Event |-> IF e \in processed THEN "settled"
                           ELSE IF e \in pending THEN "queued"
                           ELSE IF e \in DeadEvents THEN "parked"
                           ELSE "new"]

Custody == INSTANCE EventCustody WITH status <- Status, handled <- disposed

\* Every step of the queue is a step of EventCustody or leaves it alone: no
\* event is settled unhandled, re-queued once settled, or lost while queued.
ImplementsCustody == Custody!Spec
================================================================================
