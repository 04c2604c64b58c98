----------------------------- MODULE DigestCustody -----------------------------
(***************************************************************************)
(* What digest mode promises about the events it takes over, without rows, *)
(* cutoffs, acknowledgements or time: an event is owed to its target until *)
(* it has reached it or was given up, and is never owed again.  What goes  *)
(* out together goes to one target, and nothing goes out that was neither  *)
(* owed nor given up while it was under way.                               *)
(***************************************************************************)
CONSTANTS Event, Group, GroupOf

VARIABLES owed,      \* events the bridge still has to deliver
          reached,   \* events of which the target has a copy
          dropped    \* events given up

vars == <<owed, reached, dropped>>

Init == owed = Event /\ reached = {} /\ dropped = {}

\* A message or a digest reaches the target of g.  The bridge need not know it
\* at once.
Deliver(g, E) == /\ E \subseteq {e \in owed \cup dropped : GroupOf[e] = g}
                 /\ reached' = reached \cup E
                 /\ owed' \in {owed, owed \ E}
                 /\ UNCHANGED dropped

\* What need not be delivered any more leaves the bridge.
Release(E) == /\ E \subseteq reached \cup dropped
              /\ owed' = owed \ E
              /\ UNCHANGED <<reached, dropped>>

\* An event is given up in one place and may be kept in another.
GiveUp(E) == /\ E \subseteq owed
             /\ dropped' = dropped \cup E
             /\ owed' \subseteq owed /\ owed \ owed' \subseteq E
             /\ UNCHANGED reached

Next == \E E \in SUBSET Event :
            Release(E) \/ GiveUp(E) \/ \E g \in Group : Deliver(g, E)

Spec == Init /\ [][Next]_vars
================================================================================
