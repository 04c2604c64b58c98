----------------------------- MODULE EventCustody ------------------------------
(***************************************************************************)
(* What the delivery queue promises about each event, without tables,      *)
(* leases, retries or time: an event the bridge has accepted is in its     *)
(* custody ("queued") and leaves it in two ways only.  It is settled,      *)
(* which needs it to have been handled (delivered, filtered or buffered    *)
(* for a digest), or it is parked as a dead letter, from where it can be   *)
(* queued again.  A settled event is never queued again until the bridge   *)
(* has forgotten it.                                                       *)
(***************************************************************************)
CONSTANT Event

VARIABLES status,   \* where each event stands
          handled   \* the events that were delivered, filtered or digested

vars == <<status, handled>>

Init == /\ status = [e \in Event |-> "new"]
        /\ handled = {}

Queue(e) == /\ status[e] \in {"new", "parked"}
            /\ status' = [status EXCEPT ![e] = "queued"]
            /\ UNCHANGED handled

Handle(e) == /\ status[e] = "queued"
             /\ handled' = handled \cup {e}
             /\ UNCHANGED status

Settle(e) == /\ status[e] = "queued"
             /\ e \in handled
             /\ status' = [status EXCEPT ![e] = "settled"]
             /\ UNCHANGED handled

Park(e) == /\ status[e] = "queued"
           /\ status' = [status EXCEPT ![e] = "parked"]
           /\ UNCHANGED handled

\* Retention forgets settled and parked events.  A settled event that also
\* has an old dead letter falls back on it.
MayForget(old, new) == \/ old = new
                       \/ old = "settled" /\ new \in {"new", "parked"}
                       \/ old = "parked" /\ new = "new"

Forget == /\ \E new \in [Event -> {"new", "queued", "settled", "parked"}] :
                /\ \A e \in Event : MayForget(status[e], new[e])
                /\ status' = new
          /\ UNCHANGED handled

Next == \/ \E e \in Event : Queue(e) \/ Handle(e) \/ Settle(e) \/ Park(e)
        \/ Forget

Spec == Init /\ [][Next]_vars
================================================================================
