--------------------------- MODULE EventDelivery ---------------------------
(***************************************************************************)
(* What the durable event relay promises its callers, free of rows, leases *)
(* and relays: at-least-once delivery of every accepted request, and a     *)
(* settled event stays settled until someone asks again.                   *)
(***************************************************************************)
EXTENDS Naturals

CONSTANTS Events

VARIABLES
    state,     \* "none", "open", "published" or "dead"
    requested, \* how often delivery was requested
    delivered  \* the newest request that was delivered

vars == <<state, requested, delivered>>

Init ==
    /\ state = [e \in Events |-> "none"]
    /\ requested = [e \in Events |-> 0]
    /\ delivered = [e \in Events |-> 0]

\* A caller stores the event, or asks for it again.
Request(e) ==
    /\ state' = [state EXCEPT ![e] = "open"]
    /\ requested' = [requested EXCEPT ![e] = @ + 1]
    /\ UNCHANGED delivered

\* All subscribers have handled the event since the newest request.
Deliver(e) ==
    /\ state[e] = "open"
    /\ delivered' = [delivered EXCEPT ![e] = requested[e]]
    /\ UNCHANGED <<state, requested>>

\* The relay records the delivery, or gives up.
Settle(e) ==
    /\ state[e] = "open"
    /\ \/ delivered[e] = requested[e] /\ state' = [state EXCEPT ![e] = "published"]
       \/ state' = [state EXCEPT ![e] = "dead"]
    /\ UNCHANGED <<requested, delivered>>

Next == \E e \in Events : Request(e) \/ Deliver(e) \/ Settle(e)

Spec == Init /\ [][Next]_vars

============================================================================
