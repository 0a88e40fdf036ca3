-------------------------- MODULE DeliveryContract --------------------------
(***************************************************************************)
(* What the outbound webhooks promise for one delivery: an event accepted  *)
(* for an endpoint stays owed until the endpoint has answered it or the    *)
(* delivery is given up; either outcome stands until somebody asks for the *)
(* delivery again, and only a delivery that was given up is ever deleted.  *)
(* The endpoint may receive it more than once.                             *)
(***************************************************************************)
CONSTANT Deliveries

VARIABLES outcome, received

vars == <<outcome, received>>

Init ==
    /\ outcome = [d \in Deliveries |-> "none"]
    /\ received = {}

Accept(S) ==
    /\ \A d \in S : outcome[d] = "none"
    /\ outcome' = [d \in Deliveries |-> IF d \in S THEN "owed" ELSE outcome[d]]
    /\ UNCHANGED received

Receive(d) ==
    /\ outcome[d] # "none"
    /\ received' = received \cup {d}
    /\ UNCHANGED outcome

Settle(d, o) ==
    /\ outcome' = [outcome EXCEPT ![d] = o]
    /\ UNCHANGED received

Deliver(d) == outcome[d] = "owed" /\ d \in received /\ Settle(d, "delivered")

GiveUp(d) == outcome[d] = "owed" /\ Settle(d, "dead")

AskAgain(d) == outcome[d] \in {"delivered", "dead"} /\ Settle(d, "owed")

Discard(d) == outcome[d] = "dead" /\ Settle(d, "gone")

Next ==
    \/ \E S \in SUBSET Deliveries : Accept(S)
    \/ \E d \in Deliveries :
          Receive(d) \/ Deliver(d) \/ GiveUp(d) \/ AskAgain(d) \/ Discard(d)

Spec == Init /\ [][Next]_vars
=============================================================================
