------------------------------- MODULE Outbox -------------------------------
(***************************************************************************)
(* What the notification outbox promises, with no leases, no claims and no *)
(* clock.  A delivery that was written with its transaction is owed to one *)
(* endpoint until it is kept (the endpoint took it) or broken (the gateway *)
(* gave up and says so); only an operator's replay reopens a broken one.   *)
(***************************************************************************)

CONSTANT Deliveries

VARIABLES
  promise,   \* [Deliveries -> {"none", "owed", "kept", "broken"}]
  reached    \* [Deliveries -> BOOLEAN]: the endpoint accepted a copy

vars == <<promise, reached>>

Promises == {"none", "owed", "kept", "broken"}

TypeOK ==
  /\ promise \in [Deliveries -> Promises]
  /\ reached \in [Deliveries -> BOOLEAN]

Init ==
  /\ promise = [d \in Deliveries |-> "none"]
  /\ reached = [d \in Deliveries |-> FALSE]

\* One committed event may owe a copy to several endpoints at once.
Owe(new) ==
  /\ \A d \in new : promise[d] = "none"
  /\ promise' = [d \in Deliveries |-> IF d \in new THEN "owed" ELSE promise[d]]
  /\ UNCHANGED reached

\* The endpoint may receive a copy, and receive it again, once it is owed.
Reach(d) ==
  /\ promise[d] # "none"
  /\ reached' = [reached EXCEPT ![d] = TRUE]
  /\ UNCHANGED promise

\* Nothing is called delivered that the endpoint did not accept.
Keep(d) ==
  /\ promise[d] = "owed"
  /\ reached[d]
  /\ promise' = [promise EXCEPT ![d] = "kept"]
  /\ UNCHANGED reached

Break(d) ==
  /\ promise[d] = "owed"
  /\ promise' = [promise EXCEPT ![d] = "broken"]
  /\ UNCHANGED reached

Reopen(d) ==
  /\ promise[d] = "broken"
  /\ promise' = [promise EXCEPT ![d] = "owed"]
  /\ UNCHANGED reached

Next ==
  \/ \E new \in SUBSET Deliveries : Owe(new)
  \/ \E d \in Deliveries : Reach(d) \/ Keep(d) \/ Break(d) \/ Reopen(d)

Spec == Init /\ [][Next]_vars

=============================================================================
