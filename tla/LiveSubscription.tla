--------------------------- MODULE LiveSubscription ---------------------------
(***************************************************************************)
(* What LiveTransport.subscribe promises each of its callers: the promise  *)
(* it returns is settled at most once, a rejected or closed subscription   *)
(* is over, and only an open one can be closed. Nothing is said of how     *)
(* many callers share a connection; LiveConnection implements this, and    *)
(* SearchPage is written against it.                                       *)
(***************************************************************************)

CONSTANT Subscribers

VARIABLE live    \* state of each caller's subscription

States == {"none", "waiting", "open", "closed", "failed"}

\* The subscriptions which are neither rejected nor closed.
Alive == {s \in Subscribers : live[s] \in {"waiting", "open"}}

Init == live = [s \in Subscribers |-> "none"]

\* A caller whose last subscription is over subscribes. It is resolved at once when the
\* connection is there already.
Subscribe(s) ==
    /\ live[s] \in {"none", "closed", "failed"}
    /\ \E state \in {"waiting", "open"} : live' = [live EXCEPT ![s] = state]

\* The promises of all who wait are settled by what happens to the connection.
Resolve == live' = [s \in Subscribers |-> IF live[s] = "waiting" THEN "open" ELSE live[s]]

Reject == live' = [s \in Subscribers |-> IF live[s] = "waiting" THEN "failed" ELSE live[s]]

Close(s) ==
    /\ live[s] = "open"
    /\ live' = [live EXCEPT ![s] = "closed"]

Next ==
    \/ \E s \in Subscribers : Subscribe(s) \/ Close(s)
    \/ Resolve
    \/ Reject

Spec == Init /\ [][Next]_live
=============================================================================
