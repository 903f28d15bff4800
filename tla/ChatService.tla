---------------------------- MODULE ChatService ----------------------------
(***************************************************************************)
(* What the non-streaming gateway promises its clients, without caches,    *)
(* locks, futures or replicas (services/gateway.py, handle_chat_completion *)
(* seen from outside).                                                     *)
(*                                                                         *)
(* A request may buy at most one response from the providers. It is        *)
(* answered once, with the response it bought, which is then billed, or,   *)
(* free of charge, with one that was bought for an identical request of    *)
(* the same virtual key. A request that has bought a response does not     *)
(* fail: it can only be lost with its replica.                             *)
(***************************************************************************)
CONSTANTS Requests, Tenants, Bodies, None

VARIABLES
    want,       \* the tenant and body of each request
    status,     \* its life, as its client sees it
    result,     \* the response it was answered with
    bought,     \* requests that obtained a response from a provider
    billed      \* requests with a usage record at the provider's price

service == <<want, status, result, bought, billed>>

Init ==
    /\ want \in [Requests -> [tenant : Tenants, body : Bodies]]
    /\ status = [r \in Requests |-> "idle"]
    /\ result = [r \in Requests |-> None]
    /\ bought = {}
    /\ billed = {}

Accept(r) ==
    /\ status[r] = "idle"
    /\ status' = [status EXCEPT ![r] = "pending"]
    /\ UNCHANGED <<want, result, bought, billed>>

Buy(r) ==
    /\ status[r] = "pending"
    /\ r \notin bought
    /\ bought' = bought \cup {r}
    /\ UNCHANGED <<want, status, result, billed>>

Deliver(r) ==
    /\ status[r] = "pending"
    /\ r \in bought
    /\ status' = [status EXCEPT ![r] = "served"]
    /\ result' = [result EXCEPT ![r] = r]
    /\ billed' = billed \cup {r}
    /\ UNCHANGED <<want, bought>>

Share(r, source) ==
    /\ status[r] = "pending"
    /\ r \notin bought
    /\ source \in bought
    /\ want[source] = want[r]
    /\ status' = [status EXCEPT ![r] = "served"]
    /\ result' = [result EXCEPT ![r] = source]
    /\ UNCHANGED <<want, bought, billed>>

Fail(r) ==
    /\ status[r] = "pending"
    /\ r \notin bought
    /\ status' = [status EXCEPT ![r] = "failed"]
    /\ UNCHANGED <<want, result, bought, billed>>

\* the pending requests of a replica die together
Lose(group) ==
    /\ \A r \in group : status[r] = "pending"
    /\ status' = [r \in Requests |-> IF r \in group THEN "lost" ELSE status[r]]
    /\ UNCHANGED <<want, result, bought, billed>>

Next ==
    \/ \E r \in Requests : Accept(r) \/ Buy(r) \/ Deliver(r) \/ Fail(r)
    \/ \E r, source \in Requests : Share(r, source)
    \/ \E group \in SUBSET Requests : Lose(group)

Spec == Init /\ [][Next]_service
=============================================================================
