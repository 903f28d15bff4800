--------------------------- MODULE MCSingleFlight ---------------------------
(***************************************************************************)
(* Instances of SingleFlight for TLC. A body is named after its model:     *)
(* "hello" has two candidate providers, so that fallback happens, "direct" *)
(* one, and "unknown" none, so that NoProviderAvailableError is raised     *)
(* before the lock is taken.                                               *)
(***************************************************************************)
EXTENDS SingleFlight, TLC

MCCandidates ==
    [b \in Bodies |-> CASE b = "unknown" -> 0 [] b = "direct" -> 1 [] OTHER -> 2]

\* Requests and replicas are interchangeable: no action names one.
Symmetry == Permutations(Requests) \cup Permutations(Replicas)

\* Symmetry sets are unsound for liveness. Instead, one of every set of
\* interchangeable initial states: two requests that may coalesce, the first
\* at replica p1, and a third that is a twin, of another tenant, or unroutable.
CONSTANTS r1, r2, p1

TenantsInit ==
    /\ Init
    /\ at[r1] = p1
    /\ req[r1] = [tenant |-> "t1", body |-> "direct"]
    /\ req[r2] = req[r1]

FairTenants ==
    /\ TenantsInit
    /\ [][Next]_vars
    /\ \A r \in Requests : WF_vars(Step(r))
=============================================================================
