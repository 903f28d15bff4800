---------------------------- MODULE MCLockLease ----------------------------
(***************************************************************************)
(* Instances of LockLease for TLC: two candidates of half a second each,   *)
(* a tick being half a second. Rest[1] + Grace is an odd number of ticks,  *)
(* so that rounding the TTL to seconds matters, and the grace equals the   *)
(* socket timeout, as in the configuration the repository ships.           *)
(***************************************************************************)
EXTENDS LockLease, TLC

MCTimeout == <<1, 1>>
MCRest == <<2, 1, 0>>

\* Callers are interchangeable: no action names one.
Symmetry == Permutations(Callers)
=============================================================================
