--------------------------- MODULE MCRateLimiter ---------------------------
(***************************************************************************)
(* Instances of RateLimiter for TLC: calls are interchangeable.            *)
(***************************************************************************)
EXTENDS RateLimiter, TLC

Symmetry == Permutations(Calls)
=============================================================================
