---------------------------- MODULE MCRateLimit -----------------------------
(* Small instances of RateLimit for TLC. *)
EXTENDS RateLimit, TLC

CONSTANTS r1, r2, r3, a1, a2, ordersLimiter, publicLimiter

OneAndTwo == ordersLimiter :> 1 @@ publicLimiter :> 2

RequestSymmetry == Permutations(Request)
=============================================================================
