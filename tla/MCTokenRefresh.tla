-------------------------- MODULE MCTokenRefresh --------------------------
(* Instances of TokenRefresh: two processes that share the store with a    *)
(* call each, and one process with two calls.                              *)
EXTENDS TokenRefresh, TLC

CONSTANTS p1, p2, c1, c2, c3

OneOne == (c1 :> p1) @@ (c3 :> p2)
TwoZero == (c1 :> p1) @@ (c2 :> p1)

MCSymmetry == Permutations({c1, c2})
=============================================================================
