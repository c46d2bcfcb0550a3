---------------------------- MODULE MCRateLimit -----------------------------
(* Four requests at a bucket of two tokens; the requests are alike. *)
EXTENDS RateLimit, TLC

CONSTANTS q1, q2, q3, q4

MCRequests == {q1, q2, q3, q4}
Symmetry == Permutations(MCRequests)
=============================================================================
