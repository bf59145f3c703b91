---------------------------- MODULE MCRateLimiter ----------------------------
(* RateLimiter for TLC.                                                    *)
EXTENDS RateLimiter, TLC

CONSTANTS c1, c2, t1, t2

OneClient == {c1}
TwoClients == {c1, c2}
TwoThreads == {t1, t2}

BothSymmetries == Permutations(TwoThreads) \cup Permutations(TwoClients)
=============================================================================
