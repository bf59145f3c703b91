----------------------------- MODULE MCAuthTokens -----------------------------
(* AuthTokens for TLC.                                                     *)
EXTENDS AuthTokens, TLC

CONSTANTS u1, u2, t1, t2

MCUsers == {u1, u2}
MCThreads == {t1, t2}

ThreadSymmetry == Permutations(MCThreads)
=============================================================================
