-------------------------- MODULE MCInMemoryStorage --------------------------
(* InMemoryStorage for TLC.                                                *)
EXTENDS InMemoryStorage, TLC

CONSTANTS l1, l2, t1, t2, t3

MCLogins == {l1, l2}
MCThreads == {t1, t2, t3}

Symmetry == Permutations(MCThreads) \cup Permutations(MCLogins)
=============================================================================
