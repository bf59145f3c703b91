--------------------------- MODULE MCMongoStorage ---------------------------
(* MongoStorage for TLC.                                                   *)
EXTENDS MongoStorage, TLC

CONSTANTS p1, d1, d2, s1, t1, t2, t3

MCParcels == {p1}
MCDeliveries == {d1, d2}
MCSuffixes == {s1}
MCThreads == {t1, t2, t3}

Symmetry == Permutations(MCDeliveries) \cup Permutations(MCThreads)
=============================================================================
