-------------------------- MODULE MCPostgresStorage --------------------------
(* PostgresStorage for TLC.                                                *)
EXTENDS PostgresStorage

CONSTANTS u1, p1, d1, d2, s1, s2, t1, t2, r1

MCOneUser == {u1}
MCOneParcel == {p1}
MCTwoDeliveries == {d1, d2}
MCOneSuffix == {s1}
MCSuffixes == {s1, s2}
MCThreads == {t1, t2}
MCReaders == {r1}
MCNoReaders == {}
=============================================================================
