----------------------------- MODULE MCCacheLib -----------------------------
(* CacheLib for TLC; the .cfg files give the constants their values. *)
EXTENDS CacheLib, TLC

CONSTANTS noname, k1, k2, v1, v2

MCKeys == {noname, k1, k2}
MCValues == {v1, v2}

\* With the limit 4: two that fit, and one that never does.
MCSizes == {1, 3, 5}
=============================================================================
