---------------------------- MODULE MCCacheServer ----------------------------
(* CacheServer for TLC; the .cfg files give the constants their values. *)
EXTENDS CacheServer, TLC

CONSTANTS noname, k1, v1, v2, c1, c2

MCKeys == {noname, k1}
MCValues == {v1, v2}
MCConns == {c1, c2}
MCSizes == {2, 3}

\* With the limit 5 the two values fit together exactly; v2 does not fit twice.
MCSizeOf == (v1 :> 2) @@ (v2 :> 3)

ConnSymmetry == Permutations(MCConns)
==============================================================================
