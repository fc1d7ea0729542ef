---------------------------- MODULE MCServerMain ----------------------------
(* ServerMain for TLC; the .cfg file gives the constants their values. *)
EXTENDS ServerMain, TLC

CONSTANTS noname, k1, v1, v2, v3, c1, s1, s2

MCKeys == {noname, k1}
MCValues == {v1, v2, v3}
MCConns == {c1, Udp}
MCSizes == {2, 3, 5}

\* With the limit 4: two that fit but not together, and one that never does.
MCSizeOf == (v1 :> 2) @@ (v2 :> 3) @@ (v3 :> 5)
MCGarbage == [method |-> "other", keep_alive |-> TRUE]

\* PUTs that meet under one key, evict each other or do not fit, a GET that closes
\* its connection and a reset.
MCPut(k, v) == [method |-> "put", key |-> k, val |-> v, keep_alive |-> TRUE]
MCTraffic ==
  {MCPut(k1, v1), MCPut(noname, v2), MCPut(k1, v3),
   [method |-> "get", key |-> k1, keep_alive |-> FALSE],
   [method |-> "reset", keep_alive |-> TRUE]}
=============================================================================
