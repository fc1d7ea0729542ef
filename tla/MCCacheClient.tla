---------------------------- MODULE MCCacheClient ----------------------------
(* CacheClient for TLC; the .cfg files give the constants their values. *)
EXTENDS CacheClient

CONSTANTS c1, c2, a, b

MCConns == {c1, c2}
MCChars == {a, b, Slash}
MCEmptyKey == <<>>
MCCallKeys == {<<b>>, <<a, Slash, b>>}
MCCallValues == {<<a, b>>, <<b, Slash>>}

\* set("b", "ab") is stored as it is and set("b", "b/") is cut to "b"; get() also
\* asks for "a/b".  The cache is reset by destructors only.
MCCallsMade ==
  {x \in Calls : /\ x.method # "reset"
                 /\ x.method \in {"set", "del"} => x.key = <<b>>}

\* What the PUTs of all these pairs would store.
MCKeys == {MCEmptyKey, <<a>>} \cup MCCallKeys
MCValues == {<<b>>, <<a, b>>}
MCSizeOf == [v \in MCValues |-> Len(v) + 1]

\* With the limit 2: one that fits if the cache is empty, and one that never does.
MCSizes == {2, 3}

\* Wire's property, over all strings up to MaxLen characters.
ASSUME WireIsExact == WireExact
==============================================================================
