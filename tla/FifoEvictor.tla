---------------------------- MODULE FifoEvictor ----------------------------
(***************************************************************************)
(* The eviction policy of the cache: a queue of keys.  Every touch pushes  *)
(* the key at the back, whether or not it is queued already, and evict()   *)
(* pops the front.  The policy never learns that a key was deleted, so a   *)
(* queued key may be stale or queued several times.                        *)
(***************************************************************************)
EXTENDS Sequences

CONSTANTS
  Keys,       \* the strings used as keys
  EmptyKey    \* the key "", which evict() returns when it knows no key

ASSUME EmptyKeyAssumption == EmptyKey \in Keys

VARIABLE contents_    \* the queue of touched keys, front first

evictorInit == contents_ = <<>>

touch_key(key) == contents_' = Append(contents_, key)

\* The key the next call of evict() returns.
victim == IF contents_ = <<>> THEN EmptyKey ELSE Head(contents_)

\* Fault: evict() looks at the front but does not pop it.
evict_NoPop == UNCHANGED contents_

evict == contents_' = IF contents_ = <<>> THEN <<>> ELSE Tail(contents_)

\* The keys that occur somewhere in the queue.
Queued == {contents_[i] : i \in DOMAIN contents_}

=============================================================================
