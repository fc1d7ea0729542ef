---------------------------- MODULE BoundedStore ----------------------------
(***************************************************************************)
(* What cache.hh promises of a cache, without counter, queue or empty      *)
(* entries: a map from keys to values whose total size stays within a      *)
(* limit.  A set() drops the old value of its key, may drop other values   *)
(* only while the new one does not fit, and then stores it; without        *)
(* eviction it gives up exactly when the new value does not fit.           *)
(***************************************************************************)
EXTENDS Integers, FiniteSets

CONSTANTS Callers, Keys, Values, Sizes, Null, MaxMem, Word

VARIABLES
  store,     \* per key, its value and size, or Null
  writing,   \* per caller, the call of set() it is inside of, or Null
  evicting   \* the cache may drop values to make room

storeVars == <<store, writing, evicting>>

\* The bytes of all values, one element per byte, and their number.
Bytes(s) ==
  {p \in Keys \X (1 .. (Word - 1)) : s[p[1]] # Null /\ p[2] <= s[p[1]].size}
Weight(s) == Cardinality(Bytes(s))

StoreInit ==
  /\ store = [k \in Keys |-> Null]
  /\ writing = [t \in Callers |-> Null]
  /\ evicting \in BOOLEAN

Without(k) == [store EXCEPT ![k] = Null]

Refuse(t, k, n) ==
  /\ writing[t] = Null
  /\ ~evicting
  /\ Weight(Without(k)) + n > MaxMem
  /\ store' = Without(k)
  /\ UNCHANGED <<writing, evicting>>

Begin(t, k, v, n) ==
  /\ writing[t] = Null
  /\ evicting \/ Weight(Without(k)) + n <= MaxMem
  /\ store' = Without(k)
  /\ writing' = [writing EXCEPT ![t] = [key |-> k, val |-> v, size |-> n]]
  /\ UNCHANGED evicting

Evict(t, k) ==
  /\ writing[t] # Null
  /\ evicting
  /\ Weight(store) + writing[t].size > MaxMem
  /\ store' = Without(k)
  /\ UNCHANGED <<writing, evicting>>

Commit(t) ==
  /\ writing[t] # Null
  /\ Weight(store) + writing[t].size <= MaxMem
  /\ store' = [store EXCEPT ![writing[t].key] =
                 [val |-> writing[t].val, size |-> writing[t].size]]
  /\ writing' = [writing EXCEPT ![t] = Null]
  /\ UNCHANGED evicting

Delete(t, k) ==
  /\ writing[t] = Null
  /\ store' = Without(k)
  /\ UNCHANGED <<writing, evicting>>

Clear(t) ==
  /\ writing[t] = Null
  /\ store' = [k \in Keys |-> Null]
  /\ UNCHANGED <<writing, evicting>>

StoreNext ==
  \E t \in Callers :
    \/ \E k \in Keys, n \in Sizes : Refuse(t, k, n)
    \/ \E k \in Keys, v \in Values, n \in Sizes : Begin(t, k, v, n)
    \/ \E k \in Keys : Evict(t, k) \/ Delete(t, k)
    \/ Commit(t)
    \/ Clear(t)

StoreSpec == StoreInit /\ [][StoreNext]_storeVars

=============================================================================
