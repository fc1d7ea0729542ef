------------------------------ MODULE CacheLib ------------------------------
(***************************************************************************)
(* The in-memory cache (class Cache as cache_lib.cc implements it): a map  *)
(* from keys to (value, size) entries, a byte counter, a limit and an      *)
(* optional eviction policy.                                               *)
(*                                                                         *)
(* get, del and reset are one action each.  set is a loop, so it is three: *)
(* SetBegin (drop the old entry, test for room), SetEvict (one turn of the *)
(* eviction loop) and SetInsert (leave the loop, store, count, touch).     *)
(* The class has no lock.  Callers is the set of threads that use one      *)
(* object; the program's default is a single one.                          *)
(***************************************************************************)
EXTENDS Integers, FiniteSets, FifoEvictor

CONSTANTS
  Callers,      \* threads that call into the object
  Values,       \* byte strings used as values
  Sizes,        \* the size argument of set(): length plus terminator
  Null,         \* nullptr; also: no call of set() in progress
  Absent,       \* dict_.find(key) == dict_.end()
  MaxMem,       \* maxmem_
  Word,         \* 2^32: size_type is uint32_t
  MaxTouches    \* bound: no call starts once this many touches are queued

Entry == [val : Values \cup {Null}, size : 0 .. (Word - 1)]
SetCall == [key : Keys, val : Values, size : Sizes]

ASSUME CacheAssumption ==
  /\ Word \in Nat \ {0}
  /\ MaxMem \in 0 .. (Word - 1)
  /\ Sizes \subseteq 1 .. (Word - 1)
  /\ MaxTouches \in Nat
  /\ Null \notin Values
  /\ Null \notin SetCall /\ Null \notin Entry
  /\ Absent \notin Entry

VARIABLES
  dict_,    \* the map
  size_,    \* the byte counter that space_used() returns
  evictor_, \* the constructor was given an evictor; it keeps it for good
  call      \* per caller, the call of set() it is inside of, or Null

vars == <<dict_, size_, contents_, call, evictor_>>

TypeOK ==
  /\ dict_ \in [Keys -> Entry \cup {Absent}]
  /\ size_ \in 0 .. (Word - 1)
  /\ contents_ \in Seq(Keys)
  /\ call \in [Callers -> SetCall \cup {Null}]
  /\ evictor_ \in BOOLEAN

Init ==
  /\ dict_ = [k \in Keys |-> Absent]
  /\ size_ = 0
  /\ evictorInit
  /\ call = [t \in Callers |-> Null]
  /\ evictor_ \in BOOLEAN

-----------------------------------------------------------------------------
(* Helpers *)

\* uint32_t arithmetic.
Plus(a, b) == (a + b) % Word
Minus(a, b) == (a - b) % Word

\* Fault: the pointer of a created entry is left uninitialised.
Phantom_Uninit == [val |-> Absent, size |-> 0]

\* What operator[] inserts for a missing key: a value-initialised pair.
Phantom == [val |-> Null, size |-> 0]

\* The pointer get() returns.
ValueOf(d, k) == IF d[k] = Absent THEN Null ELSE d[k].val

\* Fault: a deletion that is not deducted from the counter.
DelSize_NotDeducted(k) == size_

\* The map and the counter after del(k), which does nothing for a missing key.
DelDict(k) == [dict_ EXCEPT ![k] = Absent]
DelSize(k) == IF dict_[k] = Absent THEN size_ ELSE Minus(size_, dict_[k].size)

\* Faults: the limit is off by one, in either direction.
Over_OneMore(s, n) == Plus(s, n) > MaxMem + 1
Over_AtLimit(s, n) == Plus(s, n) >= MaxMem

\* space_used() + n > maxmem_, for a counter that holds s.
Over(s, n) == Plus(s, n) > MaxMem

\* A caller may start a call: it is not inside set(), and the bound allows it.
CanStart(t) == call[t] = Null /\ Len(contents_) < MaxTouches

\* Fault: only keys that are in the map are touched.
Touch_IfStored(k) ==
  IF evictor_ /\ dict_[k] # Absent THEN touch_key(k) ELSE UNCHANGED contents_

Touch(k) == IF evictor_ THEN touch_key(k) ELSE UNCHANGED contents_

-----------------------------------------------------------------------------
(* Operations *)

\* A get() touches the key, then reads dict_[key], which creates the entry
\* when it is missing.
get(t, k) ==
  /\ CanStart(t)
  /\ Touch(k)
  /\ dict_' = IF dict_[k] = Absent THEN [dict_ EXCEPT ![k] = Phantom] ELSE dict_
  /\ UNCHANGED <<size_, call, evictor_>>

Drop(k) == dict_' = DelDict(k) /\ size_' = DelSize(k)

del(t, k) ==
  /\ call[t] = Null
  /\ Drop(k)
  /\ UNCHANGED <<contents_, call, evictor_>>

\* reset() leaves the evictor's queue as it is.
reset(t) ==
  /\ call[t] = Null
  /\ dict_' = [k \in Keys |-> Absent]
  /\ size_' = 0
  /\ UNCHANGED <<contents_, call, evictor_>>

\* Faults: the old entry stays; it goes only if it is an empty one.
DropOld_Never(k) == UNCHANGED <<dict_, size_>>
DropOld_Inverted(k) ==
  IF ValueOf(dict_, k) = Null THEN Drop(k) ELSE UNCHANGED <<dict_, size_>>

\* The first lines of set(): an existing entry of the key goes.
DropOld(k) == Drop(k)

\* Fault: the test for a missing evictor is left out.
Refused_Never(n) == FALSE

\* Then, without an evictor, a value that does not fit is refused.
Refused(n) == Over(size_', n) /\ ~evictor_

SetReject(t, k, n) ==
  /\ CanStart(t)
  /\ DropOld(k)
  /\ Refused(n)
  /\ UNCHANGED <<contents_, call, evictor_>>

SetBegin(t, k, v, n) ==
  /\ CanStart(t)
  /\ DropOld(k)
  /\ ~Refused(n)
  /\ call' = [call EXCEPT ![t] = [key |-> k, val |-> v, size |-> n]]
  /\ UNCHANGED <<contents_, evictor_>>

\* One turn of the loop: del(evict()).  evict() returns "" on an empty queue.
SetEvict(t) ==
  /\ call[t] # Null
  /\ Over(size_, call[t].size)
  /\ evictor_
  /\ Drop(victim)
  /\ evict
  /\ UNCHANGED <<call, evictor_>>

\* Past the loop.  unordered_map::insert keeps an entry that already exists.
SetInsert(t) ==
  /\ call[t] # Null
  /\ ~Over(size_, call[t].size)
  /\ LET c == call[t] IN
       /\ dict_' = IF dict_[c.key] = Absent
                   THEN [dict_ EXCEPT ![c.key] = [val |-> c.val, size |-> c.size]]
                   ELSE dict_
       /\ size_' = Plus(size_, c.size)
       /\ Touch(c.key)
  /\ call' = [call EXCEPT ![t] = Null]
  /\ UNCHANGED evictor_

Next ==
  \E t \in Callers :
    \/ \E k \in Keys : get(t, k) \/ del(t, k)
    \/ reset(t)
    \/ \E k \in Keys, n \in Sizes : SetReject(t, k, n)
    \/ \E k \in Keys, v \in Values, n \in Sizes : SetBegin(t, k, v, n)
    \/ SetEvict(t)
    \/ SetInsert(t)

Spec == Init /\ [][Next]_vars

\* A caller inside set() keeps running its loop.
Fairness == \A t \in Callers : WF_vars(SetEvict(t) \/ SetInsert(t))

FairSpec == Spec /\ Fairness

-----------------------------------------------------------------------------
(* What the properties assume of the use of the object *)

\* One thread uses the object.
SingleCaller == \A s, t \in Callers : s = t

\* No sum that set() computes reaches 2^32.
NoWrap == \A n \in Sizes : MaxMem + n < Word

-----------------------------------------------------------------------------
(* Properties *)

\* The bytes held for values, one element per byte.
ValueBytes(d) ==
  {p \in Keys \X (1 .. (Word - 1)) : d[p[1]] # Absent /\ p[2] <= d[p[1]].size}

\* space_used() is the number of bytes the stored values take
\* (cache.hh: "the total amount of memory used up by all cache values"),
\* through overwrites, evictions, deletions of absent keys and resets.
Accounting == size_ = Cardinality(ValueBytes(dict_))

\* The stored values never take more than maxmem_ bytes, also in the middle of
\* a set() and whatever the counter says.
Capacity == Cardinality(ValueBytes(dict_)) <= MaxMem

\* Every key in the map is still queued at the evictor, although the queue is
\* popped for stale keys and is never told of deletions or resets: eviction
\* can reach every entry.
QueueCoversDict ==
  evictor_ => \A k \in Keys : dict_[k] # Absent => k \in Queued

\* When set() reaches its insert, the key is not in the map, so that insert()
\* (which never overwrites) does store the new value.
InsertIsFresh == \A t \in Callers : call[t] # Null => dict_[call[t].key] = Absent

\* The eviction loop is entered only with an evictor, and as long as it runs
\* the evictor still has a key to give up.  The one exception is a value that is
\* larger than maxmem by itself: for it the loop goes on with an empty queue.
LoopCanProceed ==
  \A t \in Callers :
    call[t] # Null /\ Over(size_, call[t].size) =>
      evictor_ /\ (contents_ # <<>> \/ call[t].size > MaxMem)

\* Thread t is in the loop of set() and has no key left to evict: no turn of the
\* loop changes anything any more.
Spins(t) ==
  call[t] # Null /\ evictor_ /\ Over(size_, call[t].size) /\ contents_ = <<>>

\* A thread can be caught in the loop for two reasons only: its value is larger
\* than maxmem by itself, or the counter is wrong because threads met inside set().
\* Stale, repeated or missing keys in the evictor's queue are never the reason.
SpinsForCause ==
  \A t \in Callers : Spins(t) => call[t].size > MaxMem \/ ~Accounting

\* A set() gives up only if the value really does not fit beside the values that
\* stay (cache.hh: "new insertions fail after maxmem has been exceeded").
RefusesOnlyForRoom ==
  [][\A t \in Callers, k \in Keys, n \in Sizes :
       SetReject(t, k, n) => Cardinality(ValueBytes(dict_')) + n > MaxMem]_vars

AbstractStore ==
  INSTANCE BoundedStore WITH
    store <- [k \in Keys |-> IF ValueOf(dict_, k) = Null THEN Null ELSE dict_[k]],
    writing <- call,
    evicting <- evictor_

\* Phantom entries, the counter and the queue hidden, the object is a store
\* that evicts only for lack of real room and never loses a value otherwise.
ImplementsStore == AbstractStore!StoreSpec

\* Each step of a thread inside set() that changes anything returns or gives up a
\* queued key, also for a value that is too large.  So the queue as it was when the
\* loop began bounds the turns that change anything; a turn on an empty queue
\* changes nothing, and LoopCanProceed says for which values there are such turns.
LoopShrinksQueue ==
  [][\A t \in Callers :
       call[t] # Null => call'[t] = Null \/ Len(contents_') < Len(contents_)]_vars

\* Every call of set() whose value is not larger than maxmem returns.
SetReturns ==
  \A t \in Callers : call[t] # Null /\ call[t].size <= MaxMem ~> call[t] = Null

\* Every call of set() returns, whatever the size of its value (cache.hh: "If
\* unable, the new value isn't inserted to the cache").
EverySetReturns == \A t \in Callers : call[t] # Null ~> call[t] = Null

=============================================================================
