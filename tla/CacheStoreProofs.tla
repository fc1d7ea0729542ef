-------------------------- MODULE CacheStoreProofs --------------------------
(***************************************************************************)
(* CacheLib implements BoundedStore, for every set of keys, values and     *)
(* sizes and every limit: with the counter, the queue and the empty        *)
(* entries hidden, each step is one of the abstract store or none.         *)
(*                                                                         *)
(* CacheInv says that the counter is the weight of the map; what is        *)
(* missing is that the entries the mapping hides weigh nothing (EmptyOK).  *)
(***************************************************************************)
EXTENDS CacheLibProofs

\* What the abstract store sees of a map.
Mapped(d) == [k \in Keys |-> IF ValueOf(d, k) = Null THEN Null ELSE d[k]]

\* Entries without a value are the ones that get() creates.
EmptyOK == \A k \in Keys : dict_[k] # Absent /\ dict_[k].val = Null => dict_[k].size = 0

StoreInv == CacheInv /\ EmptyOK

-----------------------------------------------------------------------------
(* The mapping *)

\* The abstract store counts as this module does.
LEMMA SameCount == \A S : AbstractStore!Cardinality(S) = Cardinality(S)
BY DEF Cardinality, AbstractStore!Cardinality

\* The abstract store weighs what the map holds.
LEMMA MappedWeight ==
  ASSUME NEW d \in Typed,
         \A k \in Keys : d[k] # Absent /\ d[k].val = Null => d[k].size = 0
  PROVE  AbstractStore!Weight(Mapped(d)) = Cardinality(ValueBytes(d))
<1>1. ASSUME NEW k \in Keys, NEW b \in 1 .. (Word - 1)
      PROVE  Mapped(d)[k] # Null /\ b <= Mapped(d)[k].size <=> d[k] # Absent /\ b <= d[k].size
  <2>1. CASE d[k] = Absent
    BY <2>1 DEF Mapped, ValueOf
  <2>2. CASE d[k] # Absent /\ d[k].val = Null
    <3>1. d[k].size = 0 /\ ~(b <= 0)
      BY <2>2, CacheAssumption DEF CacheAssumption
    <3> QED
      BY <2>2, <3>1 DEF Mapped, ValueOf
  <2>3. CASE d[k] # Absent /\ d[k].val # Null
    <3>1. d[k] # Null
      BY <2>3, CacheAssumption DEF Typed, CacheAssumption
    <3> QED
      BY <2>3, <3>1 DEF Mapped, ValueOf
  <2> QED
    BY <2>1, <2>2, <2>3
<1>2. AbstractStore!Bytes(Mapped(d)) = ValueBytes(d)
  BY <1>1 DEF AbstractStore!Bytes, ValueBytes
<1> QED
  BY <1>2, SameCount DEF AbstractStore!Weight

\* Taking a key out of the map takes it out of the store.
LEMMA MappedDrop ==
  ASSUME NEW d \in Typed, NEW k \in Keys
  PROVE  Mapped([d EXCEPT ![k] = Absent]) = [Mapped(d) EXCEPT ![k] = Null]
BY DEF Typed, Mapped, ValueOf

\* Storing a value under a key that is not in the map stores it.
LEMMA MappedStore ==
  ASSUME NEW d \in Typed, NEW k \in Keys, NEW e \in Entry, e.val # Null, e # Absent
  PROVE  Mapped([d EXCEPT ![k] = e]) = [Mapped(d) EXCEPT ![k] = e]
BY DEF Typed, Mapped, ValueOf

\* An empty entry is not seen.
LEMMA MappedPhantom ==
  ASSUME NEW d \in Typed, NEW k \in Keys, d[k] = Absent
  PROVE  Mapped([d EXCEPT ![k] = Phantom]) = Mapped(d)
<1>1. Phantom # Absent /\ Phantom.val = Null
  BY PhantomType, CacheAssumption DEF Phantom, CacheAssumption
<1> QED
  BY <1>1 DEF Typed, Mapped, ValueOf

-----------------------------------------------------------------------------
(* The invariant *)

\* Only get() creates an entry without a value.
LEMMA EmptyInductive ==
  ASSUME TypeOK, EmptyOK, [Next]_vars
  PROVE  EmptyOK'
<1> SUFFICES ASSUME NEW j \in Keys, dict_'[j] # Absent, dict_'[j].val = Null
             PROVE  dict_'[j].size = 0
  BY DEF EmptyOK
<1>0. dict_ \in Typed
  BY DEF TypeOK, Typed
<1>1. CASE dict_'[j] = dict_[j]
  BY <1>1 DEF EmptyOK
<1>2. ASSUME NEW k \in Keys, Drop(k) PROVE dict_'[j] = dict_[j]
  BY <1>0, <1>2 DEF Drop, DelDict, Typed
<1>3. ASSUME NEW t \in Callers, NEW k \in Keys, get(t, k) PROVE dict_'[j].size = 0
  <2>1. CASE dict_[k] = Absent /\ j = k
    BY <1>0, <1>3, <2>1 DEF get, Typed, Phantom
  <2>2. CASE dict_[k] # Absent \/ j # k
    BY <1>0, <1>1, <1>3, <2>2 DEF get, Typed
  <2> QED
    BY <2>1, <2>2
<1>4. ASSUME NEW t \in Callers, SetInsert(t) PROVE dict_'[j].size = 0
  <2> DEFINE c == call[t]
             e == [val |-> c.val, size |-> c.size]
  <2>1. c.key \in Keys /\ c.val # Null
    BY <1>4, CacheAssumption DEF SetInsert, TypeOK, SetCall, CacheAssumption
  <2>2. dict_' = dict_ \/ dict_' = [dict_ EXCEPT ![c.key] = e]
    BY <1>4 DEF SetInsert
  <2>3. e.val # Null
    BY <2>1
  <2>4. dict_'[j] = dict_[j] \/ dict_'[j] = e
    <3> HIDE DEF e
    <3> QED BY <1>0, <2>1, <2>2 DEF Typed
  <2> QED
    BY <1>1, <2>3, <2>4
<1>5. ASSUME NEW t \in Callers, reset(t) PROVE FALSE
  BY <1>5 DEF reset
<1>6. ASSUME NEW t \in Callers, NEW k \in Keys, del(t, k) PROVE dict_'[j].size = 0
  BY <1>1, <1>2, <1>6 DEF del
<1>7. ASSUME NEW t \in Callers, NEW k \in Keys, NEW n \in Sizes, SetReject(t, k, n)
      PROVE  dict_'[j].size = 0
  BY <1>1, <1>2, <1>7 DEF SetReject, DropOld
<1>8. ASSUME NEW t \in Callers, NEW k \in Keys, NEW v \in Values, NEW n \in Sizes,
             SetBegin(t, k, v, n)
      PROVE  dict_'[j].size = 0
  BY <1>1, <1>2, <1>8 DEF SetBegin, DropOld
<1>9. ASSUME NEW t \in Callers, SetEvict(t) PROVE dict_'[j].size = 0
  BY <1>1, <1>2, <1>9, VictimType DEF SetEvict
<1>10. CASE UNCHANGED vars
  BY <1>1, <1>10 DEF vars
<1> QED
  BY <1>3, <1>4, <1>5, <1>6, <1>7, <1>8, <1>9, <1>10 DEF Next

\* One thread and sums below 2^32: counter, limit, queue and empty entries agree.
THEOREM StoreInvariant ==
  ASSUME SingleCaller, NoWrap
  PROVE  Spec => []StoreInv
<1>1. Init => EmptyOK
  BY DEF Init, EmptyOK
<1>2. CacheInv /\ EmptyOK /\ [Next]_vars => EmptyOK'
  BY EmptyInductive DEF CacheInv
<1>3. Spec => []CacheInv
  BY CacheInvariant
<1>4. CacheInv /\ EmptyOK <=> StoreInv
  BY DEF StoreInv
<1> QED
  BY <1>1, <1>2, <1>3, <1>4, PTL DEF Spec

-----------------------------------------------------------------------------
(* The refinement *)

\* The weight the store has, before and after a step.
LEMMA WeightIsSize ==
  ASSUME StoreInv
  PROVE  /\ AbstractStore!Weight(Mapped(dict_)) = size_
         /\ size_ \in 0 .. MaxMem
<1>1. dict_ \in Typed /\ size_ \in 0 .. (Word - 1)
  BY DEF StoreInv, CacheInv, TypeOK, Typed
<1>2. size_ = Cardinality(ValueBytes(dict_)) /\ size_ <= MaxMem
  BY DEF StoreInv, CacheInv, BytesOK, Accounting, Capacity
<1>3. AbstractStore!Weight(Mapped(dict_)) = Cardinality(ValueBytes(dict_))
  BY <1>1, MappedWeight DEF StoreInv, EmptyOK
<1> QED
  BY <1>1, <1>2, <1>3, CacheAssumption DEF CacheAssumption

\* What a deletion of k leaves weighs what the counter says.
LEMMA DroppedWeight ==
  ASSUME StoreInv, NEW k \in Keys, Drop(k)
  PROVE  /\ Mapped(dict_') = [Mapped(dict_) EXCEPT ![k] = Null]
         /\ AbstractStore!Weight(Mapped(dict_')) = size_'
         /\ size_' \in 0 .. MaxMem
         /\ size_' = Cardinality(ValueBytes(dict_'))
<1>1. dict_ \in Typed /\ TypeOK /\ BytesOK
  BY DEF StoreInv, CacheInv, TypeOK, Typed
<1>2. dict_' = [dict_ EXCEPT ![k] = Absent]
  BY DEF Drop, DelDict
<1>3. dict_' \in Typed
  BY <1>1, <1>2 DEF Typed
<1>4. /\ size_' = Cardinality(ValueBytes(dict_'))
      /\ size_' <= MaxMem
      /\ size_' \in 0 .. (Word - 1)
  BY <1>1, DelCount, DelType DEF Drop
<1>5. \A j \in Keys : dict_'[j] # Absent /\ dict_'[j].val = Null => dict_'[j].size = 0
  BY <1>1, <1>2 DEF StoreInv, EmptyOK, Typed
<1>6. AbstractStore!Weight(Mapped(dict_')) = Cardinality(ValueBytes(dict_'))
  BY <1>3, <1>5, MappedWeight
<1>7. Mapped(dict_') = [Mapped(dict_) EXCEPT ![k] = Null]
  BY <1>1, <1>2, MappedDrop
<1> QED
  BY <1>4, <1>6, <1>7, CacheAssumption DEF CacheAssumption
\* The parts of the abstract store, in terms of this module.
LEMMA StoreState ==
  /\ AbstractStore!storeVars = <<Mapped(dict_), call, evictor_>>
  /\ AbstractStore!storeVars' = <<Mapped(dict_'), call', evictor_'>>
BY DEF AbstractStore!storeVars, Mapped

\* A step of set() is one of the abstract set(): what the counter says of the
\* room is true of the store.
LEMMA SetRefines ==
  ASSUME NoWrap, StoreInv, NEW t \in Callers
  PROVE  /\ \A k \in Keys, n \in Sizes : SetReject(t, k, n) => AbstractStore!Refuse(t, k, n)
         /\ \A k \in Keys, v \in Values, n \in Sizes :
              SetBegin(t, k, v, n) => AbstractStore!Begin(t, k, v, n)
         /\ \A k \in Keys : k = victim /\ SetEvict(t) => AbstractStore!Evict(t, k)
         /\ SetInsert(t) => AbstractStore!Commit(t)
<1>0. dict_ \in Typed /\ call \in [Callers -> SetCall \cup {Null}] /\ MaxMem \in Int
  BY CacheAssumption DEF StoreInv, CacheInv, TypeOK, Typed, CacheAssumption
<1>1. ASSUME NEW s \in 0 .. MaxMem, NEW n \in Sizes
      PROVE  /\ Over(s, n) => s + n > MaxMem
             /\ ~Over(s, n) => s + n <= MaxMem
  <2>1. Plus(s, n) = s + n /\ s \in Int /\ n \in Int /\ MaxMem \in Int
    BY <1>1, FitsNoWrap, CacheAssumption DEF CacheAssumption
  <2> QED
    BY <2>1 DEF Over
<1>2. ASSUME NEW k \in Keys, NEW n \in Sizes, SetReject(t, k, n)
      PROVE  AbstractStore!Refuse(t, k, n)
  <2>1. Drop(k) /\ Over(size_', n) /\ ~evictor_ /\ call[t] = Null /\ UNCHANGED <<call, evictor_>>
    BY <1>2 DEF SetReject, DropOld, Refused, CanStart
  <2>2. AbstractStore!Weight(Mapped(dict_')) + n > MaxMem
    BY <1>1, <2>1, DroppedWeight
  <2>3. Mapped(dict_') = [Mapped(dict_) EXCEPT ![k] = Null]
    BY <2>1, DroppedWeight
  <2> QED
    BY <2>1, <2>2, <2>3 DEF AbstractStore!Refuse, AbstractStore!Without, Mapped
<1>3. ASSUME NEW k \in Keys, NEW v \in Values, NEW n \in Sizes, SetBegin(t, k, v, n)
      PROVE  AbstractStore!Begin(t, k, v, n)
  <2>1. /\ Drop(k) /\ (~Over(size_', n) \/ evictor_) /\ call[t] = Null
        /\ call' = [call EXCEPT ![t] = [key |-> k, val |-> v, size |-> n]]
        /\ UNCHANGED evictor_
    BY <1>3 DEF SetBegin, DropOld, Refused, CanStart
  <2>2. evictor_ \/ AbstractStore!Weight(Mapped(dict_')) + n <= MaxMem
    <3>1. AbstractStore!Weight(Mapped(dict_')) = size_' /\ size_' \in 0 .. MaxMem
      BY <2>1, DroppedWeight
    <3>2. ~Over(size_', n) => size_' + n <= MaxMem
      BY <1>1, <3>1
    <3> QED
      BY <2>1, <3>1, <3>2
  <2>3. Mapped(dict_') = [Mapped(dict_) EXCEPT ![k] = Null]
    BY <2>1, DroppedWeight
  <2> QED
    BY <2>1, <2>2, <2>3 DEF AbstractStore!Begin, AbstractStore!Without, Mapped
<1>4. ASSUME call[t] # Null
      PROVE  call[t].key \in Keys /\ call[t].size \in Sizes /\ call[t].size \in Int
  BY <1>0, <1>4, SetCallFacts
<1>5. ASSUME NEW k \in Keys, k = victim, SetEvict(t) PROVE AbstractStore!Evict(t, k)
  <2>1. Drop(k) /\ Over(size_, call[t].size) /\ evictor_ /\ call[t] # Null /\ UNCHANGED <<call, evictor_>>
    BY <1>5 DEF SetEvict
  <2>2. AbstractStore!Weight(Mapped(dict_)) + call[t].size > MaxMem
    BY <1>1, <1>4, <2>1, WeightIsSize
  <2>3. Mapped(dict_') = [Mapped(dict_) EXCEPT ![k] = Null]
    BY <2>1, DroppedWeight
  <2> QED
    BY <2>1, <2>2, <2>3 DEF AbstractStore!Evict, AbstractStore!Without, Mapped
<1>6. ASSUME SetInsert(t) PROVE AbstractStore!Commit(t)
  <2> DEFINE c == call[t]
             e == [val |-> c.val, size |-> c.size]
  <2>1. c # Null /\ ~Over(size_, c.size) /\ call' = [call EXCEPT ![t] = Null] /\ UNCHANGED evictor_
    BY <1>6 DEF SetInsert
  <2>2. c \in SetCall
    BY <1>0, <2>1
  <2>3. /\ c.key \in Keys /\ c.size \in Sizes /\ c.size \in Int
        /\ e \in Entry /\ e # Absent /\ e.val = c.val /\ c.val # Null
    BY <2>2, SetCallFacts, CacheAssumption DEF SetCall, CacheAssumption
  <2>4. dict_[c.key] = Absent
    BY <2>1 DEF StoreInv, CacheInv, InsertIsFresh
  <2>5. dict_' = [dict_ EXCEPT ![c.key] = e]
    BY <1>6, <2>4 DEF SetInsert
  <2>6. AbstractStore!Weight(Mapped(dict_)) + c.size <= MaxMem
    <3>1. AbstractStore!Weight(Mapped(dict_)) = size_ /\ size_ \in 0 .. MaxMem
      BY WeightIsSize
    <3> QED
      BY <1>0, <1>1, <2>1, <2>3, <3>1
  <2>7. Mapped(dict_') = [Mapped(dict_) EXCEPT ![c.key] = e]
    <3> HIDE DEF e
    <3> QED
      BY <1>0, <2>3, <2>5, MappedStore
  <2> QED
    BY <2>1, <2>6, <2>7 DEF AbstractStore!Commit, Mapped
<1> QED
  BY <1>2, <1>3, <1>5, <1>6

\* A get() changes nothing the abstract store sees; del() and reset() are its
\* Delete and Clear.
LEMMA OtherRefines ==
  ASSUME StoreInv, NEW t \in Callers, NEW k \in Keys
  PROVE  /\ get(t, k) => UNCHANGED AbstractStore!storeVars
         /\ del(t, k) => AbstractStore!Delete(t, k)
         /\ reset(t) => AbstractStore!Clear(t)
<1>0. dict_ \in Typed
  BY DEF StoreInv, CacheInv, TypeOK, Typed
<1>1. ASSUME get(t, k) PROVE UNCHANGED AbstractStore!storeVars
  <2>1. Mapped(dict_') = Mapped(dict_)
    BY <1>0, <1>1, MappedPhantom DEF get
  <2> QED
    BY <1>1, <2>1, StoreState DEF get
<1>2. ASSUME del(t, k) PROVE AbstractStore!Delete(t, k)
  <2>1. Mapped(dict_') = [Mapped(dict_) EXCEPT ![k] = Null]
    BY <1>2, DroppedWeight DEF del
  <2> QED
    BY <1>2, <2>1 DEF del, AbstractStore!Delete, AbstractStore!Without, Mapped
<1>3. ASSUME reset(t) PROVE AbstractStore!Clear(t)
  <2>1. Mapped(dict_') = [j \in Keys |-> Null]
    BY <1>3 DEF reset, Mapped, ValueOf
  <2> QED
    BY <1>3, <2>1 DEF reset, AbstractStore!Clear, Mapped
<1> QED
  BY <1>1, <1>2, <1>3

\* Each step of the cache is a step of the abstract store, or none.
LEMMA StoreStep ==
  ASSUME NoWrap, StoreInv, [Next]_vars
  PROVE  [AbstractStore!StoreNext]_AbstractStore!storeVars
<1>1. CASE UNCHANGED vars
  BY <1>1, StoreState DEF vars
<1>2. ASSUME NEW t \in Callers, NEW k \in Keys, get(t, k)
      PROVE  UNCHANGED AbstractStore!storeVars
  BY <1>2, OtherRefines
<1>3. ASSUME NEW t \in Callers, NEW k \in Keys, del(t, k) PROVE AbstractStore!StoreNext
  BY <1>3, OtherRefines DEF AbstractStore!StoreNext
<1>4. ASSUME NEW t \in Callers, reset(t) PROVE AbstractStore!StoreNext
  BY <1>4, OtherRefines, EmptyKeyAssumption DEF EmptyKeyAssumption, AbstractStore!StoreNext
<1>5. ASSUME NEW t \in Callers, NEW k \in Keys, NEW n \in Sizes, SetReject(t, k, n)
      PROVE  AbstractStore!StoreNext
  BY <1>5, SetRefines DEF AbstractStore!StoreNext
<1>6. ASSUME NEW t \in Callers, NEW k \in Keys, NEW v \in Values, NEW n \in Sizes,
             SetBegin(t, k, v, n)
      PROVE  AbstractStore!StoreNext
  BY <1>6, SetRefines DEF AbstractStore!StoreNext
<1>7. ASSUME NEW t \in Callers, SetEvict(t) PROVE AbstractStore!StoreNext
  <2>1. PICK k \in Keys : k = victim
    BY VictimType DEF StoreInv, CacheInv
  <2>2. AbstractStore!Evict(t, k)
    BY <1>7, <2>1, SetRefines
  <2> QED
    BY <2>2 DEF AbstractStore!StoreNext
<1>8. ASSUME NEW t \in Callers, SetInsert(t) PROVE AbstractStore!StoreNext
  BY <1>8, SetRefines DEF AbstractStore!StoreNext
<1> QED
  BY <1>1, <1>2, <1>3, <1>4, <1>5, <1>6, <1>7, <1>8 DEF Next

\* With the counter, the queue and the empty entries hidden, a cache used by one
\* thread is the store that cache.hh promises: its values fit the limit, one is
\* dropped only while a new one does not fit, and none gets lost otherwise.
THEOREM CacheImplementsStore ==
  ASSUME SingleCaller, NoWrap
  PROVE  Spec => ImplementsStore
<1>1. Init => AbstractStore!StoreInit
  BY DEF Init, ValueOf, AbstractStore!StoreInit
<1>2. StoreInv /\ [Next]_vars => [AbstractStore!StoreNext]_AbstractStore!storeVars
  BY StoreStep
<1>3. Spec => []StoreInv
  BY StoreInvariant
<1> QED
  BY <1>1, <1>2, <1>3, PTL DEF Spec, ImplementsStore, AbstractStore!StoreSpec

\* A set() gives up only for want of room: the bytes that stay and the new value
\* together really exceed maxmem_ (cache.hh: "new insertions fail after maxmem has
\* been exceeded").
THEOREM RefusalsAreJust ==
  ASSUME SingleCaller, NoWrap
  PROVE  Spec => RefusesOnlyForRoom
<1> DEFINE Just == \A t \in Callers, k \in Keys, n \in Sizes :
                     SetReject(t, k, n) => Cardinality(ValueBytes(dict_')) + n > MaxMem
<1>1. StoreInv => Just
  <2> SUFFICES ASSUME StoreInv, NEW t \in Callers, NEW k \in Keys, NEW n \in Sizes,
                      SetReject(t, k, n)
               PROVE  Cardinality(ValueBytes(dict_')) + n > MaxMem
    OBVIOUS
  <2>1. Drop(k) /\ Over(size_', n)
    BY DEF SetReject, DropOld, Refused
  <2>2. size_' \in 0 .. MaxMem /\ size_' = Cardinality(ValueBytes(dict_'))
    BY <2>1, DroppedWeight
  <2>3. Plus(size_', n) = size_' + n
    BY <2>2, FitsNoWrap
  <2> QED
    BY <2>1, <2>2, <2>3 DEF Over
<1>2. Spec => []StoreInv
  BY StoreInvariant
<1> QED
  BY <1>1, <1>2, PTL DEF Spec, RefusesOnlyForRoom

=============================================================================
