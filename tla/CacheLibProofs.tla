--------------------------- MODULE CacheLibProofs ---------------------------
(***************************************************************************)
(* Proofs about CacheLib, for every set of keys, values and sizes, every   *)
(* limit and every bound on the queue, with or without an evictor.         *)
(*                                                                         *)
(* The inductive invariant CacheInv puts together four things that need    *)
(* one another: the counter is the number of stored bytes and within the   *)
(* limit, the evictor's queue covers the map, the key of a set() in        *)
(* progress is not in the map, and the loop runs only with an evictor.     *)
(* Without the third, insert() would count bytes it does not store.        *)
(***************************************************************************)
EXTENDS CacheLib, FiniteSetTheorems, TLAPS

\* uint32_t arithmetic stays in range, and is exact where nothing wraps.
LEMMA WordArithmetic ==
  /\ \A a, b \in Int : Plus(a, b) \in 0 .. (Word - 1)
  /\ \A a, b \in Int : Minus(a, b) \in 0 .. (Word - 1)
  /\ \A a, b \in Int : a + b \in 0 .. (Word - 1) => Plus(a, b) = a + b
  /\ \A a, b \in Int : a - b \in 0 .. (Word - 1) => Minus(a, b) = a - b
BY CacheAssumption DEF CacheAssumption, Plus, Minus

\* The entry that operator[] creates is a well-formed one.
LEMMA PhantomType == Phantom \in Entry
BY CacheAssumption DEF CacheAssumption, Phantom, Entry

\* What the arguments of set() give: a key, a size, and an entry to store.
LEMMA SetCallFacts ==
  ASSUME NEW c \in SetCall
  PROVE  /\ c.key \in Keys
         /\ c.size \in Sizes
         /\ c.size \in Int
         /\ [val |-> c.val, size |-> c.size] \in Entry
         /\ [val |-> c.val, size |-> c.size] # Absent
<1>1. c.key \in Keys /\ c.val \in Values /\ c.size \in Sizes
  BY DEF SetCall
<1>2. c.size \in 0 .. (Word - 1)
  BY <1>1, CacheAssumption DEF CacheAssumption
<1>3. [val |-> c.val, size |-> c.size] \in Entry
  BY <1>1, <1>2 DEF Entry
<1> QED
  BY <1>1, <1>2, <1>3, CacheAssumption DEF CacheAssumption

\* evict() returns a key, "" if it has no other.
LEMMA VictimType == TypeOK => victim \in Keys
BY EmptyKeyAssumption DEF EmptyKeyAssumption, TypeOK, victim

\* A touched key goes to the end of the queue, or nothing happens.
LEMMA TouchType ==
  ASSUME contents_ \in Seq(Keys), NEW k \in Keys, Touch(k)
  PROVE  contents_' \in Seq(Keys)
<1>1. contents_' = Append(contents_, k) \/ contents_' = contents_
  BY Zenon DEF Touch, touch_key
<1> QED
  BY <1>1

\* del() leaves a well-formed map and counter.
LEMMA DelType ==
  ASSUME TypeOK, NEW k \in Keys
  PROVE  /\ DelSize(k) \in 0 .. (Word - 1)
         /\ DelDict(k) \in [Keys -> Entry \cup {Absent}]
<1>1. DelSize(k) \in 0 .. (Word - 1)
  <2>1. CASE dict_[k] = Absent
    BY <2>1 DEF DelSize, TypeOK
  <2>2. CASE dict_[k] # Absent
    <3>1. dict_[k].size \in 0 .. (Word - 1)
      BY <2>2 DEF TypeOK, Entry
    <3>2. dict_[k].size \in Int /\ size_ \in Int
      BY <3>1, CacheAssumption DEF CacheAssumption, TypeOK
    <3>3. Minus(size_, dict_[k].size) \in 0 .. (Word - 1)
      BY <3>2, WordArithmetic
    <3> QED
      BY <2>2, <3>3 DEF DelSize
  <2> QED
    BY <2>1, <2>2
<1>2. DelDict(k) \in [Keys -> Entry \cup {Absent}]
  BY DEF DelDict, TypeOK
<1> QED
  BY <1>1, <1>2

\* Every step of the cache keeps the types.
LEMMA TypeInductive == TypeOK /\ [Next]_vars => TypeOK'
<1> SUFFICES ASSUME TypeOK, [Next]_vars PROVE TypeOK'
  OBVIOUS
<1>0. /\ victim \in Keys
      /\ \A k \in Keys : DelSize(k) \in 0 .. (Word - 1)
      /\ \A k \in Keys : DelDict(k) \in [Keys -> Entry \cup {Absent}]
  BY DelType, VictimType
<1>1. ASSUME NEW t \in Callers, NEW k \in Keys, get(t, k) PROVE TypeOK'
  <2>1. dict_' \in [Keys -> Entry \cup {Absent}]
    BY <1>1, PhantomType DEF get, TypeOK
  <2>2. contents_' \in Seq(Keys)
    BY <1>1, TouchType DEF get, TypeOK
  <2> QED
    BY <1>1, <2>1, <2>2 DEF get, TypeOK
<1>2. ASSUME NEW t \in Callers, NEW k \in Keys, del(t, k) PROVE TypeOK'
  BY <1>2, <1>0 DEF del, Drop, TypeOK
<1>3. ASSUME NEW t \in Callers, reset(t) PROVE TypeOK'
  BY <1>3, CacheAssumption DEF reset, CacheAssumption, TypeOK
<1>4. ASSUME NEW t \in Callers, NEW k \in Keys, NEW n \in Sizes,
             SetReject(t, k, n)
      PROVE  TypeOK'
  BY <1>4, <1>0 DEF SetReject, DropOld, Drop, TypeOK
<1>5. ASSUME NEW t \in Callers, NEW k \in Keys, NEW v \in Values, NEW n \in Sizes,
             SetBegin(t, k, v, n)
      PROVE  TypeOK'
  BY <1>5, <1>0 DEF SetBegin, DropOld, Drop, SetCall, TypeOK
<1>6. ASSUME NEW t \in Callers, SetEvict(t) PROVE TypeOK'
  BY <1>6, <1>0 DEF SetEvict, Drop, evict, TypeOK
<1>7. ASSUME NEW t \in Callers, SetInsert(t) PROVE TypeOK'
  <2>1. call[t] \in SetCall
    BY <1>7 DEF SetInsert, TypeOK
  <2>2. /\ call[t].key \in Keys
        /\ call[t].size \in Int
        /\ [val |-> call[t].val, size |-> call[t].size] \in Entry
    BY <2>1, SetCallFacts
  <2>3. dict_' \in [Keys -> Entry \cup {Absent}]
    BY <1>7, <2>2 DEF SetInsert, TypeOK
  <2>4. size_ \in Int
    BY CacheAssumption DEF CacheAssumption, TypeOK
  <2>5. size_' \in 0 .. (Word - 1)
    BY <1>7, <2>2, <2>4, WordArithmetic DEF SetInsert
  <2>6. contents_' \in Seq(Keys)
    <3>1. contents_ \in Seq(Keys)
      BY DEF TypeOK
    <3>2. Touch(call[t].key)
      BY <1>7 DEF SetInsert
    <3> QED
      BY <2>2, <3>1, <3>2, TouchType
  <2>7. call' \in [Callers -> SetCall \cup {Null}]
    BY <1>7 DEF SetInsert, TypeOK
  <2>8. evictor_' \in BOOLEAN
    BY <1>7 DEF SetInsert, TypeOK
  <2> QED
    BY <2>3, <2>5, <2>6, <2>7, <2>8 DEF TypeOK
<1>8. CASE UNCHANGED vars
  BY <1>8 DEF vars, TypeOK
<1> QED
  BY <1>1, <1>2, <1>3, <1>4, <1>5, <1>6, <1>7, <1>8 DEF Next

\* The state is well-formed at all times, for any number of threads and with
\* wrapping sums: in particular a counter is a uint32_t and the queue holds keys.
THEOREM TypeCorrect == Spec => []TypeOK
<1>1. Init => TypeOK
  BY CacheAssumption DEF CacheAssumption, Init, evictorInit, TypeOK
<1> QED
  BY <1>1, TypeInductive, PTL DEF Spec

-----------------------------------------------------------------------------
(* Counting bytes *)

\* The well-formed maps.
Typed == [Keys -> Entry \cup {Absent}]

\* Storing an entry under a key that is not in the map adds its size.
LEMMA BytesAdd ==
  ASSUME NEW d \in Typed, NEW k \in Keys, NEW e \in Entry,
         d[k] = Absent, IsFiniteSet(ValueBytes(d))
  PROVE  /\ IsFiniteSet(ValueBytes([d EXCEPT ![k] = e]))
         /\ Cardinality(ValueBytes([d EXCEPT ![k] = e]))
              = Cardinality(ValueBytes(d)) + e.size
<1> DEFINE d1 == [d EXCEPT ![k] = e]
           new == {k} \X (1 .. e.size)
<1>1. e.size \in Nat /\ e.size \in 0 .. (Word - 1) /\ e # Absent
  BY CacheAssumption DEF CacheAssumption, Entry
<1>2. d1 \in [Keys -> Entry \cup {Absent}] /\ d1[k] = e /\ \A j \in Keys : j # k => d1[j] = d[j]
  BY DEF Typed
<1>3. ValueBytes(d1) = ValueBytes(d) \cup new
  <2> HIDE DEF d1
  <2>1. ASSUME NEW j \in Keys, NEW b \in 1 .. (Word - 1)
        PROVE <<j, b>> \in ValueBytes(d1) <=> <<j, b>> \in ValueBytes(d) \cup new
    <3>1. CASE j = k
      BY <3>1, <1>1, <1>2 DEF ValueBytes
    <3>2. CASE j # k
      BY <3>2, <1>2 DEF ValueBytes
    <3> QED BY <3>1, <3>2
  <2>2. new \subseteq Keys \X (1 .. (Word - 1))
    BY <1>1, CacheAssumption DEF CacheAssumption
  <2>3. /\ ValueBytes(d) \subseteq Keys \X (1 .. (Word - 1))
        /\ ValueBytes(d1) \subseteq Keys \X (1 .. (Word - 1))
    BY DEF ValueBytes
  <2> QED BY <2>1, <2>2, <2>3
<1>4. ValueBytes(d) \cap new = {}
  BY DEF ValueBytes
<1>5. IsFiniteSet(new) /\ Cardinality(new) = e.size
  <2>1. IsFiniteSet({k}) /\ Cardinality({k}) = 1
    BY FS_Singleton
  <2>2. IsFiniteSet(1 .. e.size) /\ Cardinality(1 .. e.size) = e.size
    BY <1>1, FS_Interval
  <2>3. Cardinality(new) = 1 * e.size /\ IsFiniteSet(new)
    BY <2>1, <2>2, FS_Product
  <2> QED BY <2>3, <1>1
<1>6. Cardinality(ValueBytes(d)) \in Nat
  BY FS_CardinalityType
<1>7. Cardinality(ValueBytes(d) \cap new) = 0
  BY <1>4, FS_EmptySet
<1>8. /\ IsFiniteSet(ValueBytes(d) \cup new)
      /\ Cardinality(ValueBytes(d) \cup new)
           = Cardinality(ValueBytes(d)) + Cardinality(new) - Cardinality(ValueBytes(d) \cap new)
  BY <1>5, FS_Union
<1> HIDE DEF d1, new
<1>9. Cardinality(ValueBytes(d1)) = Cardinality(ValueBytes(d)) + e.size
  BY <1>1, <1>3, <1>5, <1>6, <1>7, <1>8
<1>10. IsFiniteSet(ValueBytes(d1))
  BY <1>3, <1>8
<1> QED
  BY <1>9, <1>10 DEF d1

\* Erasing an entry takes its size away.
LEMMA BytesRemove ==
  ASSUME NEW d \in Typed, NEW k \in Keys,
         d[k] # Absent, IsFiniteSet(ValueBytes(d))
  PROVE  /\ IsFiniteSet(ValueBytes([d EXCEPT ![k] = Absent]))
         /\ Cardinality(ValueBytes(d))
              = Cardinality(ValueBytes([d EXCEPT ![k] = Absent])) + d[k].size
<1> DEFINE d0 == [d EXCEPT ![k] = Absent]
<1>1. d0 \in Typed /\ d0[k] = Absent /\ d[k] \in Entry /\ d = [d0 EXCEPT ![k] = d[k]]
  BY DEF Typed
<1>2. ValueBytes(d0) \subseteq ValueBytes(d)
  BY <1>1 DEF Typed, ValueBytes
<1>3. IsFiniteSet(ValueBytes(d0))
  BY <1>2, FS_Subset
<1> HIDE DEF d0
<1>4. Cardinality(ValueBytes([d0 EXCEPT ![k] = d[k]])) = Cardinality(ValueBytes(d0)) + d[k].size
  BY <1>1, <1>3, BytesAdd
<1>5. Cardinality(ValueBytes(d)) = Cardinality(ValueBytes(d0)) + d[k].size
  BY <1>1, <1>4
<1> QED
  BY <1>3, <1>5 DEF d0

-----------------------------------------------------------------------------
(* The parts of the inductive invariant, one lemma each *)

\* The counter is right and the limit is kept.
BytesOK == IsFiniteSet(ValueBytes(dict_)) /\ Accounting /\ Capacity

\* After del(k) the counter is the number of bytes left.
LEMMA DelCount ==
  ASSUME TypeOK, BytesOK, NEW k \in Keys
  PROVE  /\ IsFiniteSet(ValueBytes(DelDict(k)))
         /\ DelSize(k) = Cardinality(ValueBytes(DelDict(k)))
         /\ DelSize(k) <= MaxMem
<1>0. /\ dict_ \in Typed
      /\ size_ \in 0 .. (Word - 1)
      /\ IsFiniteSet(ValueBytes(dict_))
      /\ size_ = Cardinality(ValueBytes(dict_))
      /\ size_ <= MaxMem
  BY DEF TypeOK, Typed, BytesOK, Accounting, Capacity
<1>1. CASE dict_[k] = Absent
  <2>1. DelDict(k) = dict_
    BY <1>0, <1>1 DEF DelDict, Typed
  <2>2. DelSize(k) = size_
    BY <1>1 DEF DelSize
  <2> QED
    BY <1>0, <2>1, <2>2
<1>2. CASE dict_[k] # Absent
  <2>1. /\ IsFiniteSet(ValueBytes(DelDict(k)))
        /\ size_ = Cardinality(ValueBytes(DelDict(k))) + dict_[k].size
    BY <1>0, <1>2, BytesRemove DEF DelDict
  <2>2. Cardinality(ValueBytes(DelDict(k))) \in Nat
    BY <2>1, FS_CardinalityType
  <2>3. dict_[k].size \in 0 .. (Word - 1)
    BY <1>0, <1>2 DEF Typed, Entry
  <2>4. size_ - dict_[k].size \in 0 .. (Word - 1) /\ size_ \in Int /\ dict_[k].size \in Int
    BY <1>0, <2>1, <2>2, <2>3, CacheAssumption DEF CacheAssumption
  <2>5. DelSize(k) = size_ - dict_[k].size
    BY <1>2, <2>4, WordArithmetic DEF DelSize
  <2> QED
    BY <1>0, <2>1, <2>2, <2>3, <2>4, <2>5, CacheAssumption DEF CacheAssumption
<1> QED
  BY <1>1, <1>2

\* The sum that set() compares with the limit does not wrap.
LEMMA FitsNoWrap ==
  ASSUME NoWrap, NEW s \in 0 .. MaxMem, NEW n \in Sizes
  PROVE  Plus(s, n) = s + n
<1>1. s \in Int /\ n \in Int /\ s + n \in 0 .. (Word - 1)
  BY CacheAssumption DEF CacheAssumption, NoWrap
<1> QED
  BY <1>1, WordArithmetic

\* Counter and limit, given that the key of a set() in progress is not stored.
LEMMA BytesInductive ==
  ASSUME NoWrap, TypeOK, BytesOK, InsertIsFresh, [Next]_vars
  PROVE  BytesOK'
<1>0. /\ dict_ \in Typed
      /\ size_ \in 0 .. MaxMem
      /\ IsFiniteSet(ValueBytes(dict_))
      /\ size_ = Cardinality(ValueBytes(dict_))
  BY CacheAssumption DEF CacheAssumption, TypeOK, Typed, BytesOK, Accounting, Capacity
<1>1. ASSUME NEW k \in Keys, dict_' = DelDict(k), size_' = DelSize(k) PROVE BytesOK'
  <2>1. /\ IsFiniteSet(ValueBytes(dict_'))
        /\ size_' = Cardinality(ValueBytes(dict_'))
        /\ size_' <= MaxMem
    BY <1>1, DelCount
  <2> QED
    BY <2>1 DEF BytesOK, Accounting, Capacity, ValueBytes
<1>2. ASSUME NEW t \in Callers, NEW k \in Keys, get(t, k) PROVE BytesOK'
  <2>1. CASE dict_[k] = Absent
    <3>1. Phantom.size = 0
      BY DEF Phantom
    <3>2. dict_' = [dict_ EXCEPT ![k] = Phantom] /\ size_' = size_
      BY <1>2, <2>1 DEF get
    <3>3. /\ IsFiniteSet(ValueBytes(dict_'))
          /\ Cardinality(ValueBytes(dict_')) = Cardinality(ValueBytes(dict_)) + 0
      BY <1>0, <2>1, <3>1, <3>2, BytesAdd, PhantomType
    <3>4. size_' = Cardinality(ValueBytes(dict_')) /\ size_' <= MaxMem
      BY <1>0, <3>2, <3>3
    <3> QED
      BY <3>3, <3>4 DEF BytesOK, Accounting, Capacity, ValueBytes
  <2>2. CASE dict_[k] # Absent
    BY <1>2, <2>2 DEF get, BytesOK, Accounting, Capacity, ValueBytes
  <2> QED
    BY <2>1, <2>2
<1>3. ASSUME NEW t \in Callers, reset(t) PROVE BytesOK'
  <2>1. ValueBytes(dict_') = {}
    BY <1>3 DEF reset, ValueBytes
  <2>2. IsFiniteSet(ValueBytes(dict_')) /\ Cardinality(ValueBytes(dict_')) = 0
    BY <2>1, FS_EmptySet
  <2>3. size_' = 0 /\ 0 <= MaxMem
    BY <1>3, CacheAssumption DEF reset, CacheAssumption
  <2> QED
    BY <2>2, <2>3 DEF BytesOK, Accounting, Capacity, ValueBytes
<1>4. ASSUME NEW t \in Callers, SetInsert(t) PROVE BytesOK'
  <2> DEFINE c == call[t]
             e == [val |-> c.val, size |-> c.size]
  <2>1. c \in SetCall
    BY <1>4 DEF SetInsert, TypeOK
  <2>2. c.key \in Keys /\ c.size \in Sizes /\ c.size \in Int /\ e \in Entry /\ e.size = c.size
    BY <2>1, SetCallFacts
  <2>3. dict_[c.key] = Absent
    BY <1>4 DEF SetInsert, InsertIsFresh
  <2>4. dict_' = [dict_ EXCEPT ![c.key] = e] /\ size_' = Plus(size_, c.size)
    BY <1>4, <2>3 DEF SetInsert
  <2>5. size_' = size_ + c.size
    BY <1>0, <2>2, <2>4, FitsNoWrap
  <2>6. size_' <= MaxMem
    BY <1>0, <1>4, <2>2, <2>4, <2>5, CacheAssumption DEF SetInsert, Over, CacheAssumption
  <2>7. /\ IsFiniteSet(ValueBytes(dict_'))
        /\ Cardinality(ValueBytes(dict_')) = Cardinality(ValueBytes(dict_)) + c.size
    <3> HIDE DEF e
    <3> QED
      BY <1>0, <2>2, <2>3, <2>4, BytesAdd
  <2>8. size_' = Cardinality(ValueBytes(dict_'))
    BY <1>0, <2>5, <2>7
  <2> QED
    BY <2>6, <2>7, <2>8 DEF BytesOK, Accounting, Capacity, ValueBytes
<1>5. CASE UNCHANGED vars
  BY <1>5 DEF vars, BytesOK, Accounting, Capacity, ValueBytes
<1>6. ASSUME NEW t \in Callers, NEW k \in Keys, del(t, k) PROVE BytesOK'
  BY <1>1, <1>6 DEF del, Drop
<1>7. ASSUME NEW t \in Callers, NEW k \in Keys, NEW n \in Sizes, SetReject(t, k, n)
      PROVE  BytesOK'
  BY <1>1, <1>7 DEF SetReject, DropOld, Drop
<1>8. ASSUME NEW t \in Callers, NEW k \in Keys, NEW v \in Values, NEW n \in Sizes,
             SetBegin(t, k, v, n)
      PROVE  BytesOK'
  BY <1>1, <1>8 DEF SetBegin, DropOld, Drop
<1>9. ASSUME NEW t \in Callers, SetEvict(t) PROVE BytesOK'
  BY <1>1, <1>9, VictimType DEF SetEvict, Drop
<1> QED
  BY <1>2, <1>3, <1>4, <1>5, <1>6, <1>7, <1>8, <1>9 DEF Next

\* No step gives the cache an evictor or takes it away.
LEMMA EvictorStays ==
  ASSUME [Next]_vars
  PROVE  evictor_' = evictor_
BY DEF Next, vars, get, del, reset, SetReject, SetBegin, SetEvict, SetInsert

\* Every key that is, or comes, into the map is queued at the evictor.
LEMMA CoverInductive ==
  ASSUME TypeOK, QueueCoversDict, [Next]_vars
  PROVE  QueueCoversDict'
<1> SUFFICES ASSUME evictor_, NEW j \in Keys, dict_'[j] # Absent
             PROVE  \E i \in DOMAIN contents_' : contents_'[i] = j
  BY EvictorStays DEF QueueCoversDict, Queued
<1>0. contents_ \in Seq(Keys) /\ dict_ \in Typed
  BY DEF TypeOK, Typed
<1>1. ASSUME dict_[j] # Absent
      PROVE  \E i \in DOMAIN contents_ : contents_[i] = j
  BY <1>1 DEF QueueCoversDict, Queued
<1>2. ASSUME NEW k \in Keys, Touch(k), j = k \/ dict_[j] # Absent
      PROVE  \E i \in DOMAIN contents_' : contents_'[i] = j
  <2>1. contents_' = Append(contents_, k)
    BY <1>2 DEF Touch, touch_key
  <2> QED
    BY <1>0, <1>1, <1>2, <2>1
<1>3. ASSUME NEW k \in Keys, dict_' = DelDict(k), UNCHANGED contents_
      PROVE  \E i \in DOMAIN contents_' : contents_'[i] = j
  BY <1>0, <1>1, <1>3 DEF DelDict, Typed
<1>4. ASSUME NEW t \in Callers, NEW k \in Keys, get(t, k)
      PROVE  \E i \in DOMAIN contents_' : contents_'[i] = j
  BY <1>0, <1>2, <1>4 DEF get, Typed
<1>5. ASSUME NEW t \in Callers, reset(t)
      PROVE  \E i \in DOMAIN contents_' : contents_'[i] = j
  BY <1>5 DEF reset
<1>6. ASSUME NEW t \in Callers, SetEvict(t)
      PROVE  \E i \in DOMAIN contents_' : contents_'[i] = j
  <2>1. j # victim /\ dict_[j] # Absent
    BY <1>0, <1>6, VictimType DEF SetEvict, Drop, DelDict, Typed
  <2>2. PICK i \in DOMAIN contents_ : contents_[i] = j
    BY <1>1, <2>1
  <2>3. contents_ # <<>> /\ victim = Head(contents_) /\ contents_' = Tail(contents_)
    BY <1>0, <1>6, <2>2 DEF SetEvict, evict, victim
  <2>4. i # 1 /\ i - 1 \in DOMAIN contents_' /\ contents_'[i - 1] = j
    BY <1>0, <2>1, <2>2, <2>3
  <2> QED
    BY <2>4
<1>7. ASSUME NEW t \in Callers, SetInsert(t)
      PROVE  \E i \in DOMAIN contents_' : contents_'[i] = j
  <2>1. call[t].key \in Keys
    BY <1>7, SetCallFacts DEF SetInsert, TypeOK
  <2>2. j = call[t].key \/ dict_[j] # Absent
    BY <1>0, <1>7, <2>1 DEF SetInsert, Typed
  <2> QED
    BY <1>2, <1>7, <2>1, <2>2 DEF SetInsert
<1>8. CASE UNCHANGED vars
  BY <1>1, <1>8 DEF vars
<1>9. ASSUME NEW t \in Callers, NEW k \in Keys, NEW n \in Sizes,
             del(t, k) \/ SetReject(t, k, n) \/ \E v \in Values : SetBegin(t, k, v, n)
      PROVE  \E i \in DOMAIN contents_' : contents_'[i] = j
  BY <1>3, <1>9 DEF del, SetReject, SetBegin, DropOld, Drop
<1>10. ASSUME NEW t \in Callers, NEW k \in Keys, del(t, k)
       PROVE  \E i \in DOMAIN contents_' : contents_'[i] = j
  BY <1>3, <1>10 DEF del, Drop
<1> QED
  BY <1>4, <1>5, <1>6, <1>7, <1>8, <1>9, <1>10 DEF Next

\* The key of a set() in progress stays out of the map: only its own thread
\* uses the object.
LEMMA FreshInductive ==
  ASSUME SingleCaller, TypeOK, InsertIsFresh, [Next]_vars
  PROVE  InsertIsFresh'
<1> SUFFICES ASSUME NEW s \in Callers, call'[s] # Null
             PROVE  dict_'[call'[s].key] = Absent
  BY DEF InsertIsFresh
<1>0. dict_ \in Typed /\ call \in [Callers -> SetCall \cup {Null}]
  BY DEF TypeOK, Typed
<1>1. ASSUME NEW t \in Callers, call[t] = Null, UNCHANGED call PROVE FALSE
  BY <1>1 DEF SingleCaller
<1>2. ASSUME NEW t \in Callers, NEW k \in Keys, NEW v \in Values, NEW n \in Sizes,
             SetBegin(t, k, v, n)
      PROVE  dict_'[call'[s].key] = Absent
  <2>1. s = t
    BY DEF SingleCaller
  <2>2. call'[s].key = k
    BY <1>0, <1>2, <2>1 DEF SetBegin
  <2> QED
    BY <1>0, <1>2, <2>2 DEF SetBegin, DropOld, Drop, DelDict, Typed
<1>3. ASSUME NEW t \in Callers, SetEvict(t) PROVE dict_'[call'[s].key] = Absent
  <2>1. call' = call /\ call[s] \in SetCall /\ dict_[call[s].key] = Absent
    BY <1>0, <1>3 DEF SetEvict, InsertIsFresh
  <2>2. call[s].key \in Keys
    BY <2>1, SetCallFacts
  <2> QED
    BY <1>0, <1>3, <2>1, <2>2 DEF SetEvict, Drop, DelDict, Typed
<1>4. ASSUME NEW t \in Callers, SetInsert(t) PROVE FALSE
  <2>1. s = t
    BY DEF SingleCaller
  <2> QED
    BY <1>0, <1>4, <2>1 DEF SetInsert
<1>5. CASE UNCHANGED vars
  BY <1>5 DEF vars, InsertIsFresh
<1>6. ASSUME NEW t \in Callers, NEW k \in Keys, get(t, k) \/ del(t, k) PROVE FALSE
  BY <1>1, <1>6 DEF get, CanStart, del
<1>7. ASSUME NEW t \in Callers, reset(t) PROVE FALSE
  BY <1>1, <1>7 DEF reset
<1>8. ASSUME NEW t \in Callers, NEW k \in Keys, NEW n \in Sizes, SetReject(t, k, n)
      PROVE  FALSE
  BY <1>1, <1>8 DEF SetReject, CanStart
<1> QED
  BY <1>2, <1>3, <1>4, <1>5, <1>6, <1>7, <1>8 DEF Next

\* The loop of set() is entered only with an evictor.
EvictorInLoop ==
  \A t \in Callers : call[t] # Null /\ Over(size_, call[t].size) => evictor_

\* The test before the loop keeps a cache without evictor out of it.
LEMMA LoopInductive ==
  ASSUME SingleCaller, TypeOK, EvictorInLoop, [Next]_vars
  PROVE  EvictorInLoop'
<1> SUFFICES ASSUME ~evictor_, NEW s \in Callers, call'[s] # Null
             PROVE  ~Over(size_', call'[s].size)
  BY EvictorStays DEF EvictorInLoop, Over
<1>0. call \in [Callers -> SetCall \cup {Null}]
  BY DEF TypeOK
<1>1. ASSUME NEW t \in Callers, call[t] = Null, UNCHANGED call PROVE FALSE
  BY <1>1 DEF SingleCaller
<1>2. ASSUME NEW t \in Callers, NEW k \in Keys, NEW v \in Values, NEW n \in Sizes,
             SetBegin(t, k, v, n)
      PROVE  ~Over(size_', call'[s].size)
  <2>1. s = t
    BY DEF SingleCaller
  <2>2. call'[s].size = n
    BY <1>0, <1>2, <2>1 DEF SetBegin
  <2> QED
    BY <1>2, <2>2 DEF SetBegin, Refused
<1>3. ASSUME NEW t \in Callers, SetEvict(t) PROVE FALSE
  BY <1>3 DEF SetEvict
<1>4. ASSUME NEW t \in Callers, SetInsert(t) PROVE FALSE
  <2>1. s = t
    BY DEF SingleCaller
  <2> QED
    BY <1>0, <1>4, <2>1 DEF SetInsert
<1>5. CASE UNCHANGED vars
  BY <1>5 DEF vars, EvictorInLoop
<1>6. ASSUME NEW t \in Callers, NEW k \in Keys, get(t, k) \/ del(t, k) PROVE FALSE
  BY <1>1, <1>6 DEF get, CanStart, del
<1>7. ASSUME NEW t \in Callers, reset(t) PROVE FALSE
  BY <1>1, <1>7 DEF reset
<1>8. ASSUME NEW t \in Callers, NEW k \in Keys, NEW n \in Sizes, SetReject(t, k, n)
      PROVE  FALSE
  BY <1>1, <1>8 DEF SetReject, CanStart
<1> QED
  BY <1>2, <1>3, <1>4, <1>5, <1>6, <1>7, <1>8 DEF Next

-----------------------------------------------------------------------------
(* The invariant and what follows from it *)

CacheInv ==
  /\ TypeOK
  /\ BytesOK
  /\ QueueCoversDict
  /\ InsertIsFresh
  /\ EvictorInLoop

\* One thread and sums below 2^32: the inductive invariant holds.
THEOREM CacheInvariant ==
  ASSUME SingleCaller, NoWrap
  PROVE  Spec => []CacheInv
<1>1. Init => CacheInv
  <2> SUFFICES ASSUME Init PROVE CacheInv
    OBVIOUS
  <2>1. TypeOK
    BY CacheAssumption DEF CacheAssumption, Init, evictorInit, TypeOK
  <2>2. ValueBytes(dict_) = {}
    BY DEF Init, ValueBytes
  <2>3. BytesOK
    BY <2>2, FS_EmptySet, CacheAssumption
       DEF CacheAssumption, Init, BytesOK, Accounting, Capacity
  <2>4. QueueCoversDict /\ InsertIsFresh /\ EvictorInLoop
    BY DEF Init, QueueCoversDict, InsertIsFresh, EvictorInLoop
  <2> QED
    BY <2>1, <2>3, <2>4 DEF CacheInv
<1>2. CacheInv /\ [Next]_vars => CacheInv'
  BY TypeInductive, BytesInductive, CoverInductive, FreshInductive, LoopInductive
     DEF CacheInv
<1> QED
  BY <1>1, <1>2, PTL DEF Spec

\* space_used() is the number of bytes stored, that number never exceeds maxmem_,
\* eviction can reach every entry, and insert() in set() does store its value,
\* through every sequence of get, set, del and reset of one thread.
THEOREM SafeCache ==
  ASSUME SingleCaller, NoWrap
  PROVE  Spec => [](Accounting /\ Capacity /\ QueueCoversDict /\ InsertIsFresh)
<1>1. CacheInv => Accounting /\ Capacity /\ QueueCoversDict /\ InsertIsFresh
  BY DEF CacheInv, BytesOK
<1> QED
  BY <1>1, CacheInvariant, PTL

\* The stored values never exceed maxmem_, also between the turns of set().
THEOREM LimitHolds ==
  ASSUME SingleCaller, NoWrap
  PROVE  Spec => []Capacity
<1>1. CacheInv => Capacity
  BY DEF CacheInv, BytesOK
<1> QED
  BY <1>1, CacheInvariant, PTL

\* Eviction can reach every stored entry, whatever was deleted, reset or queued
\* again in between, by however many threads.
THEOREM EvictionReachesAll == Spec => []QueueCoversDict
<1>1. Init => QueueCoversDict
  BY DEF Init, QueueCoversDict
<1>2. TypeOK /\ QueueCoversDict /\ [Next]_vars => QueueCoversDict'
  BY CoverInductive
<1> QED
  BY <1>1, <1>2, TypeCorrect, PTL DEF Spec

\* The insert() at the end of set() stores the new value: it never meets an entry
\* of the same key.
THEOREM InsertsStore ==
  ASSUME SingleCaller, NoWrap
  PROVE  Spec => []InsertIsFresh
<1>1. CacheInv => InsertIsFresh
  BY DEF CacheInv
<1> QED
  BY <1>1, CacheInvariant, PTL

\* With an empty queue there is nothing in the map.
LEMMA EmptyQueue ==
  ASSUME QueueCoversDict, evictor_, contents_ = <<>>
  PROVE  /\ \A k \in Keys : dict_[k] = Absent
         /\ Cardinality(ValueBytes(dict_)) = 0
<1>1. Queued = {}
  BY DEF Queued
<1>2. \A k \in Keys : dict_[k] = Absent
  BY <1>1 DEF QueueCoversDict
<1>3. ValueBytes(dict_) = {}
  BY <1>2 DEF ValueBytes
<1> QED
  BY <1>2, <1>3, FS_EmptySet

\* However many threads use the object, the loop of set() goes on with an empty
\* queue only for a value larger than maxmem or with a counter that is wrong.
THEOREM SpinsHaveCause == Spec => []SpinsForCause
<1>1. ASSUME TypeOK, QueueCoversDict PROVE SpinsForCause
  <2> SUFFICES ASSUME NEW t \in Callers, Spins(t), Accounting
               PROVE  call[t].size > MaxMem
    BY DEF SpinsForCause
  <2>1. call[t] \in SetCall
    BY <1>1 DEF Spins, TypeOK
  <2>2. call[t].size \in Sizes /\ call[t].size \in Int
    BY <2>1, SetCallFacts
  <2>3. size_ = 0
    BY <1>1, EmptyQueue DEF Spins, Accounting
  <2>4. Plus(0, call[t].size) = call[t].size
    <3>1. 0 + call[t].size \in 0 .. (Word - 1) /\ 0 \in Int
      BY <2>2, CacheAssumption DEF CacheAssumption
    <3>2. Plus(0, call[t].size) = 0 + call[t].size
      BY <2>2, <3>1, WordArithmetic
    <3> QED
      BY <2>2, <3>2
  <2> QED
    BY <2>3, <2>4 DEF Spins, Over
<1>2. TypeOK /\ QueueCoversDict => SpinsForCause
  BY <1>1
<1> QED
  BY <1>2, TypeCorrect, EvictionReachesAll, PTL

\* An empty queue means an empty map, hence a counter of 0, hence room for every
\* value that is not larger than maxmem by itself.
LEMMA QueueSuffices ==
  ASSUME NoWrap, CacheInv
  PROVE  LoopCanProceed
<1> SUFFICES ASSUME NEW t \in Callers, call[t] # Null,
                    Over(size_, call[t].size), contents_ = <<>>
             PROVE  call[t].size > MaxMem
  BY DEF CacheInv, EvictorInLoop, LoopCanProceed
<1>1. call[t].size \in Sizes /\ call[t].size \in Int
  BY SetCallFacts DEF CacheInv, TypeOK
<1>2. size_ = 0
  BY EmptyQueue DEF CacheInv, BytesOK, Accounting, EvictorInLoop
<1>3. 0 \in 0 .. MaxMem
  BY CacheAssumption DEF CacheAssumption
<1>4. Plus(0, call[t].size) = 0 + call[t].size
  BY <1>1, <1>3, FitsNoWrap
<1> QED
  BY <1>1, <1>2, <1>4, CacheAssumption DEF Over, CacheAssumption

\* The eviction loop of set() never runs without an evictor, and with an empty
\* queue only for a value that is larger than maxmem.
THEOREM LoopNeverStarves ==
  ASSUME SingleCaller, NoWrap
  PROVE  Spec => []LoopCanProceed
<1>1. CacheInv => LoopCanProceed
  BY QueueSuffices
<1> QED
  BY <1>1, CacheInvariant, PTL

\* A step of a thread inside set() leaves it, or takes a key out of the queue, or
\* changes nothing: a turn on an empty queue deletes the key "", which is not in
\* the map then.  (That the thread does take steps is fairness.)
THEOREM TurnsUseUpKeys ==
  ASSUME SingleCaller, NoWrap
  PROVE  Spec => LoopShrinksQueue
<1> DEFINE Shrinks == \A t \in Callers :
                        call[t] # Null => call'[t] = Null \/ Len(contents_') < Len(contents_)
<1>1. ASSUME CacheInv, Next, ~UNCHANGED vars PROVE Shrinks
  <2> SUFFICES ASSUME NEW t \in Callers, call[t] # Null
               PROVE  call'[t] = Null \/ Len(contents_') < Len(contents_)
    OBVIOUS
  <2>1. \A u \in Callers : u = t
    BY DEF SingleCaller
  <2>2. SetEvict(t) \/ SetInsert(t)
    BY <1>1, <2>1 DEF Next, get, del, reset, SetReject, SetBegin, CanStart
  <2>3. CASE SetInsert(t)
    <3>1. call' = [call EXCEPT ![t] = Null]
      BY <2>3 DEF SetInsert
    <3> QED
      BY <1>1, <3>1 DEF CacheInv, TypeOK
  <2>4. CASE SetEvict(t)
    <3>1. Drop(victim) /\ evict /\ UNCHANGED <<call, evictor_>> /\ evictor_
      BY <2>4 DEF SetEvict
    <3>2. CASE contents_ # <<>>
      <4>1. contents_ \in Seq(Keys) /\ contents_' = Tail(contents_)
        BY <1>1, <3>1, <3>2 DEF evict, CacheInv, TypeOK
      <4> QED
        BY <3>2, <4>1
    <3>3. CASE contents_ = <<>>
      <4>1. dict_[victim] = Absent
        BY <1>1, <3>1, <3>3, EmptyQueue, VictimType DEF CacheInv
      <4>2. UNCHANGED <<dict_, size_>>
        BY <1>1, <3>1, <4>1, VictimType DEF Drop, DelDict, DelSize, CacheInv, TypeOK
      <4>3. UNCHANGED contents_
        BY <3>1, <3>3 DEF evict
      <4> QED
        BY <1>1, <3>1, <4>2, <4>3 DEF vars
    <3> QED
      BY <3>2, <3>3
  <2> QED
    BY <2>2, <2>3, <2>4
<1>2. CacheInv /\ [Next]_vars => [Shrinks]_vars
  BY <1>1 DEF vars
<1>3. Spec => [][Shrinks]_vars
  BY <1>2, CacheInvariant, PTL DEF Spec
<1> QED
  BY <1>3 DEF LoopShrinksQueue

=============================================================================
