------------------------- MODULE ServerValueProofs -------------------------
(***************************************************************************)
(* Proofs about the values a CacheServer with one thread gives out: a GET  *)
(* never finds a value that was overwritten, deleted or reset, an answered *)
(* PUT has stored its value, and no value is lost without need.            *)
(* All follow from how the library's steps change what ValueOf returns,   *)
(* and from call, job and req_ describing the same PUT.                    *)
(***************************************************************************)
EXTENDS CacheServerProofs, CacheStoreProofs

\* What each operation of the library does to the values; phantom entries make
\* no difference.
LEMMA GetKeepsValues ==
  ASSUME TypeOK, NEW t, NEW k \in Keys, get(t, k)
  PROVE  \A j \in Keys : ValueOf(dict_', j) = ValueOf(dict_, j)
BY CacheAssumption DEF CacheAssumption, get, ValueOf, Phantom, Entry, TypeOK

\* del and eviction remove the value of their key and of no other.
LEMMA DropRemovesValue ==
  ASSUME TypeOK, NEW k \in Keys, Drop(k)
  PROVE  /\ ValueOf(dict_', k) = Null
         /\ \A j \in Keys \ {k} : ValueOf(dict_', j) = ValueOf(dict_, j)
BY DEF Drop, DelDict, ValueOf, TypeOK

\* reset removes the value of every key.
LEMMA ResetRemovesValues ==
  ASSUME NEW t, reset(t)
  PROVE  \A j \in Keys : ValueOf(dict_', j) = Null
BY DEF reset, ValueOf

\* The end of set stores the value of the call, since the insert is fresh.
LEMMA InsertStoresValue ==
  ASSUME TypeOK, InsertIsFresh, NEW t \in Callers, SetInsert(t)
  PROVE  /\ call[t].key \in Keys /\ call[t].val \in Values
         /\ ValueOf(dict_', call[t].key) = call[t].val
         /\ \A j \in Keys \ {call[t].key} : ValueOf(dict_', j) = ValueOf(dict_, j)
<1>1. call[t] # Null /\ call[t] \in SetCall
  BY DEF SetInsert, TypeOK
<1>2. /\ call[t].key \in Keys /\ call[t].val \in Values
      /\ [val |-> call[t].val, size |-> call[t].size] \in Entry
  BY <1>1, SetCallFacts DEF SetCall
<1>3. dict_' = [dict_ EXCEPT ![call[t].key] =
                  [val |-> call[t].val, size |-> call[t].size]]
  BY <1>1, <1>2 DEF SetInsert, InsertIsFresh
<1>4. dict_'[call[t].key] # Absent /\ dict_'[call[t].key].val = call[t].val
  BY <1>2, <1>3, CacheAssumption DEF CacheAssumption, TypeOK
<1>5. \A j \in Keys \ {call[t].key} : dict_'[j] = dict_[j]
  BY <1>2, <1>3 DEF TypeOK
<1> QED
  BY <1>2, <1>4, <1>5 DEF ValueOf

-----------------------------------------------------------------------------
(* The invariant *)

\* The call of set() a thread is inside of is that of the PUT it serves.
PutInv ==
  \A t \in Callers :
    /\ call[t] # Null <=> job[t] # Null /\ job[t].step = "loop"
    /\ call[t] # Null =>
         /\ call[t].key = req_[job[t].conn].key
         /\ call[t].val = req_[job[t].conn].val
         /\ call[t].size = SizeOf[req_[job[t].conn].val]

ValueInv ==
  /\ acked \in [Keys -> Values \cup {Null}]
  /\ PutInv
  /\ NoStaleValue

\* What is known in a state, besides ValueInv.
Known == SingleCaller /\ TypeOK /\ InsertIsFresh /\ JobInv

\* A step that takes no PUT further, run by a thread that is free: no PUT is under
\* way before and after it.
LEMMA IdleStep ==
  ASSUME Known, ValueInv, NEW t \in Callers, Idle(t),
         job' = job, call' = call,
         acked' \in [Keys -> Values \cup {Null}],
         \A k \in Keys : ValueOf(dict_', k) \in {Null, acked'[k]}
  PROVE  ValueInv'
<1>1. \A u \in Callers : job[u] = Null /\ call[u] = Null
  BY DEF Known, SingleCaller, ValueInv, PutInv, Idle
<1> QED
  BY <1>1 DEF ValueInv, PutInv, NoStaleValue

\* A step that touches neither the values nor a PUT.
LEMMA ApartStep ==
  ASSUME ValueInv, UNCHANGED <<dict_, call, job, acked, req_>>
  PROVE  ValueInv'
BY DEF ValueInv, PutInv, NoStaleValue, ValueOf

\* The request a session reads names a key and, if it is a PUT, a value.
LEMMA RequestFacts ==
  ASSUME JobInv, NEW t, NEW c \in Conns, NEW m, OnRead(t, c, m)
  PROVE  /\ Idle(t)
         /\ m \in {"get", "delete", "put"} => Head(inbox[c]).key \in Keys
<1>1. inbox[c] # <<>> /\ Head(inbox[c]) \in Requests /\ Head(inbox[c]).method = m
  BY ReadFacts DEF OnRead
<1> QED
  BY <1>1 DEF OnRead, Requests, PutRequests

\* The handlers that answer at once, and the steps of sessions.
LEMMA SimpleStepsKeepValues ==
  ASSUME Known, ValueInv, NEW t \in Callers, NEW c \in Conns,
         \/ on_accept(t, c) \/ on_read_eof(t, c) \/ on_read_error(t, c)
         \/ on_write(t, c) \/ on_write_error(t, c)
         \/ handle_get(t, c) \/ handle_delete(t, c) \/ handle_head(t, c)
         \/ handle_reset(t, c) \/ handle_post(t, c) \/ handle_other(t, c)
  PROVE  ValueInv'
<1>0. acked \in [Keys -> Values \cup {Null}] /\ NoStaleValue
  BY DEF ValueInv
<1>1. CASE \/ on_accept(t, c) \/ on_read_eof(t, c) \/ on_read_error(t, c)
           \/ on_write(t, c) \/ on_write_error(t, c)
           \/ handle_head(t, c) \/ handle_post(t, c) \/ handle_other(t, c)
  <2>1. Idle(t) /\ UNCHANGED <<vars, job, acked>>
    BY <1>1 DEF on_accept, on_read_eof, on_read_error, on_write, on_write_error,
                handle_head, handle_post, handle_other, OnRead
  <2> QED
    BY <1>0, <2>1, IdleStep DEF vars, NoStaleValue
<1>2. CASE handle_get(t, c)
  <2>1. OnRead(t, c, "get") /\ get(t, Head(inbox[c]).key) /\ job' = job /\ acked' = acked
    BY <1>2 DEF handle_get
  <2>2. Idle(t) /\ Head(inbox[c]).key \in Keys
    BY <2>1, RequestFacts DEF Known
  <2>3. \A k \in Keys : ValueOf(dict_', k) = ValueOf(dict_, k)
    BY <2>1, <2>2, GetKeepsValues DEF Known
  <2>4. call' = call
    BY <2>1 DEF get
  <2> QED
    BY <1>0, <2>1, <2>2, <2>3, <2>4, IdleStep DEF NoStaleValue
<1>3. CASE handle_delete(t, c)
  <2> DEFINE k == Head(inbox[c]).key
  <2>1. /\ OnRead(t, c, "delete") /\ del(t, k) /\ job' = job
        /\ acked' = [acked EXCEPT ![k] = Null]
    BY <1>3 DEF handle_delete
  <2>2. Idle(t) /\ k \in Keys
    BY <2>1, RequestFacts DEF Known
  <2>3. Drop(k) /\ call' = call
    BY <2>1 DEF del
  <2> HIDE DEF k
  <2>4. /\ ValueOf(dict_', k) = Null
        /\ \A j \in Keys \ {k} : ValueOf(dict_', j) = ValueOf(dict_, j)
    BY <2>2, <2>3, DropRemovesValue DEF Known
  <2>5. acked' \in [Keys -> Values \cup {Null}]
    BY <1>0, <2>1
  <2>6. \A j \in Keys : ValueOf(dict_', j) \in {Null, acked'[j]}
    BY <1>0, <2>1, <2>2, <2>4 DEF NoStaleValue
  <2> QED
    BY <2>1, <2>2, <2>3, <2>5, <2>6, IdleStep
<1>4. CASE handle_reset(t, c)
  <2>1. /\ OnRead(t, c, "reset") /\ reset(t) /\ job' = job
        /\ acked' = [k \in Keys |-> Null]
    BY <1>4 DEF handle_reset
  <2>2. Idle(t) /\ call' = call
    BY <2>1 DEF OnRead, reset
  <2>3. \A k \in Keys : ValueOf(dict_', k) = Null
    BY <2>1, ResetRemovesValues
  <2> QED
    BY <2>1, <2>2, <2>3, IdleStep
<1> QED
  BY <1>1, <1>2, <1>3, <1>4

\* The first part of a PUT.
LEMMA LookupKeepsValues ==
  ASSUME Known, ValueInv, NEW t \in Callers, NEW c \in Conns, put_lookup(t, c)
  PROVE  ValueInv'
<1> DEFINE r == Head(inbox[c])
           j == [conn |-> c, created |-> IsNew(r.key), step |-> "set"]
<1>1. /\ OnRead(t, c, "put") /\ get(t, r.key)
      /\ job' = [job EXCEPT ![t] = j]
      /\ req_' = [req_ EXCEPT ![c] = r] /\ acked' = acked
  BY DEF put_lookup, TakeRequest
<1>2. Idle(t) /\ r.key \in Keys
  BY <1>1, RequestFacts DEF Known
<1>3. j.conn = c /\ j.created = (ValueOf(dict_, r.key) = Null) /\ j.step = "set"
  BY DEF IsNew
<1> HIDE DEF r, j
<1>4. \A k \in Keys : ValueOf(dict_', k) = ValueOf(dict_, k)
  BY <1>1, <1>2, GetKeepsValues DEF Known
<1>5. call' = call
  BY <1>1 DEF get
<1>6. \A u \in Callers : u = t /\ call[u] = Null /\ job'[u] = j
  BY <1>1, <1>2 DEF Known, SingleCaller, JobInv, ValueInv, PutInv, Idle
<1>7. req_'[c] = r
  BY <1>1 DEF Known, JobInv
<1>8. PutInv'
  BY <1>3, <1>5, <1>6 DEF PutInv
<1>9. NoStaleValue' /\ acked' \in [Keys -> Values \cup {Null}]
  BY <1>1, <1>4 DEF ValueInv, NoStaleValue
<1> QED
  BY <1>8, <1>9 DEF ValueInv

\* A step inside a PUT, with the call of set() it leaves its thread in.
LEMMA PutStepsKeepValues ==
  ASSUME Known, ValueInv, NEW t \in Callers, ContinuePut(t)
  PROVE  ValueInv'
<1>0. /\ \A u \in Callers : u = t
      /\ acked \in [Keys -> Values \cup {Null}] /\ NoStaleValue /\ PutInv
      /\ job \in [Callers -> Jobs \cup {Null}]
      /\ call \in [Callers -> SetCall \cup {Null}]
  BY DEF Known, SingleCaller, JobInv, TypeOK, ValueInv
<1> DEFINE r == req_[job[t].conn]
<1>1. job[t] # Null
  BY DEF ContinuePut, put_set, put_evict, put_reply
<1>2. /\ job[t] \in Jobs /\ job[t].conn \in Conns
      /\ r \in PutRequests /\ r.key \in Keys /\ r.val \in Values
  <2>1. job[t] \in Jobs /\ r \in PutRequests
    BY <1>1 DEF Known, JobInv
  <2> QED
    BY <2>1, JobFacts DEF PutRequests
<1>3. CASE put_set(t)
  <2>1. /\ DropOld(r.key) /\ UNCHANGED <<sessionVars, acked>>
        /\ call' = [call EXCEPT ![t] = [key |-> r.key, val |-> r.val, size |-> SizeOf[r.val]]]
        /\ job' = [job EXCEPT ![t].step = "loop"]
    BY <1>3 DEF put_set, SetBegin
  <2>2. [key |-> r.key, val |-> r.val, size |-> SizeOf[r.val]] # Null
    <3>1. [key |-> r.key, val |-> r.val, size |-> SizeOf[r.val]] \in SetCall
      BY <1>2, ServerAssumption DEF ServerAssumption, SetCall
    <3> QED
      BY <3>1, CacheAssumption DEF CacheAssumption
  <2>3. /\ ValueOf(dict_', r.key) = Null
        /\ \A k \in Keys \ {r.key} : ValueOf(dict_', k) = ValueOf(dict_, k)
    BY <1>2, <2>1, DropRemovesValue DEF Known, DropOld
  <2>4. job'[t] # Null /\ job'[t].step = "loop" /\ job'[t].conn = job[t].conn
    <3>1. job'[t] = [job[t] EXCEPT !.step = "loop"]
      BY <1>0, <2>1
    <3>2. job'[t] \in Jobs /\ job'[t].step = "loop" /\ job'[t].conn = job[t].conn
      BY <1>2, <3>1 DEF Jobs
    <3> QED
      BY <3>2, ServerAssumption DEF ServerAssumption
  <2>5. /\ call'[t] # Null
        /\ call'[t].key = r.key /\ call'[t].val = r.val
        /\ call'[t].size = SizeOf[r.val] /\ req_' = req_
    BY <1>0, <2>1, <2>2 DEF sessionVars
  <2>6. PutInv'
    BY <1>0, <2>4, <2>5 DEF PutInv
  <2>7. NoStaleValue' /\ acked' \in [Keys -> Values \cup {Null}]
    BY <1>0, <2>1, <2>3 DEF NoStaleValue
  <2> QED
    BY <2>6, <2>7 DEF ValueInv
<1>4. CASE put_evict(t)
  <2>1. /\ call[t] # Null /\ Drop(victim)
        /\ UNCHANGED <<call, sessionVars, job, acked>>
    BY <1>4 DEF put_evict, SetEvict
  <2>2. \A k \in Keys : ValueOf(dict_', k) \in {Null, ValueOf(dict_, k)}
    BY <2>1, VictimType, DropRemovesValue DEF Known
  <2>3. job[t].step = "loop"
    BY <1>0, <2>1 DEF PutInv
  <2>4. PutInv'
    BY <1>0, <2>1, <2>3 DEF PutInv, sessionVars
  <2>5. NoStaleValue' /\ acked' \in [Keys -> Values \cup {Null}]
    BY <1>0, <2>1, <2>2 DEF NoStaleValue
  <2> QED
    BY <2>4, <2>5 DEF ValueInv
<1>5. CASE put_reply(t)
  <2>1. /\ SetInsert(t)
        /\ acked' = [acked EXCEPT ![r.key] = r.val]
        /\ job' = [job EXCEPT ![t] = Null]
    BY <1>5 DEF put_reply
  <2>2. call[t] # Null /\ call' = [call EXCEPT ![t] = Null]
    BY <2>1 DEF SetInsert
  <2>3. call[t].key = r.key /\ call[t].val = r.val
    BY <1>0, <2>2 DEF PutInv
  <2>4. /\ ValueOf(dict_', r.key) = r.val
        /\ \A k \in Keys \ {r.key} : ValueOf(dict_', k) = ValueOf(dict_, k)
    BY <2>1, <2>3, InsertStoresValue DEF Known
  <2>5. \A u \in Callers : call'[u] = Null /\ job'[u] = Null
    BY <1>0, <2>1, <2>2
  <2>6. PutInv'
    BY <2>5 DEF PutInv
  <2>7. acked' \in [Keys -> Values \cup {Null}]
    BY <1>0, <1>2, <2>1
  <2>8. NoStaleValue'
    BY <1>0, <1>2, <2>1, <2>4 DEF NoStaleValue
  <2> QED
    BY <2>6, <2>7, <2>8 DEF ValueInv
<1> QED
  BY <1>3, <1>4, <1>5 DEF ContinuePut

\* ValueInv is inductive.
LEMMA ValueInductive ==
  ASSUME Known, ValueInv, [ServerNext]_serverVars
  PROVE  ValueInv'
<1>1. ASSUME NEW c \in Conns, NEW r \in Requests, PeerSend(c, r) PROVE ValueInv'
  BY <1>1 DEF PeerSend, vars, ValueInv, PutInv, NoStaleValue
<1>2. CASE UNCHANGED serverVars
  BY <1>2 DEF serverVars, vars, sessionVars, ValueInv, PutInv, NoStaleValue
<1> QED
  BY <1>1, <1>2, SimpleStepsKeepValues, LookupKeepsValues, PutStepsKeepValues
     DEF ServerNext, handle_request

\* In every reachable state of a server with one thread, what a GET finds is
\* the last value acknowledged or nothing, and a set() in progress is that of
\* the PUT in progress (ValueInv).
THEOREM ValueInvariant ==
  ASSUME SingleCaller, NoWrap
  PROVE  ServerSpec => []ValueInv
<1>1. ServerInit => ValueInv
  BY DEF ServerInit, Init, ValueInv, PutInv, NoStaleValue, ValueOf
<1>2. Accounting /\ Capacity /\ QueueCoversDict /\ InsertIsFresh => InsertIsFresh
  OBVIOUS
<1>3. ServerSpec => []InsertIsFresh
  BY <1>2, SafeCache, ServerUsesLibrary, PTL
<1>4. ServerSpec => []TypeOK
  BY TypeCorrect, ServerUsesLibrary, PTL
<1>5. TypeOK /\ InsertIsFresh /\ JobInv => Known
  BY DEF Known
<1>6. Known /\ ValueInv /\ [ServerNext]_serverVars => ValueInv'
  BY ValueInductive
<1> QED
  BY <1>1, <1>3, <1>4, <1>5, <1>6, JobInvariant, PTL DEF ServerSpec

\* No GET finds a value that was overwritten, deleted or reset.
THEOREM NothingStale ==
  ASSUME SingleCaller, NoWrap
  PROVE  ServerSpec => []NoStaleValue
<1>1. ValueInv => NoStaleValue
  BY DEF ValueInv
<1> QED
  BY <1>1, ValueInvariant, PTL

-----------------------------------------------------------------------------
(* What makes a stored value disappear *)

\* The value that k loses in a step of the server, although no DELETE and no
\* reset took it away.
Vanished(k) ==
  /\ ValueOf(dict_, k) # Null /\ ValueOf(dict_', k) = Null
  /\ acked'[k] # Null

\* The PUT of thread t replaces k, or its value does not fit beside what is stored.
RoomNeeded(t, k) ==
  /\ job[t] # Null
  /\ \/ req_[job[t].conn].key = k
     \/ Cardinality(ValueBytes(dict_)) + SizeOf[req_[job[t].conn].val] > MaxMem

\* Outside a PUT only DELETE and reset take values away.
LEMMA OthersLoseNothing ==
  ASSUME Known, ValueInv, NEW t \in Callers, NEW c \in Conns,
         \/ on_accept(t, c) \/ on_read_eof(t, c) \/ on_read_error(t, c)
         \/ on_write(t, c) \/ on_write_error(t, c) \/ handle_request(t, c),
         NEW k \in Keys
  PROVE  ~Vanished(k)
<1>0. acked \in [Keys -> Values \cup {Null}]
  BY DEF ValueInv
<1>1. CASE \/ on_accept(t, c) \/ on_read_eof(t, c) \/ on_read_error(t, c)
           \/ on_write(t, c) \/ on_write_error(t, c)
           \/ handle_head(t, c) \/ handle_post(t, c) \/ handle_other(t, c)
  <2>1. dict_' = dict_
    BY <1>1 DEF on_accept, on_read_eof, on_read_error, on_write, on_write_error,
                handle_head, handle_post, handle_other, vars
  <2> QED
    BY <2>1 DEF Vanished
<1>2. CASE handle_get(t, c) \/ put_lookup(t, c)
  <2>1. \E m \in {"get", "put"} : OnRead(t, c, m) /\ get(t, Head(inbox[c]).key)
    BY <1>2 DEF handle_get, put_lookup
  <2>2. Head(inbox[c]).key \in Keys
    BY <2>1, RequestFacts DEF Known
  <2> QED
    BY <2>1, <2>2, GetKeepsValues DEF Known, Vanished
<1>3. CASE handle_delete(t, c)
  <2> DEFINE d == Head(inbox[c]).key
  <2>1. OnRead(t, c, "delete") /\ Drop(d) /\ acked' = [acked EXCEPT ![d] = Null]
    BY <1>3 DEF handle_delete, del
  <2>2. d \in Keys
    BY <2>1, RequestFacts DEF Known
  <2> HIDE DEF d
  <2> QED
    BY <1>0, <2>1, <2>2, DropRemovesValue DEF Known, Vanished
<1>4. CASE handle_reset(t, c)
  BY <1>4 DEF handle_reset, Vanished
<1> QED
  BY <1>1, <1>2, <1>3, <1>4 DEF handle_request

\* Inside a PUT a value goes because its key is set again, or to make room.
LEMMA PutTakesWhatItNeeds ==
  ASSUME Known, ValueInv, NoWrap, Accounting, Capacity,
         NEW t \in Callers, ContinuePut(t), NEW k \in Keys, Vanished(k)
  PROVE  RoomNeeded(t, k)
<1> DEFINE r == req_[job[t].conn]
<1>1. job[t] # Null
  BY DEF ContinuePut, put_set, put_evict, put_reply
<1>2. r.key \in Keys /\ r.val \in Values
  <2>1. job[t] \in Jobs /\ r \in PutRequests
    BY <1>1 DEF Known, JobInv
  <2> QED
    BY <2>1 DEF PutRequests
<1>3. CASE put_set(t)
  <2>1. Drop(r.key)
    BY <1>3 DEF put_set, SetBegin, DropOld
  <2>2. r.key = k
    BY <1>2, <2>1, DropRemovesValue DEF Known, Vanished
  <2> QED
    BY <1>1, <2>2 DEF RoomNeeded
<1>4. CASE put_evict(t)
  <2>1. call[t] # Null /\ Over(size_, call[t].size)
    BY <1>4 DEF put_evict, SetEvict
  <2>2. call[t].size = SizeOf[r.val] /\ SizeOf[r.val] \in Sizes
    BY <1>2, <2>1, ServerAssumption DEF ServerAssumption, ValueInv, PutInv
  <2>3. size_ \in 0 .. MaxMem
    BY CacheAssumption DEF CacheAssumption, Known, TypeOK, Accounting, Capacity
  <2>4. size_ + SizeOf[r.val] > MaxMem
    BY <2>1, <2>2, <2>3, FitsNoWrap DEF Over
  <2> QED
    BY <1>1, <2>4 DEF RoomNeeded, Accounting
<1>5. CASE put_reply(t)
  <2>1. SetInsert(t) /\ call[t] # Null
    BY <1>5 DEF put_reply, SetInsert
  <2>2. call[t].key \in Keys /\ ValueOf(dict_', call[t].key) # Null
    BY <2>1, InsertStoresValue, CacheAssumption DEF CacheAssumption, Known
  <2> QED
    BY <2>1, <2>2, InsertStoresValue DEF Known, Vanished
<1> QED
  BY <1>3, <1>4, <1>5 DEF ContinuePut

\* A value that vanishes in a step had to.
Kept == \A k \in Keys : Vanished(k) => \E t \in Callers : RoomNeeded(t, k)

\* All that is known of a server with one thread.
Facts == Known /\ ValueInv /\ Accounting /\ Capacity

\* A step of the server takes no value without need.
LEMMA ServerKeeps ==
  ASSUME Facts, NoWrap, ServerNext
  PROVE  Kept
<1> SUFFICES ASSUME NEW k \in Keys, Vanished(k) PROVE \E t \in Callers : RoomNeeded(t, k)
  BY DEF Kept
<1>1. ~UNCHANGED dict_
  BY DEF Vanished
<1>2. ASSUME NEW c \in Conns, NEW r \in Requests PROVE ~PeerSend(c, r)
  BY <1>1 DEF PeerSend, vars
<1>3. \E t \in Callers : ContinuePut(t)
  BY <1>2, OthersLoseNothing DEF ServerNext, Facts
<1> QED
  BY <1>3, PutTakesWhatItNeeds DEF Facts

\* A step that leaves the values where they are takes none.
LEMMA ApartKeeps ==
  ASSUME UNCHANGED dict_
  PROVE  Kept
BY DEF Kept, Vanished, ValueOf

\* What the library and the sessions say of every user of the cache.
LEMMA LibraryFacts ==
  ASSUME SingleCaller, NoWrap
  PROVE  Spec => [](TypeOK /\ InsertIsFresh /\ Accounting /\ Capacity)
<1>1. Accounting /\ Capacity /\ QueueCoversDict /\ InsertIsFresh
        => Accounting /\ Capacity /\ InsertIsFresh
  OBVIOUS
<1> QED
  BY <1>1, SafeCache, TypeCorrect, PTL

\* A stored value goes away only by a DELETE, a reset, a PUT of its key, or an
\* eviction by a PUT whose value does not fit beside what is stored.
THEOREM ValuesAreKept ==
  ASSUME SingleCaller, NoWrap
  PROVE  ServerSpec => ValueKeptUntilRoomNeeded
<1>1. Facts /\ [ServerNext]_serverVars => [Kept]_serverVars
  BY ServerKeeps
<1>2. ServerSpec => [](TypeOK /\ InsertIsFresh /\ Accounting /\ Capacity)
  BY LibraryFacts, ServerUsesLibrary, PTL
<1>3. TypeOK /\ InsertIsFresh /\ Accounting /\ Capacity /\ JobInv /\ ValueInv => Facts
  BY DEF Known, Facts
<1>4. ServerSpec => []Facts
  BY <1>2, <1>3, ValueInvariant, JobInvariant, PTL
<1>5. ServerSpec => [][Kept]_serverVars
  BY <1>1, <1>4, PTL DEF ServerSpec
<1> QED
  BY <1>5 DEF ValueKeptUntilRoomNeeded, Kept, Vanished, RoomNeeded

-----------------------------------------------------------------------------
(* What an answered PUT leaves behind *)

\* The value of a PUT that ends in this step is in the cache after it.
Stores(t) ==
  job[t] # Null /\ job'[t] = Null =>
    ValueOf(dict_', req_[job[t].conn].key) = req_[job[t].conn].val

\* Only the last part of a PUT ends it, and set() stored its value by then.
LEMMA ServerStores ==
  ASSUME Known, ValueInv, ServerNext, NEW t \in Callers
  PROVE  Stores(t)
<1> SUFFICES ASSUME job[t] # Null, job'[t] = Null
             PROVE  ValueOf(dict_', req_[job[t].conn].key) = req_[job[t].conn].val
  BY DEF Stores
<1>0. \A u \in Callers : u = t
  BY DEF Known, SingleCaller
<1>1. ContinuePut(t)
  <2>1. ASSUME NEW c \in Conns
        PROVE  /\ ~on_accept(t, c) /\ ~on_read_eof(t, c) /\ ~on_read_error(t, c)
               /\ ~on_write(t, c) /\ ~on_write_error(t, c)
    BY DEF on_accept, on_read_eof, on_read_error, on_write, on_write_error, Idle
  <2>2. ASSUME NEW c \in Conns PROVE ~handle_request(t, c)
    BY DEF handle_request, handle_get, handle_delete, handle_head, handle_reset,
           handle_post, handle_other, put_lookup, OnRead, Idle
  <2>3. ASSUME NEW c \in Conns, NEW r \in Requests PROVE ~PeerSend(c, r)
    BY DEF PeerSend
  <2> QED
    BY <1>0, <2>1, <2>2, <2>3 DEF ServerNext
<1>2. job[t] \in Jobs /\ job \in [Callers -> Jobs \cup {Null}]
  BY DEF Known, JobInv
<1>3. ~put_set(t)
  <2> SUFFICES ASSUME put_set(t) PROVE FALSE
    OBVIOUS
  <2>1. job'[t] = [job[t] EXCEPT !.step = "loop"]
    BY <1>2 DEF put_set
  <2>2. job'[t] \in Jobs
    BY <1>2, <2>1 DEF Jobs
  <2> QED
    BY <2>2, ServerAssumption DEF ServerAssumption
<1>4. SetInsert(t) /\ call[t] # Null
  BY <1>1, <1>3 DEF ContinuePut, put_evict, put_reply, SetInsert
<1>5. call[t].key = req_[job[t].conn].key /\ call[t].val = req_[job[t].conn].val
  BY <1>4 DEF ValueInv, PutInv
<1> QED
  BY <1>4, <1>5, InsertStoresValue DEF Known

\* With one thread every answered PUT has stored its value, for any number of
\* connections and whatever set() had to evict.
THEOREM PutsStore ==
  ASSUME SingleCaller, NoWrap
  PROVE  ServerSpec => PutStoresItsValue
<1> DEFINE AllStore == \A t \in Callers : Stores(t)
<1>1. Known /\ ValueInv /\ [ServerNext]_serverVars => [AllStore]_serverVars
  BY ServerStores
<1>2. ServerSpec => [](TypeOK /\ InsertIsFresh /\ Accounting /\ Capacity)
  BY LibraryFacts, ServerUsesLibrary, PTL
<1>3. TypeOK /\ InsertIsFresh /\ Accounting /\ Capacity /\ JobInv => Known
  BY DEF Known
<1>4. ServerSpec => []Known
  BY <1>2, <1>3, JobInvariant, PTL
<1>5. ServerSpec => [][AllStore]_serverVars
  BY <1>1, <1>4, ValueInvariant, PTL DEF ServerSpec
<1> QED
  BY <1>5 DEF PutStoresItsValue, Stores

=============================================================================
