-------------------------- MODULE CacheServerProofs --------------------------
(***************************************************************************)
(* Proofs about CacheServer: a session is handled by one thread at a time, *)
(* every step of the server is a step of CacheLib or leaves the cache      *)
(* alone, and so the theorems about one caller of the library hold for a   *)
(* server with one thread, whatever the connections do.                    *)
(***************************************************************************)
EXTENDS CacheServer, CacheLibProofs

\* What a thread in the middle of a PUT relies on.
JobInv ==
  /\ session \in [Conns -> {"reading", "handling", "writing", "closed"}]
  /\ inbox \in [Conns -> Seq(Requests)]
  /\ req_ \in [Conns -> Requests \cup {Null}]
  /\ job \in [Callers -> Jobs \cup {Null}]
  /\ \A t \in Callers :
       job[t] # Null =>
         /\ session[job[t].conn] = "handling"
         /\ req_[job[t].conn] \in PutRequests
         /\ \A u \in Callers \ {t} : job[u] # Null => job[u].conn # job[t].conn

\* A request with method "put" carries a key and a value.
LEMMA PutRequest ==
  ASSUME NEW r \in Requests, r.method = "put"
  PROVE  r \in PutRequests
BY DEF Requests, PutRequests

\* A job names a connection.
LEMMA JobFacts ==
  ASSUME NEW j \in Jobs
  PROVE  j.conn \in Conns /\ [j EXCEPT !.step = "loop"] \in Jobs
         /\ [j EXCEPT !.step = "loop"].conn = j.conn
BY DEF Jobs

\* A step of a session that no thread is inside of, and that starts no PUT.
LEMMA OtherSession ==
  ASSUME JobInv, NEW c \in Conns, session[c] # "handling",
         NEW s \in {"reading", "writing", "closed"}, NEW r \in Requests \cup {Null},
         session' = [session EXCEPT ![c] = s],
         req_' = [req_ EXCEPT ![c] = r],
         inbox' \in [Conns -> Seq(Requests)],
         job' = job
  PROVE  JobInv'
<1>1. session' \in [Conns -> {"reading", "handling", "writing", "closed"}]
  BY DEF JobInv
<1>2. req_' \in [Conns -> Requests \cup {Null}]
  BY DEF JobInv
<1>3. ASSUME NEW t \in Callers, job'[t] # Null
      PROVE  /\ session'[job'[t].conn] = "handling"
             /\ req_'[job'[t].conn] \in PutRequests
             /\ \A u \in Callers \ {t} : job'[u] # Null => job'[u].conn # job'[t].conn
  <2>1. job[t] \in Jobs /\ job[t].conn \in Conns /\ job[t].conn # c
    BY <1>3, JobFacts DEF JobInv
  <2> QED
    BY <1>3, <2>1 DEF JobInv
<1> QED
  BY <1>1, <1>2, <1>3 DEF JobInv

\* The request a session reads is a well-formed one, and the rest stays queued.
LEMMA ReadFacts ==
  ASSUME JobInv, NEW c \in Conns, inbox[c] # <<>>
  PROVE  /\ Head(inbox[c]) \in Requests
         /\ [inbox EXCEPT ![c] = Tail(@)] \in [Conns -> Seq(Requests)]
<1>1. inbox[c] \in Seq(Requests)
  BY DEF JobInv
<1>2. Head(inbox[c]) \in Requests /\ Tail(inbox[c]) \in Seq(Requests)
  BY <1>1
<1> QED
  BY <1>2 DEF JobInv

\* The handlers that answer at once keep JobInv.
LEMMA ReplyKeepsJobs ==
  ASSUME JobInv, NEW c \in Conns, NEW t \in Callers, NEW m, NEW res,
         OnRead(t, c, m), Reply(c, res), job' = job
  PROVE  JobInv'
<1>1. session[c] # "handling" /\ inbox[c] # <<>>
  BY DEF OnRead
<1>2. Head(inbox[c]) \in Requests /\ inbox' \in [Conns -> Seq(Requests)]
  BY <1>1, ReadFacts DEF Reply, TakeRequest, send
<1> QED
  BY <1>1, <1>2, OtherSession DEF Reply, TakeRequest, send

\* So does a step that ends a session.
LEMMA EndKeepsJobs ==
  ASSUME JobInv, NEW c \in Conns, session[c] # "handling", End(c), job' = job
  PROVE  JobInv'
<1>1. inbox' \in [Conns -> Seq(Requests)]
  BY DEF End, JobInv
<1> QED
  BY <1>1, OtherSession DEF End

\* So does a step that lets a session read its next request.
LEMMA ReadKeepsJobs ==
  ASSUME JobInv, NEW c \in Conns, session[c] # "handling", do_read(c), job' = job
  PROVE  JobInv'
<1>1. inbox' \in [Conns -> Seq(Requests)]
  BY DEF do_read, JobInv
<1> QED
  BY <1>1, OtherSession DEF do_read

\* The steps of a PUT.
LEMMA PutKeepsJobs ==
  ASSUME JobInv, NEW t \in Callers
  PROVE  /\ \A c \in Conns : put_lookup(t, c) => JobInv'
         /\ put_set(t) => JobInv'
         /\ put_evict(t) => JobInv'
         /\ put_reply(t) => JobInv'
<1> DEFINE Ok(u) ==
             /\ session'[job'[u].conn] = "handling"
             /\ req_'[job'[u].conn] \in PutRequests
             /\ \A w \in Callers \ {u} : job'[w] # Null => job'[w].conn # job'[u].conn
<1>1. ASSUME NEW c \in Conns, put_lookup(t, c) PROVE JobInv'
  <2> DEFINE r == Head(inbox[c])
             j == [conn |-> c, created |-> IsNew(r.key), step |-> "set"]
  <2>1. session[c] = "reading" /\ inbox[c] # <<>> /\ r.method = "put" /\ job[t] = Null
    BY <1>1 DEF put_lookup, OnRead, Idle
  <2>2. r \in Requests /\ inbox' \in [Conns -> Seq(Requests)]
    BY <1>1, <2>1, ReadFacts DEF put_lookup, TakeRequest
  <2>3. r \in PutRequests
    BY <2>1, <2>2, PutRequest
  <2>4. j \in Jobs /\ j.conn = c /\ j # Null
    <3>1. IsNew(r.key) \in BOOLEAN
      BY DEF IsNew
    <3>2. j \in Jobs
      BY <3>1 DEF Jobs
    <3>3. Null \notin Jobs
      BY ServerAssumption DEF ServerAssumption
    <3> QED
      BY <3>2, <3>3
  <2>5. /\ job' = [job EXCEPT ![t] = j]
        /\ req_' = [req_ EXCEPT ![c] = r]
        /\ session' = [session EXCEPT ![c] = "handling"]
    BY <1>1 DEF put_lookup, TakeRequest, Occupy
  <2> HIDE DEF r, j
  <2>6. /\ session' \in [Conns -> {"reading", "handling", "writing", "closed"}]
        /\ req_' \in [Conns -> Requests \cup {Null}]
        /\ job' \in [Callers -> Jobs \cup {Null}]
    BY <2>2, <2>4, <2>5 DEF JobInv
  <2>7. ASSUME NEW u \in Callers, u # t, job'[u] # Null
        PROVE  job'[u] = job[u] /\ job[u].conn \in Conns /\ job[u].conn # c
    BY <2>1, <2>5, <2>7, JobFacts DEF JobInv
  <2>8. ASSUME NEW u \in Callers, job'[u] # Null PROVE Ok(u)
    <3>1. CASE u = t
      <4>1. job'[u] = j
        BY <2>5, <3>1 DEF JobInv
      <4>2. session'[c] = "handling" /\ req_'[c] \in PutRequests
        BY <2>3, <2>5 DEF JobInv
      <4> QED
        BY <2>4, <2>7, <3>1, <4>1, <4>2
    <3>2. CASE u # t
      <4>1. job'[u] = job[u] /\ job[u].conn \in Conns /\ job[u].conn # c
        BY <2>7, <2>8, <3>2
      <4>2. job'[t] = j
        BY <2>5 DEF JobInv
      <4>3. session'[job'[u].conn] = "handling" /\ req_'[job'[u].conn] \in PutRequests
        BY <2>5, <2>8, <4>1 DEF JobInv
      <4>4. ASSUME NEW w \in Callers \ {u}, job'[w] # Null
            PROVE  job'[w].conn # job'[u].conn
        <5>1. CASE w = t
          BY <2>4, <4>1, <4>2, <5>1
        <5>2. CASE w # t
          BY <2>7, <2>8, <4>1, <4>4, <5>2 DEF JobInv
        <5> QED
          BY <5>1, <5>2
      <4> QED
        BY <4>3, <4>4
    <3> QED
      BY <3>1, <3>2
  <2> QED
    BY <2>2, <2>6, <2>8 DEF JobInv
<1>2. ASSUME put_set(t) PROVE JobInv'
  <2> DEFINE j == [job[t] EXCEPT !.step = "loop"]
  <2>1. job[t] \in Jobs /\ job[t] # Null
    BY <1>2 DEF put_set, JobInv
  <2>2. j \in Jobs /\ j.conn = job[t].conn
    BY <2>1, JobFacts
  <2>3. job' = [job EXCEPT ![t] = j] /\ session' = session /\ req_' = req_ /\ inbox' = inbox
    BY <1>2 DEF put_set, sessionVars
  <2> HIDE DEF j
  <2>4. job' \in [Callers -> Jobs \cup {Null}]
    BY <2>2, <2>3 DEF JobInv
  <2>5. ASSUME NEW u \in Callers, job'[u] # Null
        PROVE  job[u] # Null /\ job'[u].conn = job[u].conn
    BY <2>1, <2>2, <2>3, <2>5 DEF JobInv
  <2>6. ASSUME NEW u \in Callers, job'[u] # Null PROVE Ok(u)
    BY <2>3, <2>5, <2>6 DEF JobInv
  <2> QED
    BY <2>3, <2>4, <2>6 DEF JobInv
<1>3. ASSUME put_evict(t) PROVE JobInv'
  BY <1>3 DEF put_evict, sessionVars, JobInv
<1>4. ASSUME put_reply(t) PROVE JobInv'
  <2> DEFINE c == job[t].conn
  <2>1. c \in Conns
    BY <1>4, JobFacts DEF put_reply, JobInv
  <2>2. /\ session' = [session EXCEPT ![c] = "writing"]
        /\ job' = [job EXCEPT ![t] = Null]
        /\ req_' = req_ /\ inbox' = inbox
    BY <1>4 DEF put_reply, send
  <2>3. /\ session' \in [Conns -> {"reading", "handling", "writing", "closed"}]
        /\ job' \in [Callers -> Jobs \cup {Null}]
    BY <2>1, <2>2 DEF JobInv
  <2>4. ASSUME NEW u \in Callers, job'[u] # Null
        PROVE  /\ u # t /\ job[u] # Null /\ job'[u] = job[u]
               /\ job[u].conn # c /\ job[u].conn \in Conns
    <3>1. u # t /\ job[u] # Null /\ job'[u] = job[u]
      BY <2>2, <2>4 DEF JobInv
    <3>2. job[u] \in Jobs /\ job[t] # Null
      BY <1>4, <3>1 DEF put_reply, JobInv
    <3>3. job[u].conn \in Conns
      BY <3>2, JobFacts
    <3>4. job[u].conn # c
      BY <3>1, <3>2 DEF JobInv
    <3> QED
      BY <3>1, <3>3, <3>4
  <2>5. ASSUME NEW u \in Callers, job'[u] # Null PROVE Ok(u)
    BY <2>1, <2>2, <2>4, <2>5 DEF JobInv
  <2> QED
    BY <2>2, <2>3, <2>5 DEF JobInv
<1> QED
  BY <1>1, <1>2, <1>3, <1>4

-----------------------------------------------------------------------------
(* A session is handled by one thread *)

\* Every step of the server keeps JobInv: no completion handler of a session
\* runs while another one of the same session is under way, because a session
\* starts its next asynchronous operation only at the end of a handler.
LEMMA JobInductive ==
  ASSUME JobInv, [ServerNext]_serverVars
  PROVE  JobInv'
<1>1. ASSUME NEW t \in Callers, NEW c \in Conns,
             \/ on_accept(t, c) \/ on_read_eof(t, c) \/ on_read_error(t, c)
             \/ on_write(t, c) \/ on_write_error(t, c)
      PROVE  JobInv'
  BY <1>1, EndKeepsJobs, ReadKeepsJobs
     DEF on_accept, on_read_eof, on_read_error, on_write, on_write_error
<1>2. ASSUME NEW t \in Callers, NEW c \in Conns, handle_request(t, c) PROVE JobInv'
  <2>1. CASE put_lookup(t, c)
    BY <2>1, PutKeepsJobs
  <2>2. CASE handle_get(t, c)
    BY <2>2, ReplyKeepsJobs DEF handle_get
  <2>3. CASE handle_delete(t, c)
    BY <2>3, ReplyKeepsJobs DEF handle_delete
  <2>4. CASE handle_head(t, c)
    BY <2>4, ReplyKeepsJobs DEF handle_head
  <2>5. CASE handle_reset(t, c)
    BY <2>5, ReplyKeepsJobs DEF handle_reset
  <2>6. CASE handle_post(t, c)
    BY <2>6, ReplyKeepsJobs DEF handle_post
  <2>7. CASE handle_other(t, c)
    BY <2>7, ReplyKeepsJobs DEF handle_other
  <2> QED
    BY <1>2, <2>1, <2>2, <2>3, <2>4, <2>5, <2>6, <2>7 DEF handle_request
<1>3. ASSUME NEW t \in Callers, ContinuePut(t) PROVE JobInv'
  BY <1>3, PutKeepsJobs DEF ContinuePut
<1>4. ASSUME NEW c \in Conns, NEW r \in Requests, PeerSend(c, r) PROVE JobInv'
  <2>1. inbox[c] \in Seq(Requests)
    BY DEF JobInv
  <2>2. Append(inbox[c], r) \in Seq(Requests)
    BY <2>1
  <2>3. inbox' \in [Conns -> Seq(Requests)]
    BY <1>4, <2>2 DEF PeerSend, JobInv
  <2> QED
    BY <1>4, <2>3 DEF PeerSend, JobInv
<1>5. CASE UNCHANGED serverVars
  BY <1>5 DEF serverVars, sessionVars, JobInv
<1> QED
  BY <1>1, <1>2, <1>3, <1>4, <1>5 DEF ServerNext

\* JobInv holds in every state of the server, whatever the number of threads,
\* connections, keys and values.
THEOREM JobInvariant == ServerSpec => []JobInv
<1>1. ServerInit => JobInv
  BY DEF ServerInit, JobInv
<1> QED
  BY <1>1, JobInductive, PTL DEF ServerSpec

\* JobInv says more than OneThreadPerSession.
LEMMA JobAlone == JobInv => OneThreadPerSession
<1>1. \A r \in PutRequests : r # Null /\ r.method = "put"
  BY ServerAssumption DEF ServerAssumption, Requests, PutRequests
<1> QED
  BY <1>1 DEF JobInv, OneThreadPerSession

\* A session is inside at most one handler at a time, however many threads run
\* the io_context (session.hh, tcp_listener.cc: each connection has a strand).
THEOREM SessionsAreStranded == ServerSpec => []OneThreadPerSession
  BY JobAlone, JobInvariant, PTL

-----------------------------------------------------------------------------
(* A session that is handled has a thread *)

\* A step that brings a session on, or ends it, leaves the others to their threads.
LEMMA OtherHandlers ==
  ASSUME JobInv, HandlingHasThread, job' = job, NEW c \in Conns,
         NEW s \in {"reading", "writing", "closed"}, session' = [session EXCEPT ![c] = s]
  PROVE  HandlingHasThread'
BY DEF JobInv, HandlingHasThread

\* The steps of a PUT keep a thread in its session until the write is started.
LEMMA PutKeepsThread ==
  ASSUME JobInv, HandlingHasThread, NEW t \in Callers
  PROVE  /\ \A c \in Conns : put_lookup(t, c) => HandlingHasThread'
         /\ put_set(t) => HandlingHasThread'
         /\ put_evict(t) => HandlingHasThread'
         /\ put_reply(t) => HandlingHasThread'
<1>1. ASSUME NEW c \in Conns, put_lookup(t, c), NEW d \in Conns, session'[d] = "handling"
      PROVE  \E u \in Callers : job'[u] # Null /\ job'[u].conn = d
  <2> DEFINE j == [conn |-> c, created |-> IsNew(Head(inbox[c]).key), step |-> "set"]
  <2>1. /\ job[t] = Null /\ job' = [job EXCEPT ![t] = j]
        /\ session' = [session EXCEPT ![c] = "handling"]
    BY <1>1 DEF put_lookup, OnRead, Idle, Occupy
  <2>2. j # Null /\ j.conn = c
    <3>1. IsNew(Head(inbox[c]).key) \in BOOLEAN
      BY DEF IsNew
    <3>2. j \in Jobs
      BY <3>1 DEF Jobs
    <3> QED
      BY <3>2, ServerAssumption DEF ServerAssumption
  <2> HIDE DEF j
  <2>3. CASE d = c
    BY <2>1, <2>2, <2>3 DEF JobInv
  <2>4. CASE d # c
    <3>1. session[d] = "handling"
      BY <1>1, <2>1, <2>4 DEF JobInv
    <3>2. PICK u \in Callers : job[u] # Null /\ job[u].conn = d
      BY <3>1 DEF HandlingHasThread
    <3> QED
      BY <2>1, <3>2 DEF JobInv
  <2> QED
    BY <2>3, <2>4
<1>2. ASSUME put_set(t), NEW d \in Conns, session'[d] = "handling"
      PROVE  \E u \in Callers : job'[u] # Null /\ job'[u].conn = d
  <2> DEFINE j == [job[t] EXCEPT !.step = "loop"]
  <2>1. session' = session /\ job' = [job EXCEPT ![t] = j] /\ job[t] # Null
    BY <1>2 DEF put_set, sessionVars
  <2>2. j # Null /\ j.conn = job[t].conn
    <3>1. j \in Jobs /\ j.conn = job[t].conn
      BY <2>1, JobFacts DEF JobInv
    <3> QED
      BY <3>1, ServerAssumption DEF ServerAssumption
  <2> HIDE DEF j
  <2>3. PICK u \in Callers : job[u] # Null /\ job[u].conn = d
    BY <1>2, <2>1 DEF HandlingHasThread
  <2> QED
    BY <2>1, <2>2, <2>3 DEF JobInv
<1>3. ASSUME put_evict(t) PROVE HandlingHasThread'
  BY <1>3 DEF put_evict, sessionVars, HandlingHasThread
<1>4. ASSUME put_reply(t), NEW d \in Conns, session'[d] = "handling"
      PROVE  \E u \in Callers : job'[u] # Null /\ job'[u].conn = d
  <2>1. /\ job[t] # Null /\ session' = [session EXCEPT ![job[t].conn] = "writing"]
        /\ job' = [job EXCEPT ![t] = Null]
    BY <1>4 DEF put_reply, send
  <2>2. d # job[t].conn /\ session[d] = "handling"
    BY <1>4, <2>1 DEF JobInv
  <2>3. PICK u \in Callers : job[u] # Null /\ job[u].conn = d
    BY <2>2 DEF HandlingHasThread
  <2> QED
    BY <2>1, <2>2, <2>3 DEF JobInv
<1> QED
  BY <1>1, <1>2, <1>3, <1>4 DEF HandlingHasThread

\* Every step of the server leaves each handled session its thread.
LEMMA ThreadsInductive ==
  ASSUME JobInv, HandlingHasThread, [ServerNext]_serverVars
  PROVE  HandlingHasThread'
<1>1. ASSUME NEW t \in Callers, NEW c \in Conns,
             \/ on_accept(t, c) \/ on_read_eof(t, c) \/ on_read_error(t, c)
             \/ on_write(t, c) \/ on_write_error(t, c)
      PROVE  HandlingHasThread'
  BY <1>1, OtherHandlers
     DEF on_accept, on_read_eof, on_read_error, on_write, on_write_error, do_read, End
<1>2. ASSUME NEW t \in Callers, NEW c \in Conns, handle_request(t, c)
      PROVE  HandlingHasThread'
  <2>1. CASE put_lookup(t, c)
    BY <2>1, PutKeepsThread
  <2>2. CASE ~put_lookup(t, c)
    <3>1. job' = job /\ session' = [session EXCEPT ![c] = "writing"]
      BY <1>2, <2>2 DEF handle_request, handle_get, handle_delete, handle_head,
             handle_reset, handle_post, handle_other, Reply, send
    <3> QED
      BY <3>1, OtherHandlers
  <2> QED
    BY <2>1, <2>2
<1>3. ASSUME NEW t \in Callers, ContinuePut(t) PROVE HandlingHasThread'
  BY <1>3, PutKeepsThread DEF ContinuePut
<1>4. ASSUME NEW c \in Conns, NEW r \in Requests, PeerSend(c, r) PROVE HandlingHasThread'
  BY <1>4 DEF PeerSend, HandlingHasThread
<1>5. CASE UNCHANGED serverVars
  BY <1>5 DEF serverVars, sessionVars, HandlingHasThread
<1> QED
  BY <1>1, <1>2, <1>3, <1>4, <1>5 DEF ServerNext

\* No session is left in a handler that nobody runs, for any number of threads and
\* connections.
THEOREM HandlersRun == ServerSpec => []HandlingHasThread
<1>1. ServerInit => HandlingHasThread
  BY DEF ServerInit, HandlingHasThread
<1> QED
  BY <1>1, JobInvariant, ThreadsInductive, PTL DEF ServerSpec

-----------------------------------------------------------------------------
(* The server as a user of the library *)

\* Every step of the server is one operation of CacheLib, with arguments CacheLib
\* allows, or leaves the cache alone.
LEMMA ServerStep ==
  ASSUME JobInv, [ServerNext]_serverVars
  PROVE  [Next]_vars
<1>1. ASSUME NEW t \in Callers, NEW c \in Conns,
             \/ on_accept(t, c) \/ on_read_eof(t, c) \/ on_read_error(t, c)
             \/ on_write(t, c) \/ on_write_error(t, c)
             \/ handle_head(t, c) \/ handle_post(t, c) \/ handle_other(t, c)
      PROVE  UNCHANGED vars
  BY <1>1 DEF on_accept, on_read_eof, on_read_error, on_write, on_write_error,
              handle_head, handle_post, handle_other, vars
<1>2. ASSUME NEW c \in Conns, NEW r \in Requests, PeerSend(c, r)
      PROVE  UNCHANGED vars
  BY <1>2 DEF PeerSend, vars
<1>3. ASSUME NEW t \in Callers, NEW c \in Conns, inbox[c] # <<>>,
             Head(inbox[c]).method \in {"get", "delete", "put"}
      PROVE  Head(inbox[c]).key \in Keys
  <2>1. Head(inbox[c]) \in Requests
    BY <1>3, ReadFacts
  <2> QED
    BY <1>3, <2>1 DEF Requests, PutRequests
<1>4. ASSUME NEW t \in Callers, NEW c \in Conns, handle_get(t, c) \/ put_lookup(t, c)
      PROVE  Next
  <2>1. Head(inbox[c]).key \in Keys /\ get(t, Head(inbox[c]).key)
    BY <1>3, <1>4 DEF handle_get, put_lookup, OnRead
  <2> QED
    BY <2>1 DEF Next
<1>5. ASSUME NEW t \in Callers, NEW c \in Conns, handle_delete(t, c)
      PROVE  Next
  <2>1. Head(inbox[c]).key \in Keys /\ del(t, Head(inbox[c]).key)
    BY <1>3, <1>5 DEF handle_delete, OnRead
  <2> QED
    BY <2>1 DEF Next
<1>6. ASSUME NEW t \in Callers, NEW c \in Conns, handle_reset(t, c)
      PROVE  Next
  BY <1>6 DEF handle_reset, Next
<1>7. ASSUME NEW t \in Callers, ContinuePut(t)
      PROVE  Next
  <2>1. CASE put_set(t)
    <3> DEFINE r == req_[job[t].conn]
    <3>1. r \in PutRequests
      BY <2>1 DEF put_set, JobInv
    <3>2. r.key \in Keys /\ r.val \in Values /\ SizeOf[r.val] \in Sizes
      BY <3>1, ServerAssumption DEF ServerAssumption, PutRequests
    <3>3. SetBegin(t, r.key, r.val, SizeOf[r.val])
      BY <2>1 DEF put_set
    <3> QED
      BY <3>2, <3>3 DEF Next
  <2>2. CASE put_evict(t)
    BY <2>2 DEF put_evict, Next
  <2>3. CASE put_reply(t)
    BY <2>3 DEF put_reply, Next
  <2> QED
    BY <1>7, <2>1, <2>2, <2>3 DEF ContinuePut
<1>8. CASE UNCHANGED serverVars
  BY <1>8 DEF serverVars, vars
<1> QED
  BY <1>1, <1>2, <1>4, <1>5, <1>6, <1>7, <1>8 DEF ServerNext, handle_request

\* Seen from the cache, the server is a user of the library: its requests drive
\* the Cache object only through get, set, del and reset.
THEOREM ServerUsesLibrary == ServerSpec => Spec
<1>1. ServerInit => Init
  BY DEF ServerInit
<1> QED
  BY <1>1, JobInvariant, ServerStep, PTL DEF ServerSpec, Spec

\* With one thread (the default) and values small enough not to overflow the
\* counter, the server's Space-Used is exact and the limit holds, through every
\* interleaving of connections, timeouts and failed writes.
THEOREM ServerSafe ==
  ASSUME SingleCaller, NoWrap
  PROVE  ServerSpec => [](Accounting /\ Capacity)
<1>1. Accounting /\ Capacity /\ QueueCoversDict /\ InsertIsFresh => Accounting /\ Capacity
  OBVIOUS
<1> QED
  BY <1>1, SafeCache, ServerUsesLibrary, PTL

-----------------------------------------------------------------------------
(* Type correctness *)

\* What the processor may answer.
LEMMA ResponseTypes ==
  /\ \A result \in {200, 201, 204, 400, 404}, body \in Values \cup {Null},
        keep \in BOOLEAN : Respond(result, body, keep) \in Responses
  /\ \A result \in {200, 201, 204} : Respond(result, Null, TRUE) \in Responses
  /\ \A n \in 0 .. (Word - 1), keep \in BOOLEAN :
       [Respond(200, Null, keep) EXCEPT !.space_used = n] \in Responses
  /\ \A r \in Requests : r.keep_alive \in BOOLEAN
BY DEF Respond, Responses, Requests, PutRequests

\* What is being written is a response.
ResponsesOK ==
  /\ res_ \in [Conns -> Responses \cup {Null}]
  /\ \A c \in Conns : session[c] = "writing" => res_[c] # Null

\* The start of a write keeps ResponsesOK.
LEMMA ReplyTypes ==
  ASSUME ResponsesOK, JobInv, NEW c \in Conns, NEW res \in Responses, send(c, res)
  PROVE  ResponsesOK'
BY ServerAssumption DEF ServerAssumption, ResponsesOK, JobInv, send

\* The responses, the bound and the history variable.
RestTypeOK ==
  /\ ResponsesOK
  /\ sent \in 0 .. MaxRequests
  /\ acked \in [Keys -> Values \cup {Null}]

\* RestTypeOK is inductive, together with the types of the library and JobInv.
LEMMA RestInductive ==
  ASSUME TypeOK, JobInv, RestTypeOK, [ServerNext]_serverVars
  PROVE  RestTypeOK'
<1> USE DEF RestTypeOK
<1>1. ASSUME NEW t \in Callers, NEW c \in Conns,
             \/ on_accept(t, c) \/ on_read_eof(t, c) \/ on_read_error(t, c)
             \/ on_write(t, c) \/ on_write_error(t, c)
      PROVE  RestTypeOK'
  <2>1. do_read(c) \/ End(c)
    BY <1>1 DEF on_accept, on_read_eof, on_read_error, on_write, on_write_error
  <2>2. res_' = [res_ EXCEPT ![c] = Null] /\ sent' = sent /\ acked' = acked
    BY <1>1, <2>1 DEF on_accept, on_read_eof, on_read_error, on_write, on_write_error,
                      do_read, End
  <2>3. \E s \in {"reading", "closed"} : session' = [session EXCEPT ![c] = s]
    BY <2>1 DEF do_read, End
  <2> QED
    BY <2>2, <2>3 DEF ResponsesOK, JobInv
<1>2. ASSUME NEW t \in Callers, NEW c \in Conns, handle_request(t, c) PROVE RestTypeOK'
  <2> DEFINE r == Head(inbox[c])
  <2>1. inbox[c] # <<>>
    BY <1>2 DEF handle_request, handle_get, handle_delete, handle_head, handle_reset,
                handle_post, handle_other, put_lookup, OnRead
  <2>2. r \in Requests /\ r.keep_alive \in BOOLEAN
    BY <2>1, ReadFacts, ResponseTypes
  <2> HIDE DEF r
  <2>3. not_found(r) \in Responses /\ bad_request(r) \in Responses
    BY <2>2, ResponseTypes DEF not_found, bad_request
  <2>4. CASE handle_get(t, c)
    <3> DEFINE v == ValueOf(dict_, r.key)
    <3>1. r.key \in Keys
      BY <2>2, <2>4 DEF handle_get, OnRead, r, Requests, PutRequests
    <3>2. v \in Values \cup {Null}
      BY <3>1 DEF TypeOK, ValueOf, Entry
    <3>3. \E res \in Responses : send(c, res)
      <4>1. Reply(c, IF v = Null THEN not_found(r) ELSE Respond(200, v, r.keep_alive))
        BY <2>4 DEF handle_get, r
      <4>2. Respond(200, v, r.keep_alive) \in Responses
        BY <2>2, <3>2, ResponseTypes
      <4>3. Reply(c, not_found(r)) \/ Reply(c, Respond(200, v, r.keep_alive))
        BY <4>1, Zenon
      <4> QED
        BY <2>3, <4>2, <4>3 DEF Reply
    <3> QED
      BY <2>4, <3>3, ReplyTypes DEF handle_get
  <2>5. CASE handle_delete(t, c)
    <3>1. \E res \in Responses : send(c, res)
      <4>1. Reply(c, IF dict_[r.key] = Absent THEN not_found(r)
                     ELSE Respond(200, Null, r.keep_alive))
        BY <2>5 DEF handle_delete, r
      <4>2. Respond(200, Null, r.keep_alive) \in Responses
        BY <2>2, ResponseTypes
      <4>3. Reply(c, not_found(r)) \/ Reply(c, Respond(200, Null, r.keep_alive))
        BY <4>1, Zenon
      <4> QED
        BY <2>3, <4>2, <4>3 DEF Reply
    <3>2. acked' \in [Keys -> Values \cup {Null}] /\ sent' = sent
      BY <2>5 DEF handle_delete
    <3> QED
      BY <3>1, <3>2, ReplyTypes
  <2>6. CASE handle_head(t, c)
    <3>1. [Respond(200, Null, r.keep_alive) EXCEPT !.space_used = size_] \in Responses
      BY <2>2, ResponseTypes DEF TypeOK
    <3> QED
      BY <2>6, <3>1, ReplyTypes DEF handle_head, Reply, r
  <2>7. CASE handle_reset(t, c)
    <3>1. Respond(200, Null, TRUE) \in Responses
      BY ResponseTypes
    <3>2. acked' \in [Keys -> Values \cup {Null}] /\ sent' = sent
      BY <2>7 DEF handle_reset
    <3> QED
      BY <2>7, <3>1, <3>2, ReplyTypes DEF handle_reset, Reply
  <2>8. CASE handle_post(t, c) \/ handle_other(t, c)
    BY <2>3, <2>8, ReplyTypes DEF handle_post, handle_other, Reply, r
  <2>9. CASE put_lookup(t, c)
    BY <2>9 DEF put_lookup, Occupy, ResponsesOK, JobInv
  <2> QED
    BY <1>2, <2>4, <2>5, <2>6, <2>7, <2>8, <2>9 DEF handle_request
<1>3. ASSUME NEW t \in Callers, put_set(t) \/ put_evict(t) PROVE RestTypeOK'
  BY <1>3 DEF put_set, put_evict, sessionVars, ResponsesOK
<1>4. ASSUME NEW t \in Callers, put_reply(t) PROVE RestTypeOK'
  <2> DEFINE c == job[t].conn
  <2>1. job[t] \in Jobs /\ req_[c] \in PutRequests
    BY <1>4 DEF put_reply, JobInv
  <2>2. c \in Conns /\ req_[c].val \in Values
    BY <2>1, JobFacts DEF PutRequests
  <2>3. \E res \in Responses : send(c, res)
    <3>1. send(c, Respond(IF job[t].created THEN 201 ELSE 204, Null, TRUE))
      BY <1>4 DEF put_reply
    <3>2. \/ send(c, Respond(201, Null, TRUE))
          \/ send(c, Respond(204, Null, TRUE))
      BY <3>1, Zenon
    <3>3. Respond(201, Null, TRUE) \in Responses /\ Respond(204, Null, TRUE) \in Responses
      BY ResponseTypes
    <3> QED
      BY <3>2, <3>3
  <2>4. acked' \in [Keys -> Values \cup {Null}] /\ sent' = sent
    BY <1>4, <2>2 DEF put_reply
  <2> QED
    BY <2>2, <2>3, <2>4, ReplyTypes
<1>5. ASSUME NEW c \in Conns, NEW r \in Requests, PeerSend(c, r) PROVE RestTypeOK'
  BY <1>5, ServerAssumption DEF ServerAssumption, PeerSend, ResponsesOK
<1>6. CASE UNCHANGED serverVars
  BY <1>6 DEF serverVars, sessionVars, ResponsesOK
<1> QED
  BY <1>1, <1>2, <1>3, <1>4, <1>5, <1>6 DEF ServerNext, ContinuePut

\* Type correctness of the server, for any threads, connections, keys and values.
THEOREM ServerTypeCorrect == ServerSpec => []ServerTypeOK
<1>1. ServerInit => RestTypeOK /\ evictor_
  BY ServerAssumption DEF ServerAssumption, ServerInit, RestTypeOK, ResponsesOK
<1>2. TypeOK /\ JobInv /\ RestTypeOK /\ [ServerNext]_serverVars => RestTypeOK'
  BY RestInductive
<1>3. JobInv /\ evictor_ /\ [ServerNext]_serverVars => evictor_'
  BY ServerStep, EvictorStays
<1>4. ServerSpec => []TypeOK
  BY TypeCorrect, ServerUsesLibrary, PTL
<1>5. TypeOK /\ evictor_ /\ JobInv /\ RestTypeOK => ServerTypeOK
  BY DEF JobInv, RestTypeOK, ResponsesOK, ServerTypeOK
<1> QED
  BY <1>1, <1>2, <1>3, <1>4, <1>5, JobInvariant, PTL DEF ServerSpec

==============================================================================
