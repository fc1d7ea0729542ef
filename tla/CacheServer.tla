----------------------------- MODULE CacheServer -----------------------------
(***************************************************************************)
(* The cache server: TCP sessions (session.hh) that read HTTP requests,    *)
(* the request processor (request_processor.hh) that turns them into calls *)
(* on the one Cache object, and the threads that run the io_context        *)
(* (cache_server.cc).  Callers of CacheLib are those threads.              *)
(*                                                                         *)
(* A session has one asynchronous operation under way: it is "reading",    *)
(* "handling" (a thread is inside handle_request) or "writing"; otherwise  *)
(* it is "closed", and its slot may be used by the next connection.  Every *)
(* completion handler needs a thread that is not inside another one.  All  *)
(* requests are handled in one step except PUT, which looks the key up,    *)
(* then runs the loop of Cache::set.                                       *)
(***************************************************************************)
EXTENDS CacheLib

CONSTANTS
  Conns,         \* connections that can be open at a time
  SizeOf,        \* per value, val_str.length() + 1
  MaxRequests    \* bound: requests sent by all peers together

\* The parsed requests.  "reset" is a POST to /reset and "post" one to another
\* target; "other" is every method the processor does not know.
PutRequests == [method : {"put"}, key : Keys, val : Values, keep_alive : BOOLEAN]
Requests ==
  [method : {"get", "delete"}, key : Keys, keep_alive : BOOLEAN] \cup
  PutRequests \cup
  [method : {"head", "reset", "post", "other"}, keep_alive : BOOLEAN]

\* body: the value a GET found, or Null; space_used: the header field of a HEAD.
Responses ==
  [result : {200, 201, 204, 400, 404},
   body : Values \cup {Null},
   space_used : (0 .. (Word - 1)) \cup {Null},
   keep_alive : BOOLEAN]

Jobs == [conn : Conns, created : BOOLEAN, step : {"set", "loop"}]

ASSUME ServerAssumption ==
  /\ SizeOf \in [Values -> Sizes]
  /\ MaxRequests \in Nat
  /\ MaxTouches >= 2 * MaxRequests    \* a PUT touches its key twice
  /\ Null \notin Requests \cup Responses \cup Jobs

VARIABLES
  session,    \* per connection, what its session is doing
  inbox,      \* per connection, the requests that arrived and are not read yet
  req_,       \* per connection, the request being served
  res_,       \* per connection, the response being written
  job,        \* per thread, the PUT it is in the middle of, or Null
  sent,       \* number of requests sent, for the bound
  acked       \* history: per key, the value of the last PUT that was
              \* acknowledged and not followed by a DELETE or a reset, or Null

sessionVars == <<session, inbox, req_, res_>>
serverVars == <<vars, sessionVars, job, sent, acked>>

ServerTypeOK ==
  /\ TypeOK /\ evictor_
  /\ session \in [Conns -> {"reading", "handling", "writing", "closed"}]
  /\ inbox \in [Conns -> Seq(Requests)]
  /\ req_ \in [Conns -> Requests \cup {Null}]
  /\ res_ \in [Conns -> Responses \cup {Null}]
  /\ job \in [Callers -> Jobs \cup {Null}]
  /\ sent \in 0 .. MaxRequests
  /\ acked \in [Keys -> Values \cup {Null}]

ServerInit ==
  /\ Init /\ evictor_    \* main gives the cache a FIFO evictor
  /\ session = [c \in Conns |-> "closed"]
  /\ inbox = [c \in Conns |-> <<>>]
  /\ req_ = [c \in Conns |-> Null]
  /\ res_ = [c \in Conns |-> Null]
  /\ job = [t \in Callers |-> Null]
  /\ sent = 0
  /\ acked = [k \in Keys |-> Null]

-----------------------------------------------------------------------------
(* Responses *)

Respond(result, body, keep) ==
  [result |-> result, body |-> body, space_used |-> Null, keep_alive |-> keep]

not_found(r) == Respond(404, Null, r.keep_alive)
bad_request(r) == Respond(400, Null, r.keep_alive)

-----------------------------------------------------------------------------
(* Sessions *)

\* Thread t is free to run a completion handler.
Idle(t) == job[t] = Null

\* on_read for a request of method m, run by t.
OnRead(t, c, m) ==
  /\ Idle(t)
  /\ session[c] = "reading"
  /\ inbox[c] # <<>>
  /\ Head(inbox[c]).method = m

\* on_read takes the request it read out of the stream.
TakeRequest(c) ==
  /\ req_' = [req_ EXCEPT ![c] = Head(inbox[c])]
  /\ inbox' = [inbox EXCEPT ![c] = Tail(@)]

\* Fault: the response is kept but no write is started.
send_NoWrite(c, res) ==
  /\ res_' = [res_ EXCEPT ![c] = res]
  /\ session' = [session EXCEPT ![c] = "handling"]

send(c, res) ==
  /\ res_' = [res_ EXCEPT ![c] = res]
  /\ session' = [session EXCEPT ![c] = "writing"]

\* on_read answers the request it read at once with res.
Reply(c, res) == TakeRequest(c) /\ send(c, res)

\* do_read(), which empties req_, after the response is gone.
do_read(c) ==
  /\ session' = [session EXCEPT ![c] = "reading"]
  /\ req_' = [req_ EXCEPT ![c] = Null]
  /\ res_' = [res_ EXCEPT ![c] = Null]
  /\ UNCHANGED inbox

\* The session starts no further operation: its last reference goes away and
\* the socket is closed.  What is still unread is lost.
End(c) ==
  /\ session' = [session EXCEPT ![c] = "closed"]
  /\ inbox' = [inbox EXCEPT ![c] = <<>>]
  /\ req_' = [req_ EXCEPT ![c] = Null]
  /\ res_' = [res_ EXCEPT ![c] = Null]

\* The listener accepts a connection and its session starts to read.
on_accept(t, c) ==
  /\ Idle(t)
  /\ session[c] = "closed"
  /\ do_read(c)
  /\ UNCHANGED <<vars, job, sent, acked>>

\* The peer sends a request; it does not have to wait for the response to the
\* one before.
PeerSend(c, r) ==
  /\ session[c] # "closed"
  /\ sent < MaxRequests
  /\ sent' = sent + 1
  /\ inbox' = [inbox EXCEPT ![c] = Append(@, r)]
  /\ UNCHANGED <<vars, session, req_, res_, job, acked>>

\* on_read with end_of_stream: the peer closed after its last request.
on_read_eof(t, c) ==
  /\ Idle(t)
  /\ session[c] = "reading" /\ inbox[c] = <<>>
  /\ End(c)
  /\ UNCHANGED <<vars, job, sent, acked>>

\* on_read with any other error.  The 30 s timer of do_read may win against a
\* request that has just arrived.
on_read_error(t, c) ==
  /\ Idle(t)
  /\ session[c] = "reading"
  /\ End(c)
  /\ UNCHANGED <<vars, job, sent, acked>>

\* The response is written: close if it says so, otherwise read again.
on_write(t, c) ==
  /\ Idle(t)
  /\ session[c] = "writing"
  /\ IF res_[c].keep_alive THEN do_read(c) ELSE End(c)
  /\ UNCHANGED <<vars, job, sent, acked>>

\* The write failed: the peer is gone, or the timer set by do_read, which is
\* still running, expired.
on_write_error(t, c) ==
  /\ Idle(t)
  /\ session[c] = "writing"
  /\ End(c)
  /\ UNCHANGED <<vars, job, sent, acked>>

-----------------------------------------------------------------------------
(* handle_request *)

handle_get(t, c) ==
  /\ OnRead(t, c, "get")
  /\ LET r == Head(inbox[c])
         v == ValueOf(dict_, r.key)
     IN  /\ get(t, r.key)
         /\ Reply(c, IF v = Null THEN not_found(r) ELSE Respond(200, v, r.keep_alive))
  /\ UNCHANGED <<job, sent, acked>>

\* del() reports success for every key in the map, a phantom entry included.
handle_delete(t, c) ==
  /\ OnRead(t, c, "delete")
  /\ LET r == Head(inbox[c])
     IN  /\ del(t, r.key)
         /\ Reply(c, IF dict_[r.key] = Absent THEN not_found(r)
                     ELSE Respond(200, Null, r.keep_alive))
         /\ acked' = [acked EXCEPT ![r.key] = Null]
  /\ UNCHANGED <<job, sent>>

\* The other requests that leave the cache alone.
handle_head(t, c) ==
  /\ OnRead(t, c, "head")
  /\ Reply(c, [Respond(200, Null, Head(inbox[c]).keep_alive) EXCEPT !.space_used = size_])
  /\ UNCHANGED <<vars, job, sent, acked>>

handle_post(t, c) ==
  /\ OnRead(t, c, "post")
  /\ Reply(c, not_found(Head(inbox[c])))
  /\ UNCHANGED <<vars, job, sent, acked>>

handle_other(t, c) ==
  /\ OnRead(t, c, "other")
  /\ Reply(c, bad_request(Head(inbox[c])))
  /\ UNCHANGED <<vars, job, sent, acked>>

\* The response to a reset is a fresh one: it keeps the connection open
\* whatever the request asked for.
handle_reset(t, c) ==
  /\ OnRead(t, c, "reset")
  /\ reset(t)
  /\ Reply(c, Respond(200, Null, TRUE))
  /\ acked' = [k \in Keys |-> Null]
  /\ UNCHANGED <<job, sent>>

IsNew(k) == ValueOf(dict_, k) = Null

\* Fault: the session is already reading again while the PUT is handled.
Occupy_StillReading(c) == UNCHANGED session

\* The session starts no operation while its request is handled.
Occupy(c) == session' = [session EXCEPT ![c] = "handling"]

\* PUT, first part: a get() tells whether the key is new.
put_lookup(t, c) ==
  /\ OnRead(t, c, "put")
  /\ LET k == Head(inbox[c]).key
     IN  /\ get(t, k)
         /\ job' = [job EXCEPT ![t] = [conn |-> c, created |-> IsNew(k), step |-> "set"]]
  /\ TakeRequest(c)
  /\ Occupy(c)
  /\ UNCHANGED <<res_, sent, acked>>

\* PUT, second part: set() is called.
put_set(t) ==
  /\ job[t] # Null
  /\ job[t].step = "set"
  /\ LET r == req_[job[t].conn] IN SetBegin(t, r.key, r.val, SizeOf[r.val])
  /\ job' = [job EXCEPT ![t].step = "loop"]
  /\ UNCHANGED <<sessionVars, sent, acked>>

put_evict(t) ==
  /\ job[t] # Null
  /\ SetEvict(t)
  /\ UNCHANGED <<sessionVars, job, sent, acked>>

\* PUT, last part: set() stores the value and the response says whether the
\* key was new.  The connection is kept open whatever the request asked for.
put_reply(t) ==
  /\ job[t] # Null
  /\ SetInsert(t)
  /\ LET c == job[t].conn
     IN  /\ send(c, Respond(IF job[t].created THEN 201 ELSE 204, Null, TRUE))
         /\ acked' = [acked EXCEPT ![req_[c].key] = req_[c].val]
  /\ job' = [job EXCEPT ![t] = Null]
  /\ UNCHANGED <<inbox, req_, sent>>

-----------------------------------------------------------------------------
handle_request(t, c) ==
  \/ handle_get(t, c)
  \/ handle_delete(t, c)
  \/ handle_head(t, c)
  \/ handle_reset(t, c)
  \/ handle_post(t, c)
  \/ handle_other(t, c)
  \/ put_lookup(t, c)

ContinuePut(t) == put_set(t) \/ put_evict(t) \/ put_reply(t)

ServerNext ==
  \/ \E t \in Callers, c \in Conns :
       \/ on_accept(t, c)
       \/ on_read_eof(t, c)
       \/ on_read_error(t, c)
       \/ handle_request(t, c)
       \/ on_write(t, c)
       \/ on_write_error(t, c)
  \/ \E t \in Callers : ContinuePut(t)
  \/ \E c \in Conns, r \in Requests : PeerSend(c, r)

ServerSpec == ServerInit /\ [][ServerNext]_serverVars

\* The io_context queues completed operations first come first served, so a
\* handler that is ready again and again is run although a thread is not always
\* free (strong fairness); a thread inside set() keeps running (weak fairness).
\* A write ends, if not with success then by the timer of do_read.  Nothing is
\* assumed of peers, of new connections and of reads that wait for a request.
ServerFairness ==
  /\ \A t \in Callers : WF_serverVars(ContinuePut(t))
  /\ \A c \in Conns :
       /\ SF_serverVars(\E t \in Callers : handle_request(t, c))
       /\ SF_serverVars(\E t \in Callers : on_write(t, c) \/ on_write_error(t, c))

ServerFairSpec == ServerSpec /\ ServerFairness

-----------------------------------------------------------------------------
(* Properties *)

\* What a GET can find under a key is the value of the last acknowledged PUT of
\* that key: never one that was overwritten, deleted or reset, through any
\* interleaving of connections, evictions and phantom entries.
NoStaleValue ==
  \A k \in Keys : ValueOf(dict_, k) \in {Null, acked[k]}

\* However many threads run the io_context, a session is handled by at most one
\* of them: the PUT a thread is in the middle of is the request that its session
\* is handling, and no other thread is inside the same session.
OneThreadPerSession ==
  \A t \in Callers :
    job[t] # Null =>
      /\ session[job[t].conn] = "handling"
      /\ req_[job[t].conn] # Null /\ req_[job[t].conn].method = "put"
      /\ \A u \in Callers \ {t} : job[u] # Null => job[u].conn # job[t].conn

\* A session that is handling a request has a thread inside it: no handler ends
\* without the operation that brings its session on, which nothing else would.
HandlingHasThread ==
  \A c \in Conns :
    session[c] = "handling" => \E t \in Callers : job[t] # Null /\ job[t].conn = c

\* A DELETE is answered with 200 only when there was a value to delete
\* (cache.hh: "Delete an object from the cache, if it's still there").
DeleteTellsTruth ==
  [][\A c \in Conns :
       /\ session[c] = "reading" /\ session'[c] = "writing"
       /\ req_'[c].method = "delete" /\ res_'[c].result = 200
       => ValueOf(dict_, req_'[c].key) # Null]_serverVars

\* A stored value goes away only by a DELETE of its key, a reset, a PUT of the
\* same key, or while set() of another key really lacks room for its value.
ValueKeptUntilRoomNeeded ==
  [][\A k \in Keys :
       /\ ValueOf(dict_, k) # Null /\ ValueOf(dict_', k) = Null
       /\ acked'[k] # Null
       => \E t \in Callers :
            /\ job[t] # Null
            /\ \/ req_[job[t].conn].key = k
               \/ Cardinality(ValueBytes(dict_)) + SizeOf[req_[job[t].conn].val]
                    > MaxMem]_serverVars

\* When a PUT is answered, the cache holds its value under its key: nothing tests
\* whether set() stored it, and its insert() does nothing when the key is there.
PutStoresItsValue ==
  [][\A t \in Callers :
       job[t] # Null /\ job'[t] = Null =>
         LET r == req_[job[t].conn] IN ValueOf(dict_', r.key) = r.val]_serverVars

\* Everything that arrived on c is answered and written, or c is closed.
Served(c) == inbox[c] = <<>> /\ session[c] \in {"reading", "closed"}

\* The thread that serves c is caught in the loop of set(), or every thread is.
Starved(c) ==
  \/ \E t \in Callers : Spins(t) /\ job[t] # Null /\ job[t].conn = c
  \/ \A t \in Callers : Spins(t)

\* No session is stuck in a handler or a write and no request is left waiting,
\* whatever the other connections do, unless a set() that never ends holds the
\* thread that serves the connection or all threads.
EveryRequestServed == \A c \in Conns : []<>Served(c) \/ <>[]Starved(c)

==============================================================================
