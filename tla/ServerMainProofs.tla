-------------------------- MODULE ServerMainProofs --------------------------
(***************************************************************************)
(* Proofs about the whole server process: the UDP handler is one more      *)
(* place in which a thread can be, it obeys the same rule as a TCP         *)
(* session, it answers the sender it was asked by, and with one thread the *)
(* library's guarantees hold under both transports together.               *)
(***************************************************************************)
EXTENDS ServerMain, ServerValueProofs

\* JobInv, what main() has not started yet, and where a datagram's request goes.
MainInv ==
  /\ JobInv
  /\ main = "starting" => ~listening /\ \A c \in Conns : session[c] = "closed"
  /\ datagrams \in Seq(Datagrams)
  /\ recv_buffer_ \in DatagramRequests
  /\ AnswerGoesToAsker

\* Before the start no thread is in the middle of a PUT.
LEMMA StartsIdle ==
  ASSUME JobInv, \A c \in Conns : session[c] = "closed", NEW t \in Callers
  PROVE  job[t] = Null
<1>1. job[t] # Null => job[t] \in Jobs
  BY DEF JobInv
<1>2. job[t] # Null => job[t].conn \in Conns
  BY <1>1, JobFacts
<1> QED
  BY <1>2 DEF JobInv

\* The steps that are those of CacheServer, with the UDP handler as a session.
ServerLike ==
  \/ \E t \in Callers, c \in Conns \ {Udp} :
       tcp_accept(t, c) \/ tcp_request(t, c) \/ tcp_written(t, c) \/ tcp_end(t, c)
  \/ \E t \in Callers : continue_put(t) \/ handle_receive(t)
  \/ \E c \in Conns \ {Udp}, r \in Requests : PeerSend(c, r) /\ UNCHANGED mainVars

\* They are indeed steps of CacheServer.
LEMMA ServerLikeIsServer ==
  ASSUME ServerLike
  PROVE  ServerNext
BY MainAssumption
   DEF MainAssumption, ServerLike, ServerNext, tcp_accept, tcp_request, tcp_written,
       tcp_end, continue_put, handle_receive

\* The UDP handler's own steps leave the cache and the threads alone.
UdpStep(t) == handle_receive_error(t) \/ handle_send(t)

\* Every step is one of these.
LEMMA MainSteps ==
  ASSUME MainNext
  PROVE  \/ ServerLike
         \/ \E t \in Callers : UdpStep(t)
         \/ \E n, b, f : start(n, b, f)
         \/ async_receive_from
         \/ \E d \in Datagrams : datagram_arrives(d)
<1>1. Traffic \subseteq Requests
  BY MainAssumption DEF MainAssumption
<1> QED
  BY <1>1 DEF MainNext, ServerLike, UdpStep

\* JobInv is kept by every step of the process.
LEMMA MainKeepsJobs ==
  ASSUME MainInv, [MainNext]_processVars
  PROVE  JobInv'
<1>1. ASSUME ServerLike PROVE JobInv'
  BY <1>1, ServerLikeIsServer, JobInductive DEF MainInv
<1>2. ASSUME NEW t \in Callers, UdpStep(t) PROVE JobInv'
  <2>1. Udp \in Conns /\ session[Udp] # "handling" /\ job' = job
    BY <1>2, MainAssumption
       DEF MainAssumption, UdpStep, handle_receive_error, handle_send, Armed
  <2> QED
    BY <1>2, <2>1, EndKeepsJobs, ReadKeepsJobs
       DEF MainInv, UdpStep, handle_receive_error, handle_send
<1>3. ASSUME NEW n, NEW b, NEW f, start(n, b, f) PROVE JobInv'
  <2>1. \A t \in Callers : job[t] = Null
    BY <1>3, StartsIdle DEF MainInv, start
  <2>2. session' \in [Conns -> {"reading", "handling", "writing", "closed"}]
    BY <1>3 DEF start, MainInv, JobInv
  <2> QED
    BY <1>3, <2>1, <2>2 DEF start, MainInv, JobInv
<1>4. ASSUME async_receive_from PROVE JobInv'
  <2>1. recv_buffer_' \in Requests
    <3>1. Head(datagrams) \in Datagrams
      BY <1>4 DEF async_receive_from, MainInv
    <3> QED
      BY <1>4, <3>1 DEF async_receive_from, MainInv, Datagrams, DatagramRequests
  <2>2. inbox' \in [Conns -> Seq(Requests)]
    <3>1. <<recv_buffer_'>> \in Seq(Requests)
      BY <2>1
    <3>2. inbox' = [inbox EXCEPT ![Udp] = <<recv_buffer_'>>]
      BY <1>4 DEF async_receive_from
    <3> QED
      BY <3>1, <3>2 DEF MainInv, JobInv
  <2> QED
    BY <1>4, <2>2 DEF async_receive_from, MainInv, JobInv
<1>5. ASSUME NEW d, datagram_arrives(d) PROVE JobInv'
  BY <1>5 DEF datagram_arrives, sessionVars, MainInv, JobInv
<1>6. CASE UNCHANGED processVars
  BY <1>6 DEF processVars, serverVars, sessionVars, MainInv, JobInv
<1> QED
  BY <1>1, <1>2, <1>3, <1>4, <1>5, <1>6, MainSteps

\* A step of another session leaves the UDP handler where it is, and a thread
\* that finishes a PUT for it found it handling a request.
LEMMA UdpUndisturbed ==
  ASSUME MainInv, ServerLike, \A t \in Callers : ~handle_receive(t),
         session'[Udp] \in {"handling", "writing"}
  PROVE  session[Udp] \in {"handling", "writing"}
<1> USE DEF MainInv, JobInv
<1>1. Udp \in Conns
  BY MainAssumption DEF MainAssumption
<1>2. ASSUME NEW t \in Callers, NEW c \in Conns \ {Udp},
             tcp_accept(t, c) \/ tcp_written(t, c) \/ tcp_end(t, c)
      PROVE  session'[Udp] = session[Udp]
  BY <1>1, <1>2 DEF tcp_accept, tcp_written, tcp_end, on_accept, on_write,
                    on_write_error, on_read_eof, on_read_error, do_read, End
<1>3. ASSUME NEW t \in Callers, NEW c \in Conns \ {Udp}, tcp_request(t, c)
      PROVE  session'[Udp] = session[Udp]
  BY <1>1, <1>3
     DEF tcp_request, handle_request, handle_get, handle_delete, handle_head,
         handle_reset, handle_post, handle_other, put_lookup, Reply, send, Occupy
<1>4. ASSUME NEW c \in Conns \ {Udp}, NEW r \in Requests, PeerSend(c, r)
      PROVE  session'[Udp] = session[Udp]
  BY <1>4 DEF PeerSend
<1>5. ASSUME NEW t \in Callers, put_set(t) \/ put_evict(t)
      PROVE  session'[Udp] = session[Udp]
  BY <1>5 DEF put_set, put_evict, sessionVars
<1>6. ASSUME NEW t \in Callers, put_reply(t)
      PROVE  session'[Udp] = session[Udp] \/ session[Udp] = "handling"
  BY <1>1, <1>6 DEF put_reply, send
<1> QED
  BY <1>2, <1>3, <1>4, <1>5, <1>6 DEF ServerLike, continue_put, ContinuePut

\* MainInv is inductive.
LEMMA MainInductive ==
  ASSUME MainInv, [MainNext]_processVars
  PROVE  MainInv'
<1>1. JobInv'
  BY MainKeepsJobs
<1>2. (main = "starting" => ~listening /\ \A c \in Conns : session[c] = "closed")'
  <2> SUFFICES ASSUME main' = "starting"
               PROVE  ~listening' /\ \A c \in Conns : session'[c] = "closed"
    OBVIOUS
  <2>1. ASSUME NEW n, NEW b, NEW f PROVE ~start(n, b, f)
    BY DEF start
  <2>2. main = "starting" \/ UNCHANGED processVars
    BY <2>1 DEF MainNext, mainVars, udpVars, tcp_accept, tcp_request, tcp_written,
                tcp_end, continue_put, handle_receive, handle_receive_error,
                handle_send, async_receive_from, datagram_arrives
  <2>3. CASE UNCHANGED processVars
    BY <2>3 DEF processVars, serverVars, sessionVars, mainVars, MainInv
  <2>4. CASE main = "starting" /\ ~UNCHANGED processVars
    <3>1. /\ ~listening /\ \A c \in Conns : session[c] = "closed"
          /\ Udp \in Conns
      BY <2>4, MainAssumption DEF MainAssumption, MainInv
    <3>2. \A t \in Callers : job[t] = Null
      BY <3>1, StartsIdle DEF MainInv
    <3>3. ASSUME NEW t \in Callers, NEW c \in Conns
          PROVE  ~handle_request(t, c)
      BY <3>1 DEF handle_request, handle_get, handle_delete, handle_head,
                  handle_reset, handle_post, handle_other, put_lookup, OnRead
    <3>4. ASSUME NEW t \in Callers PROVE ~continue_put(t)
      BY <3>2 DEF continue_put, ContinuePut, put_set, put_evict, put_reply
    <3>5. ASSUME NEW t \in Callers, NEW c \in Conns
          PROVE  ~tcp_accept(t, c) /\ ~tcp_written(t, c) /\ ~tcp_end(t, c)
      BY <3>1 DEF tcp_accept, tcp_written, tcp_end, on_write, on_write_error,
                  on_read_eof, on_read_error
    <3>6. ASSUME NEW t \in Callers
          PROVE  ~handle_receive_error(t) /\ ~handle_send(t)
      BY <3>1 DEF handle_receive_error, handle_send, Armed
    <3>7. ~async_receive_from /\ \A d : ~datagram_arrives(d)
      BY <2>4, <3>1 DEF async_receive_from, datagram_arrives, Armed
    <3>8. ASSUME NEW c \in Conns, NEW r PROVE ~PeerSend(c, r)
      BY <3>1 DEF PeerSend
    <3> QED
      BY <2>1, <2>4, <3>1, <3>3, <3>4, <3>5, <3>6, <3>7, <3>8
         DEF MainNext, tcp_request, handle_receive
  <2> QED
    BY <2>2, <2>3, <2>4
<1>3. datagrams' \in Seq(Datagrams) /\ recv_buffer_' \in DatagramRequests
  <2>1. CASE UNCHANGED <<datagrams, recv_buffer_>>
    BY <2>1 DEF MainInv
  <2>2. ASSUME NEW d \in Datagrams, datagram_arrives(d)
        PROVE  datagrams' \in Seq(Datagrams) /\ recv_buffer_' \in DatagramRequests
    BY <2>2 DEF datagram_arrives, MainInv
  <2>3. CASE async_receive_from
    <3>1. Head(datagrams) \in Datagrams
      BY <2>3 DEF async_receive_from, MainInv
    <3> QED
      BY <2>3, <3>1 DEF async_receive_from, MainInv, Datagrams
  <2> QED
    BY <2>1, <2>2, <2>3
       DEF MainNext, processVars, mainVars, udpVars, start, tcp_accept, tcp_request,
           tcp_written, tcp_end, continue_put, handle_receive, handle_receive_error,
           handle_send
<1>4. AnswerGoesToAsker'
  <2> SUFFICES ASSUME session'[Udp] \in {"handling", "writing"}
               PROVE  remote_endpoint_' = asker'
    BY DEF AnswerGoesToAsker
  <2>1. ASSUME NEW t \in Callers, handle_receive(t) PROVE remote_endpoint_' = asker'
    BY <2>1 DEF handle_receive
  <2>2. CASE ServerLike /\ \A t \in Callers : ~handle_receive(t)
    <3>1. remote_endpoint_' = remote_endpoint_ /\ asker' = asker
      BY <2>2 DEF ServerLike, mainVars, udpVars, tcp_accept, tcp_request, tcp_written,
                  tcp_end, continue_put
    <3> QED
      BY <2>2, <3>1, UdpUndisturbed DEF MainInv, AnswerGoesToAsker
  <2>3. Udp \in Conns
    BY MainAssumption DEF MainAssumption
  <2>4. ASSUME NEW t \in Callers PROVE ~UdpStep(t)
    BY <2>3 DEF UdpStep, handle_receive_error, handle_send, End, do_read, MainInv, JobInv
  <2>5. ~async_receive_from
    BY DEF async_receive_from, Armed
  <2>6. ASSUME NEW d, datagram_arrives(d) PROVE remote_endpoint_' = asker'
    BY <2>6 DEF datagram_arrives, sessionVars, MainInv, AnswerGoesToAsker
  <2>7. ASSUME NEW n, NEW b, NEW f, start(n, b, f) PROVE remote_endpoint_' = asker'
    BY <2>3, <2>7 DEF start, udpVars, MainInv, JobInv, AnswerGoesToAsker
  <2>8. CASE UNCHANGED processVars
    BY <2>8 DEF processVars, serverVars, sessionVars, mainVars, udpVars, MainInv,
                AnswerGoesToAsker
  <2> QED
    BY <2>1, <2>2, <2>4, <2>5, <2>6, <2>7, <2>8, MainSteps
<1> QED
  BY <1>1, <1>2, <1>3, <1>4 DEF MainInv

\* MainInv holds in every state of the process, whatever the number of threads,
\* connections and datagrams.
THEOREM MainInvariant == MainSpec => []MainInv
<1>1. MainInit => MainInv
  BY MainAssumption
     DEF MainAssumption, MainInit, ServerInit, MainInv, JobInv, AnswerGoesToAsker
<1> QED
  BY <1>1, MainInductive, PTL DEF MainSpec

\* The UDP handler is not behind a strand as a TCP session is; it is still inside
\* one handler at a time, because it arms one operation at a time.
THEOREM EveryHandlerAlone == MainSpec => []OneThreadPerSession
<1>1. MainInv => OneThreadPerSession
  BY JobAlone DEF MainInv
<1> QED
  BY <1>1, MainInvariant, PTL

\* A datagram that arrives while a request is handled cannot redirect the answer.
THEOREM AnswersReachAsker == MainSpec => []AnswerGoesToAsker
<1>1. MainInv => AnswerGoesToAsker
  BY DEF MainInv
<1> QED
  BY <1>1, MainInvariant, PTL

\* Neither a session nor the UDP handler is left in a handler that nobody runs.
THEOREM MainHandlersRun == MainSpec => []HandlingHasThread
<1>1. MainInit => HandlingHasThread
  BY DEF MainInit, ServerInit, HandlingHasThread
<1>2. ASSUME MainInv, HandlingHasThread, [MainNext]_processVars PROVE HandlingHasThread'
  <2>0. JobInv /\ Udp \in Conns
    BY <1>2, MainAssumption DEF MainAssumption, MainInv
  <2>1. CASE ServerLike
    BY <1>2, <2>0, <2>1, ServerLikeIsServer, ThreadsInductive
  <2>2. ASSUME NEW t \in Callers, UdpStep(t) PROVE HandlingHasThread'
    BY <1>2, <2>0, <2>2, OtherHandlers
       DEF UdpStep, handle_receive_error, handle_send, do_read, End
  <2>3. ASSUME NEW n, NEW b, NEW f, start(n, b, f) PROVE HandlingHasThread'
    BY <1>2, <2>0, <2>3, OtherHandlers DEF start, HandlingHasThread
  <2>4. ASSUME NEW d, datagram_arrives(d) \/ async_receive_from PROVE HandlingHasThread'
    BY <1>2, <2>4 DEF datagram_arrives, async_receive_from, sessionVars, HandlingHasThread
  <2>5. CASE UNCHANGED processVars
    BY <1>2, <2>5 DEF processVars, serverVars, sessionVars, HandlingHasThread
  <2> QED
    BY <1>2, <2>1, <2>2, <2>3, <2>4, <2>5, MainSteps
<1> QED
  BY <1>1, <1>2, MainInvariant, PTL DEF MainSpec

-----------------------------------------------------------------------------
(* The process as a user of the library *)

\* A step of the process is a step of the library or leaves the cache alone.
LEMMA MainStep ==
  ASSUME MainInv, [MainNext]_processVars
  PROVE  [Next]_vars
<1>1. CASE ServerLike
  BY <1>1, ServerLikeIsServer, ServerStep DEF MainInv
<1>2. ASSUME NEW t \in Callers, UdpStep(t) PROVE UNCHANGED vars
  BY <1>2 DEF UdpStep, handle_receive_error, handle_send
<1>3. ASSUME NEW n, NEW b, NEW f, NEW d,
             start(n, b, f) \/ datagram_arrives(d) \/ async_receive_from
      PROVE  UNCHANGED vars
  BY <1>3 DEF start, datagram_arrives, async_receive_from
<1>4. CASE UNCHANGED processVars
  BY <1>4 DEF processVars, serverVars
<1> QED
  BY <1>1, <1>2, <1>3, <1>4, MainSteps

\* TCP sessions and the UDP handler together drive the one Cache object only
\* through the operations of the library.
THEOREM MainUsesLibrary == MainSpec => Spec
<1>1. MainInit => Init
  BY DEF MainInit, ServerInit
<1> QED
  BY <1>1, MainInvariant, MainStep, PTL DEF MainSpec, Spec

\* With one thread, the counter that HEAD reports is exact and the limit holds,
\* through every mix of TCP requests and datagrams.
THEOREM MainSafe ==
  ASSUME SingleCaller, NoWrap
  PROVE  MainSpec => [](Accounting /\ Capacity)
<1>1. Accounting /\ Capacity /\ QueueCoversDict /\ InsertIsFresh => Accounting /\ Capacity
  OBVIOUS
<1> QED
  BY <1>1, SafeCache, MainUsesLibrary, PTL

\* What the steps of the process that are not steps of CacheServer leave alone.
LEMMA OtherMainSteps ==
  ASSUME [MainNext]_processVars
  PROVE  \/ ServerNext
         \/ UNCHANGED <<dict_, call, job, acked, req_>>
         \/ /\ UNCHANGED <<dict_, call, job, acked>>
            /\ \E t \in Callers : Idle(t)
<1>1. CASE ServerLike
  BY <1>1, ServerLikeIsServer
<1>2. ASSUME NEW t \in Callers, UdpStep(t)
      PROVE  Idle(t) /\ UNCHANGED <<dict_, call, job, acked>>
  BY <1>2 DEF UdpStep, handle_receive_error, handle_send, vars
<1>3. ASSUME NEW n, NEW b, NEW f, NEW d,
             start(n, b, f) \/ datagram_arrives(d) \/ async_receive_from
      PROVE  UNCHANGED <<dict_, call, job, acked, req_>>
  BY <1>3 DEF start, datagram_arrives, async_receive_from, vars, sessionVars
<1>4. CASE UNCHANGED processVars
  BY <1>4 DEF processVars, serverVars, vars, sessionVars
<1> QED
  BY <1>1, <1>2, <1>3, <1>4, MainSteps

\* ValueInv is kept by every step of the process.
LEMMA MainKeepsValues ==
  ASSUME Known, ValueInv, [MainNext]_processVars
  PROVE  ValueInv'
<1>1. CASE ServerNext
  BY <1>1, ValueInductive
<1>2. CASE UNCHANGED <<dict_, call, job, acked, req_>>
  BY <1>2, ApartStep
<1>3. ASSUME UNCHANGED <<dict_, call, job, acked>>, NEW t \in Callers, Idle(t)
      PROVE  ValueInv'
  <2>1. /\ acked' \in [Keys -> Values \cup {Null}]
        /\ \A k \in Keys : ValueOf(dict_', k) \in {Null, acked'[k]}
    BY <1>3 DEF ValueInv, NoStaleValue
  <2> QED
    BY <1>3, <2>1, IdleStep
<1> QED
  BY <1>1, <1>2, <1>3, OtherMainSteps

\* With one thread, whatever is known of the server is known of the process.
LEMMA MainFacts ==
  ASSUME SingleCaller, NoWrap
  PROVE  MainSpec => []Facts
<1>1. MainInit => ValueInv
  BY DEF MainInit, ServerInit, Init, ValueInv, PutInv, NoStaleValue, ValueOf
<1>2. MainSpec => [](TypeOK /\ InsertIsFresh /\ Accounting /\ Capacity)
  BY LibraryFacts, MainUsesLibrary, PTL
<1>3. TypeOK /\ InsertIsFresh /\ MainInv => Known
  BY DEF Known, MainInv
<1>4. Known /\ ValueInv /\ [MainNext]_processVars => ValueInv'
  BY MainKeepsValues
<1>5. Known /\ ValueInv /\ Accounting /\ Capacity => Facts
  BY DEF Facts
<1> QED
  BY <1>1, <1>2, <1>3, <1>4, <1>5, MainInvariant, PTL DEF MainSpec

\* Whichever way a request comes, over TCP or as a datagram, it finds the last
\* acknowledged value of its key or none.
THEOREM MainValuesRight ==
  ASSUME SingleCaller, NoWrap
  PROVE  MainSpec => []NoStaleValue
<1>1. Facts => NoStaleValue
  BY DEF Facts, ValueInv
<1> QED
  BY <1>1, MainFacts, PTL

\* Neither a TCP request nor a datagram costs another key its value, except for
\* room that a PUT needs.
THEOREM MainValuesKept ==
  ASSUME SingleCaller, NoWrap
  PROVE  MainSpec => ValueKeptUntilRoomNeeded
<1>1. Facts /\ [MainNext]_processVars => [Kept]_serverVars
  BY OtherMainSteps, ServerKeeps, ApartKeeps
<1>2. MainSpec => [][Kept]_serverVars
  BY <1>1, MainFacts, PTL DEF MainSpec
<1> QED
  BY <1>2 DEF ValueKeptUntilRoomNeeded, Kept, Vanished, RoomNeeded

\* A PUT that is answered, over TCP or as a datagram, has stored its value.
THEOREM MainPutsStore ==
  ASSUME SingleCaller, NoWrap
  PROVE  MainSpec => PutStoresItsValue
<1> DEFINE AllStore == \A t \in Callers : Stores(t)
<1>1. ASSUME Facts, [MainNext]_processVars PROVE [AllStore]_serverVars
  <2>1. ServerNext => AllStore
    BY <1>1, ServerStores DEF Facts
  <2>2. job' = job => AllStore
    BY DEF Stores
  <2> QED
    BY <1>1, <2>1, <2>2, OtherMainSteps
<1>2. MainSpec => [][AllStore]_serverVars
  BY <1>1, MainFacts, PTL DEF MainSpec
<1> QED
  BY <1>2 DEF PutStoresItsValue, Stores

\* However many threads serve both transports, set() is caught in its loop only by
\* a value larger than maxmem or a counter that threads have made wrong.
THEOREM MainSpinsHaveCause == MainSpec => []SpinsForCause
BY SpinsHaveCause, MainUsesLibrary, PTL

\* The process with both transports still gives its users the store that cache.hh
\* promises.
THEOREM MainImplementsStore ==
  ASSUME SingleCaller, NoWrap
  PROVE  MainSpec => ImplementsStore
BY CacheImplementsStore, MainUsesLibrary, PTL

-----------------------------------------------------------------------------
(* Type correctness *)

\* The types that MainInv and TypeOK leave open.
MainRest ==
  /\ RestTypeOK
  /\ main \in {"starting", "running", "exited"}
  /\ listening \in BOOLEAN
  /\ remote_endpoint_ \in Senders \cup {Null}
  /\ asker \in Senders \cup {Null}

\* MainRest is inductive, together with TypeOK and MainInv.
LEMMA MainRestInductive ==
  ASSUME TypeOK, MainInv, MainRest, [MainNext]_processVars
  PROVE  MainRest'
<1>1. CASE ServerLike
  <2>1. RestTypeOK'
    BY <1>1, ServerLikeIsServer, RestInductive DEF MainInv, MainRest
  <2>2. /\ UNCHANGED <<main, listening, remote_endpoint_>>
        /\ asker' \in {asker, remote_endpoint_}
    BY <1>1 DEF ServerLike, mainVars, udpVars, tcp_accept, tcp_request, tcp_written,
                tcp_end, continue_put, handle_receive
  <2> QED
    BY <2>1, <2>2 DEF MainRest
<1>2. ASSUME NEW t \in Callers, UdpStep(t) PROVE MainRest'
  <2>1. /\ res_' = [res_ EXCEPT ![Udp] = Null]
        /\ UNCHANGED <<sent, acked, main, listening, remote_endpoint_, asker>>
    BY <1>2 DEF UdpStep, handle_receive_error, handle_send, End, do_read, mainVars, udpVars
  <2>2. \E s \in {"reading", "closed"} : session' = [session EXCEPT ![Udp] = s]
    BY <1>2 DEF UdpStep, handle_receive_error, handle_send, End, do_read
  <2> QED
    BY <2>1, <2>2 DEF MainInv, JobInv, MainRest, RestTypeOK, ResponsesOK
<1>3. ASSUME NEW n, NEW b, NEW f, start(n, b, f) PROVE MainRest'
  <2>1. \A c \in Conns : session'[c] = "writing" => session[c] = "writing"
    BY <1>3 DEF start, MainInv, JobInv
  <2> QED
    BY <1>3, <2>1 DEF start, udpVars, MainRest, RestTypeOK, ResponsesOK
<1>4. ASSUME NEW d \in Datagrams, datagram_arrives(d) PROVE MainRest'
  <2>1. sent' \in 0 .. MaxRequests
    BY <1>4, ServerAssumption DEF ServerAssumption, datagram_arrives, MainRest, RestTypeOK
  <2> QED
    BY <1>4, <2>1 DEF datagram_arrives, sessionVars, MainRest, RestTypeOK, ResponsesOK
<1>5. CASE async_receive_from
  <2>1. Head(datagrams) \in Datagrams
    BY <1>5 DEF async_receive_from, MainInv
  <2> QED
    BY <1>5, <2>1 DEF async_receive_from, Datagrams, MainRest, RestTypeOK, ResponsesOK
<1>6. CASE UNCHANGED processVars
  BY <1>6 DEF processVars, serverVars, sessionVars, mainVars, udpVars, MainRest,
              RestTypeOK, ResponsesOK
<1> QED
  BY <1>1, <1>2, <1>3, <1>4, <1>5, <1>6, MainSteps

\* Type correctness of the process, for any threads, connections and datagrams.
THEOREM MainTypeCorrect == MainSpec => []MainTypeOK
<1>1. MainInit => MainRest /\ evictor_
  <2> SUFFICES ASSUME MainInit PROVE MainRest /\ evictor_
    OBVIOUS
  <2>1. RestTypeOK
    BY ServerAssumption DEF ServerAssumption, MainInit, ServerInit, RestTypeOK,
                                 ResponsesOK
  <2>2. evictor_
    BY Zenon DEF MainInit, ServerInit
  <2>3. MainRest
    BY <2>1 DEF MainInit, MainRest
  <2> QED
    BY <2>2, <2>3
<1>2. TypeOK /\ MainInv /\ MainRest /\ [MainNext]_processVars => MainRest'
  BY MainRestInductive
<1>3. MainInv /\ evictor_ /\ [MainNext]_processVars => evictor_'
  BY MainStep, EvictorStays
<1>4. MainSpec => []TypeOK
  BY TypeCorrect, MainUsesLibrary, PTL
<1>5. TypeOK /\ evictor_ /\ MainInv /\ MainRest => MainTypeOK
  BY DEF MainInv, JobInv, MainRest, RestTypeOK, ResponsesOK, ServerTypeOK, MainTypeOK
<1> QED
  BY <1>1, <1>2, <1>3, <1>4, <1>5, MainInvariant, PTL DEF MainSpec

=============================================================================
