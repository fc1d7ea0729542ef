------------------------- MODULE CacheClientProofs -------------------------
(***************************************************************************)
(* Proofs about the networked clients: whatever breaks, a client never     *)
(* takes a response for the answer to another call, the request that waits *)
(* at the server says what the call said, and the clients together are     *)
(* users of the one library object.  Any number of clients, threads, keys  *)
(* and values, the strings of any length.                                  *)
(***************************************************************************)
EXTENDS CacheClient, ServerValueProofs, SequenceTheorems

\* What holds at both ends of the connection of the object on c.
LinkInv(c) ==
  /\ session[c] = "closed" /\ c \notin backlog => inbox[c] = <<>>
  /\ c \in backlog => session[c] = "closed"
  /\ link[c] # "up" => incoming[c] = <<>>
  /\ link[c] = "none" => asked[c] = Null
  /\ link[c] = "up" => InFlight(c) <= (IF asked[c] = Null THEN 0 ELSE 1)

ClientInv ==
  /\ TypeOK /\ RestTypeOK /\ JobInv
  /\ link \in [Conns -> {"none", "up", "broken", "silent"}]
  /\ backlog \subseteq Conns
  /\ asked \in [Conns -> Calls \cup {Null}]
  /\ incoming \in [Conns -> Seq(Responses)]
  /\ \A c \in Conns : LinkInv(c)

\* A call sends a request the server can parse.
LEMMA RequestSent ==
  ASSUME NEW a \in Calls
  PROVE  prep_req(a) \in Requests
<1>0. TRUE \in BOOLEAN
  OBVIOUS
<1>1. CASE a.method = "set"
  <2>1. a.key \in CallKeys /\ a.val \in CallValues
    BY <1>1 DEF Calls
  <2>2. prep_req(a) = [method |-> "put", keep_alive |-> TRUE,
                       key |-> PutKeyOf(PutTarget(a.key, a.val)),
                       val |-> PutValOf(PutTarget(a.key, a.val))]
    BY <1>1 DEF prep_req
  <2> QED
    BY <1>0, <2>1, <2>2, ClientAssumption DEF ClientAssumption, Requests, PutRequests
<1>2. CASE a.method \in {"get", "del"}
  <2>1. a.key \in CallKeys
    BY <1>2 DEF Calls
  <2>2. prep_req(a) = Keyed("get", KeyOf(KeyTarget(a.key)))
        \/ prep_req(a) = Keyed("delete", KeyOf(KeyTarget(a.key)))
    BY <1>2 DEF prep_req
  <2>3. \A k \in Keys : Keyed("get", k) \in Requests /\ Keyed("delete", k) \in Requests
    BY <1>0 DEF Requests, Keyed
  <2> QED
    BY <2>1, <2>2, <2>3, ClientAssumption DEF ClientAssumption
<1>3. CASE a.method \in {"space_used", "reset", "destroy"}
  <2>1. prep_req(a) = Bare("head") \/ prep_req(a) = Bare("reset")
    BY <1>3 DEF prep_req
  <2>2. Bare("head") \in Requests /\ Bare("reset") \in Requests
    BY <1>0 DEF Requests, Bare
  <2> QED
    BY <2>1, <2>2
<1> QED
  BY <1>1, <1>2, <1>3 DEF Calls

\* The steps of a session that are also CacheServer's.
SessionStep ==
  \/ \E t \in Callers, c \in Conns :
       request_served(t, c) \/ session_ends(t, c) \/ accept(t, c) \/ response_written(t, c)
  \/ \E t \in Callers : put_continues(t)

\* The steps of an object and its connection, other than the beginning of a call.
OwnStep(c) ==
  \/ construct(c) \/ response_read(c) \/ exchange_fails(c)
  \/ link_breaks(c) \/ link_noticed(c)

\* Every step is one of these.
LEMMA ClientSteps ==
  ASSUME [ClientNext]_systemVars
  PROVE  \/ SessionStep
         \/ \E c \in Conns, a \in Calls : call_begins(c, a)
         \/ \E c \in Conns : OwnStep(c)
         \/ UNCHANGED systemVars
BY ClientAssumption, Zenon DEF ClientAssumption, ClientNext, SessionStep, OwnStep

\* An object's own steps leave the server alone.
LEMMA OwnStepApart ==
  ASSUME NEW c \in Conns, OwnStep(c)
  PROVE  UNCHANGED serverVars
BY DEF OwnStep, construct, response_read, exchange_fails, link_breaks, link_noticed,
       call_returns

\* These steps are steps of CacheServer.
LEMMA SessionStepIsServer ==
  ASSUME SessionStep
  PROVE  ServerNext
BY DEF SessionStep, ServerNext, request_served, session_ends, accept,
       response_written, put_continues

\* JobInv is kept: a client's own steps only put a request into an inbox.
LEMMA ClientKeepsJobs ==
  ASSUME ClientInv, [ClientNext]_systemVars
  PROVE  JobInv'
<1>1. CASE SessionStep
  BY <1>1, SessionStepIsServer, JobInductive DEF ClientInv
<1>2. ASSUME NEW c \in Conns, NEW a \in Calls, call_begins(c, a) PROVE JobInv'
  <2>1. inbox[c] \in Seq(Requests) /\ prep_req(a) \in Requests
    BY RequestSent DEF ClientInv, JobInv
  <2>2. Append(inbox[c], prep_req(a)) \in Seq(Requests)
    BY <2>1
  <2>3. inbox' = [inbox EXCEPT ![c] = Append(@, prep_req(a))] \/ inbox' = inbox
    BY <1>2, Zenon DEF call_begins
  <2>4. inbox' \in [Conns -> Seq(Requests)]
    BY <2>2, <2>3 DEF ClientInv, JobInv
  <2> QED
    BY <1>2, <2>4 DEF call_begins, ClientInv, JobInv
<1>3. ASSUME NEW c \in Conns, OwnStep(c) PROVE JobInv'
  <2>1. UNCHANGED serverVars
    BY <1>3, OwnStepApart
  <2> QED
    BY <2>1 DEF serverVars, sessionVars, ClientInv, JobInv
<1>4. CASE UNCHANGED systemVars
  BY <1>4 DEF systemVars, serverVars, sessionVars, ClientInv, JobInv
<1> QED
  BY <1>1, <1>2, <1>3, <1>4, ClientSteps

\* A connection none of whose parts changes.
LEMMA LinkUntouched ==
  ASSUME NEW d \in Conns, LinkInv(d),
         session'[d] = session[d], inbox'[d] = inbox[d], link'[d] = link[d],
         d \in backlog' <=> d \in backlog,
         asked'[d] = asked[d], incoming'[d] = incoming[d]
  PROVE  LinkInv(d)'
BY DEF LinkInv, InFlight

\* A sequence without elements is the empty one.
LEMMA NoElements ==
  ASSUME NEW S, NEW q \in Seq(S), Len(q) = 0
  PROVE  q = <<>>
OBVIOUS

\* The parts of InFlight.
Waiting(c) == Len(inbox[c])
Arrived(c) == Len(incoming[c])
Busy(c) == IF session[c] \in {"handling", "writing"} THEN 1 ELSE 0

\* The lengths of the queues.
LEMMA QueueLengths ==
  ASSUME ClientInv, NEW c \in Conns
  PROVE  /\ Waiting(c) \in Nat /\ Arrived(c) \in Nat /\ Busy(c) \in {0, 1}
         /\ inbox[c] = <<>> <=> Waiting(c) = 0
         /\ incoming[c] = <<>> <=> Arrived(c) = 0
         /\ inbox[c] # <<>> => Len(Tail(inbox[c])) = Waiting(c) - 1
         /\ incoming[c] # <<>> => Len(Tail(incoming[c])) = Arrived(c) - 1
         /\ InFlight(c) = Waiting(c) + Arrived(c) + Busy(c)
         /\ InFlight(c) \in Nat
<1>1. inbox[c] \in Seq(Requests) /\ incoming[c] \in Seq(Responses)
  BY DEF ClientInv, JobInv
<1>2. /\ Waiting(c) \in Nat /\ Arrived(c) \in Nat
      /\ inbox[c] = <<>> <=> Waiting(c) = 0
      /\ incoming[c] = <<>> <=> Arrived(c) = 0
      /\ inbox[c] # <<>> => Len(Tail(inbox[c])) = Waiting(c) - 1
      /\ incoming[c] # <<>> => Len(Tail(incoming[c])) = Arrived(c) - 1
  BY <1>1 DEF Waiting, Arrived
<1>3. Busy(c) \in {0, 1}
  BY DEF Busy
<1>4. InFlight(c) = Waiting(c) + Arrived(c) + Busy(c)
  BY DEF InFlight, Waiting, Arrived, Busy
<1> QED
  BY <1>2, <1>3, <1>4

\* The same sum in the next state.
LEMMA NextInFlight ==
  ASSUME NEW c \in Conns
  PROVE  InFlight(c)' = Waiting(c)' + Arrived(c)' + Busy(c)'
BY DEF InFlight, Waiting, Arrived, Busy

\* A request is taken out of the stream and answered, or a PUT of it begins.
LEMMA ServedKeepsLinks ==
  ASSUME ClientInv, NEW t \in Callers, NEW c \in Conns, request_served(t, c),
         NEW d \in Conns
  PROVE  LinkInv(d)'
<1>1. /\ inbox[c] # <<>> /\ session[c] = "reading"
      /\ inbox' = [inbox EXCEPT ![c] = Tail(@)]
      /\ \E s \in {"handling", "writing"} : session' = [session EXCEPT ![c] = s]
      /\ UNCHANGED clientVars
  BY DEF request_served, handle_request, handle_get, handle_delete, handle_head,
         handle_reset, handle_post, handle_other, put_lookup, OnRead, Reply, TakeRequest,
         send, Occupy
<1>2. LinkInv(d) /\ LinkInv(c)
  BY DEF ClientInv
<1>3. CASE d # c
  BY <1>1, <1>2, <1>3, LinkUntouched DEF clientVars, ClientInv, JobInv
<1>4. CASE d = c
  <2>1. inbox'[c] = Tail(inbox[c]) /\ session'[c] \in {"handling", "writing"}
    BY <1>1 DEF ClientInv, JobInv
  <2>2. InFlight(c)' = InFlight(c)
    <3>1. Waiting(c)' = Waiting(c) - 1
      BY <1>1, <2>1, QueueLengths DEF Waiting
    <3>2. Arrived(c)' = Arrived(c) /\ Busy(c) = 0 /\ Busy(c)' = 1
      BY <1>1, <2>1 DEF clientVars, Arrived, Busy
    <3> QED
      BY <3>1, <3>2, QueueLengths, NextInFlight
  <2> QED
    BY <1>1, <1>2, <1>4, <2>1, <2>2 DEF clientVars, LinkInv
<1> QED
  BY <1>3, <1>4

\* A PUT goes on: its session is handling, and is writing at the end.
LEMMA PutKeepsLinks ==
  ASSUME ClientInv, NEW t \in Callers, put_continues(t), NEW d \in Conns
  PROVE  LinkInv(d)'
<1>1. inbox' = inbox /\ UNCHANGED clientVars /\ LinkInv(d)
  BY DEF put_continues, ContinuePut, put_set, put_evict, put_reply, sessionVars, ClientInv
<1>2. session'[d] = session[d] \/ (session[d] = "handling" /\ session'[d] = "writing")
  <2>1. CASE put_set(t) \/ put_evict(t)
    BY <2>1 DEF put_set, put_evict, sessionVars
  <2>2. CASE put_reply(t)
    <3>1. job[t] # Null /\ session' = [session EXCEPT ![job[t].conn] = "writing"]
      BY <2>2 DEF put_reply, send
    <3>2. session[job[t].conn] = "handling"
      BY <3>1 DEF ClientInv, JobInv
    <3> QED
      BY <3>1, <3>2 DEF ClientInv, JobInv
  <2> QED
    BY <2>1, <2>2 DEF put_continues, ContinuePut
<1> QED
  BY <1>1, <1>2 DEF clientVars, LinkInv, InFlight

\* A step of a session and its connection touches no other.
LEMMA SessionTouchesOne ==
  ASSUME ClientInv, NEW t \in Callers, NEW c \in Conns,
         response_written(t, c) \/ session_ends(t, c) \/ accept(t, c)
  PROVE  /\ asked' = asked /\ link' = link
         /\ \A e \in Conns \ {c} : /\ session'[e] = session[e] /\ inbox'[e] = inbox[e]
                                   /\ incoming'[e] = incoming[e]
                                   /\ e \in backlog' <=> e \in backlog
<1>1. do_read(c) \/ End(c)
  BY DEF response_written, session_ends, accept, on_write, on_write_error,
         on_read_error, on_read_eof, on_accept
<1>2. \A e \in Conns \ {c} : session'[e] = session[e] /\ inbox'[e] = inbox[e]
  BY <1>1 DEF do_read, End, ClientInv, JobInv
<1>3. backlog' = backlog \/ backlog' = backlog \ {c}
  BY DEF response_written, session_ends, accept, clientVars
<1>4. incoming' = incoming \/ incoming' = [incoming EXCEPT ![c] = Append(@, res_[c])]
  BY Zenon DEF response_written, session_ends, accept, clientVars
<1>5. \A e \in Conns \ {c} : incoming'[e] = incoming[e]
  BY <1>4 DEF ClientInv
<1>6. asked' = asked /\ link' = link
  BY DEF response_written, session_ends, accept, clientVars
<1> QED
  BY <1>2, <1>3, <1>5, <1>6

\* A response leaves the server, or the session ends.
LEMMA SessionKeepsLinks ==
  ASSUME ClientInv, NEW t \in Callers, NEW c \in Conns, NEW d \in Conns,
         response_written(t, c) \/ session_ends(t, c) \/ accept(t, c)
  PROVE  LinkInv(d)'
<1>0. LinkInv(d) /\ LinkInv(c)
  BY DEF ClientInv
<1>1. /\ asked' = asked /\ link' = link
      /\ \A e \in Conns \ {c} : /\ session'[e] = session[e] /\ inbox'[e] = inbox[e]
                                /\ incoming'[e] = incoming[e]
                                /\ e \in backlog' <=> e \in backlog
  BY SessionTouchesOne, Zenon
<1>2. CASE d # c
  BY <1>0, <1>1, <1>2, LinkUntouched
<1>3. CASE accept(t, c) /\ d = c
  <2>1. /\ session[c] = "closed" /\ inbox' = inbox /\ session' = [session EXCEPT ![c] = "reading"]
        /\ backlog' = backlog \ {c} /\ UNCHANGED <<link, asked, incoming>>
    BY <1>3 DEF accept, on_accept, do_read
  <2>2. session'[c] = "reading"
    BY <2>1 DEF ClientInv, JobInv
  <2>3. InFlight(c)' = InFlight(c)
    BY <2>1, <2>2 DEF InFlight
  <2> QED
    BY <1>0, <1>3, <2>1, <2>2, <2>3 DEF LinkInv
<1>4. CASE session_ends(t, c) /\ d = c
  <2>1. /\ session' = [session EXCEPT ![c] = "closed"] /\ inbox' = [inbox EXCEPT ![c] = <<>>]
        /\ UNCHANGED clientVars
    BY <1>4 DEF session_ends, on_read_error, on_read_eof, End
  <2>2. session'[c] = "closed" /\ inbox'[c] = <<>>
    BY <2>1 DEF ClientInv, JobInv
  <2>3. InFlight(c)' \in Nat /\ InFlight(c)' <= InFlight(c) /\ InFlight(c) \in Nat
    <3>1. Waiting(c)' = 0 /\ Arrived(c)' = Arrived(c) /\ Busy(c)' = 0
      BY <2>1, <2>2 DEF clientVars, Waiting, Arrived, Busy
    <3>2. InFlight(c)' = 0 + Arrived(c) + 0
      BY <3>1, NextInFlight
    <3> QED
      BY <3>2, QueueLengths
  <2> QED
    BY <1>0, <1>4, <2>1, <2>2, <2>3 DEF clientVars, LinkInv
<1>5. CASE response_written(t, c) /\ d = c
  <2>1. session[c] = "writing" /\ UNCHANGED <<link, backlog, asked>>
    BY <1>5 DEF response_written, on_write, on_write_error
  <2>2. \/ session'[c] = "reading" /\ inbox'[c] = inbox[c]
        \/ session'[c] = "closed" /\ inbox'[c] = <<>>
    <3>1. do_read(c) \/ End(c)
      BY <1>5 DEF response_written, on_write, on_write_error
    <3> QED
      BY <3>1 DEF do_read, End, ClientInv, JobInv
  <2>3. \/ incoming'[c] = incoming[c]
        \/ link[c] = "up" /\ incoming'[c] = Append(incoming[c], res_[c])
    <3>1. \/ incoming' = incoming
          \/ link[c] = "up" /\ incoming' = [incoming EXCEPT ![c] = Append(@, res_[c])]
      BY <1>5, Zenon DEF response_written
    <3> QED
      BY <3>1 DEF ClientInv
  <2>4. Len(Append(incoming[c], res_[c])) = Len(incoming[c]) + 1
    <3>1. incoming[c] \in Seq(Responses) /\ res_[c] \in Responses
      BY <2>1 DEF ClientInv, RestTypeOK, ResponsesOK
    <3> QED
      BY <3>1
  <2>5. InFlight(c)' <= InFlight(c) /\ InFlight(c) \in Nat /\ InFlight(c)' \in Nat
    <3>1. Busy(c) = 1 /\ Busy(c)' = 0
      BY <2>1, <2>2 DEF Busy
    <3>2. Waiting(c)' \in {0, Waiting(c)}
      BY <2>2, QueueLengths DEF Waiting
    <3>3. Arrived(c)' \in {Arrived(c), Arrived(c) + 1}
      BY <2>3, <2>4 DEF Arrived
    <3> QED
      BY <3>1, <3>2, <3>3, QueueLengths, NextInFlight
  <2> QED
    BY <1>0, <1>5, <2>1, <2>2, <2>3, <2>5 DEF LinkInv
<1> QED
  BY <1>2, <1>3, <1>4, <1>5

\* A call begins with nothing under way.
LEMMA BeginKeepsLinks ==
  ASSUME ClientInv, NEW c \in Conns, NEW a \in Calls, call_begins(c, a), NEW d \in Conns
  PROVE  LinkInv(d)'
<1>1. /\ link[c] # "none" /\ asked[c] = Null /\ asked' = [asked EXCEPT ![c] = a]
      /\ UNCHANGED <<session, link, backlog, incoming>>
  BY DEF call_begins, Awaited
<1>2. \/ inbox' = inbox
      \/ /\ session[c] # "closed" \/ c \in backlog
         /\ inbox' = [inbox EXCEPT ![c] = Append(@, prep_req(a))]
  BY Zenon DEF call_begins
<1>3. LinkInv(d) /\ LinkInv(c) /\ a # Null
  <2>1. Null \notin Calls
    BY ClientAssumption DEF ClientAssumption
  <2> QED
    BY <2>1 DEF ClientInv
<1>4. CASE d # c
  BY <1>1, <1>2, <1>3, <1>4, LinkUntouched DEF ClientInv, JobInv
<1>5. CASE d = c
  <2>1. Len(Append(inbox[c], prep_req(a))) = Len(inbox[c]) + 1
        /\ Append(inbox[c], prep_req(a)) # <<>>
    <3>1. inbox[c] \in Seq(Requests) /\ prep_req(a) \in Requests
      BY RequestSent DEF ClientInv, JobInv
    <3> QED
      BY <3>1
  <2>2. \/ inbox'[c] = inbox[c]
        \/ /\ session[c] # "closed" \/ c \in backlog
           /\ inbox'[c] = Append(inbox[c], prep_req(a))
    BY <1>2 DEF ClientInv, JobInv
  <2>3. asked'[c] # Null
    BY <1>1, <1>3 DEF ClientInv
  <2>4. InFlight(c) \in Nat /\ InFlight(c)' \in Nat /\ InFlight(c)' <= InFlight(c) + 1
    <3>1. Busy(c)' = Busy(c) /\ Arrived(c)' = Arrived(c)
      BY <1>1 DEF Busy, Arrived
    <3>2. Waiting(c)' \in {Waiting(c), Waiting(c) + 1}
      BY <2>1, <2>2 DEF Waiting
    <3>3. InFlight(c)' = Waiting(c)' + Arrived(c) + Busy(c)
      BY <3>1, NextInFlight
    <3>4. /\ Waiting(c) \in Nat /\ Arrived(c) \in Nat /\ Busy(c) \in {0, 1}
          /\ InFlight(c) = Waiting(c) + Arrived(c) + Busy(c)
      BY QueueLengths
    <3>5. CASE Waiting(c)' = Waiting(c)
      BY <3>3, <3>4, <3>5
    <3>6. CASE Waiting(c)' = Waiting(c) + 1
      BY <3>3, <3>4, <3>6
    <3> QED
      BY <3>2, <3>5, <3>6
  <2> QED
    BY <1>1, <1>3, <1>5, <2>2, <2>3, <2>4 DEF LinkInv
<1> QED
  BY <1>4, <1>5

\* A call returns with nothing under way, a connection is opened with nothing
\* under way, and nothing arrives over one that is lost.
LEMMA ReturnKeepsLinks ==
  ASSUME ClientInv, NEW c \in Conns, NEW d \in Conns, OwnStep(c)
  PROVE  LinkInv(d)'
<1>0. UNCHANGED serverVars /\ LinkInv(d) /\ LinkInv(c)
  BY OwnStepApart DEF ClientInv
<1>1. CASE link_breaks(c) \/ link_noticed(c)
  <2>1. /\ link[c] # "none"
        /\ \E l \in {"broken", "silent"} : link' = [link EXCEPT ![c] = l]
        /\ incoming' = incoming \/ incoming' = [incoming EXCEPT ![c] = <<>>]
        /\ incoming'[c] = <<>> /\ asked' = asked /\ backlog' = backlog
    BY <1>0, <1>1 DEF link_breaks, link_noticed, LinkInv, ClientInv
  <2>2. CASE d # c
    BY <1>0, <2>1, <2>2, LinkUntouched DEF serverVars, sessionVars, ClientInv
  <2>3. CASE d = c
    BY <1>0, <2>1, <2>3 DEF serverVars, sessionVars, ClientInv, LinkInv
  <2> QED
    BY <2>2, <2>3
<1>2. CASE construct(c)
  <2>1. /\ link[c] = "none" /\ session[c] = "closed" /\ c \notin backlog
        /\ link' = [link EXCEPT ![c] = "up"] /\ backlog' = backlog \cup {c}
        /\ UNCHANGED <<asked, incoming>>
    BY <1>2 DEF construct
  <2>2. CASE d # c
    BY <1>0, <2>1, <2>2, LinkUntouched DEF serverVars, sessionVars, ClientInv
  <2>3. CASE d = c
    <3>1. /\ inbox'[c] = <<>> /\ incoming'[c] = <<>> /\ asked'[c] = Null
          /\ session'[c] = "closed"
      BY <1>0, <2>1 DEF serverVars, sessionVars, LinkInv
    <3> QED
      BY <2>1, <2>3, <3>1 DEF LinkInv, InFlight
  <2> QED
    BY <2>2, <2>3
<1>3. CASE response_read(c) \/ exchange_fails(c)
  <2>1. /\ asked[c] # Null /\ asked' = [asked EXCEPT ![c] = Null] /\ backlog' = backlog
        /\ link' = link \/ link' = [link EXCEPT ![c] = "none"]
    BY <1>3, Zenon DEF response_read, exchange_fails, call_returns
  <2>2. \/ incoming[c] # <<>> /\ incoming' = [incoming EXCEPT ![c] = Tail(@)]
        \/ Lost(c) /\ incoming' = incoming
    BY <1>3 DEF response_read, exchange_fails
  <2>3. CASE d # c
    BY <1>0, <2>1, <2>2, <2>3, LinkUntouched DEF serverVars, sessionVars, ClientInv
  <2>4. CASE d = c
    <3>1. /\ session'[c] = session[c] /\ inbox'[c] = inbox[c] /\ asked'[c] = Null
          /\ link'[c] = link[c] \/ link'[c] = "none"
      BY <1>0, <2>1 DEF serverVars, sessionVars, ClientInv
    <3>2. InFlight(c) \in Nat
      BY QueueLengths
    <3>3. CASE incoming[c] # <<>> /\ incoming' = [incoming EXCEPT ![c] = Tail(@)]
      <4>1. incoming'[c] = Tail(incoming[c]) /\ link[c] = "up"
        BY <1>0, <3>3 DEF ClientInv, LinkInv
      <4>2. Arrived(c)' = 0 /\ InFlight(c)' = 0
        <5>1. Waiting(c)' = Waiting(c) /\ Busy(c)' = Busy(c)
          BY <3>1 DEF Waiting, Busy
        <5>2. Arrived(c)' = Arrived(c) - 1 /\ Arrived(c) # 0
          BY <3>3, <4>1, QueueLengths DEF Arrived
        <5>3. InFlight(c) <= 1
          BY <1>0, <2>1, <4>1 DEF LinkInv
        <5> QED
          BY <5>1, <5>2, <5>3, QueueLengths, NextInFlight
      <4>3. incoming'[c] = <<>>
        <5>1. incoming[c] \in Seq(Responses)
          BY DEF ClientInv
        <5>2. Tail(incoming[c]) \in Seq(Responses)
          BY <3>3, <5>1
        <5> QED
          <6>1. Len(Tail(incoming[c])) = 0
            BY <4>1, <4>2 DEF Arrived
          <6>2. Tail(incoming[c]) = <<>>
            BY <5>2, <6>1, NoElements
          <6> QED
            BY <4>1, <6>2
      <4> QED
        BY <1>0, <2>1, <2>4, <3>1, <4>2, <4>3 DEF LinkInv
    <3>4. CASE Lost(c) /\ incoming' = incoming
      <4>1. incoming[c] = <<>>
        BY <1>0, <3>4 DEF Lost, LinkInv
      <4>2. link'[c] = "up" => InFlight(c)' = 0
        <5> SUFFICES ASSUME link'[c] = "up" PROVE InFlight(c)' = 0
          OBVIOUS
        <5>1. session[c] = "closed" /\ inbox[c] = <<>>
          BY <1>0, <2>1, <3>1, <3>4 DEF Lost, LinkInv
        <5>2. Busy(c)' = 0 /\ Arrived(c)' = Arrived(c) /\ Waiting(c)' = Waiting(c)
          BY <3>1, <3>4, <5>1 DEF Busy, Arrived, Waiting
        <5> QED
          BY <4>1, <5>1, <5>2, QueueLengths, NextInFlight
      <4> QED
        BY <1>0, <2>1, <2>4, <3>1, <3>4, <4>1, <4>2 DEF LinkInv
    <3> QED
      BY <2>2, <3>3, <3>4
  <2> QED
    BY <2>3, <2>4
<1> QED
  BY <1>1, <1>2, <1>3 DEF OwnStep

-----------------------------------------------------------------------------
(* The invariant *)

\* Seen from the cache, a step of the clients and the server is a step of CacheLib.
LEMMA ClientStep ==
  ASSUME ClientInv, [ClientNext]_systemVars
  PROVE  [Next]_vars
<1>1. CASE SessionStep
  BY <1>1, SessionStepIsServer, ServerStep DEF ClientInv
<1>2. ASSUME NEW c \in Conns, NEW a \in Calls, call_begins(c, a) PROVE UNCHANGED vars
  BY <1>2 DEF call_begins
<1>3. ASSUME NEW c \in Conns, OwnStep(c) PROVE UNCHANGED vars
  BY <1>3, OwnStepApart DEF serverVars
<1>4. CASE UNCHANGED systemVars
  BY <1>4 DEF systemVars, serverVars
<1> QED
  BY <1>1, <1>2, <1>3, <1>4, ClientSteps

\* The types in ClientInv are kept by every step.
LEMMA ClientTypes ==
  ASSUME ClientInv, [ClientNext]_systemVars
  PROVE  /\ TypeOK' /\ RestTypeOK'
         /\ link' \in [Conns -> {"none", "up", "broken", "silent"}]
         /\ backlog' \subseteq Conns
         /\ asked' \in [Conns -> Calls \cup {Null}]
         /\ incoming' \in [Conns -> Seq(Responses)]
<1> DEFINE LinksTyped(l, b, a, q) == /\ l \in [Conns -> {"none", "up", "broken", "silent"}]
                                     /\ b \subseteq Conns
                                     /\ a \in [Conns -> Calls \cup {Null}]
                                     /\ q \in [Conns -> Seq(Responses)]
<1>1. TypeOK'
  BY ClientStep, TypeInductive DEF ClientInv
<1>2. LinksTyped(link, backlog, asked, incoming)
  BY DEF ClientInv
<1>3. CASE SessionStep
  <2>1. RestTypeOK'
    BY <1>3, SessionStepIsServer, RestInductive DEF ClientInv
  <2>2. link' \in [Conns -> {"none", "up", "broken", "silent"}] /\ asked' = asked
        /\ backlog' \subseteq Conns
    BY <1>2, <1>3 DEF SessionStep, request_served, session_ends, accept,
                      response_written, put_continues, clientVars
  <2>3. \/ incoming' = incoming
        \/ \E c \in Conns : /\ session[c] = "writing"
                            /\ incoming' = [incoming EXCEPT ![c] = Append(@, res_[c])]
    BY <1>3, Zenon DEF SessionStep, request_served, session_ends, accept,
                response_written, put_continues, clientVars, on_write
  <2>4. \A c \in Conns : session[c] = "writing" => Append(incoming[c], res_[c]) \in Seq(Responses)
    <3> SUFFICES ASSUME NEW c \in Conns, session[c] = "writing"
                 PROVE  Append(incoming[c], res_[c]) \in Seq(Responses)
      OBVIOUS
    <3>1. incoming[c] \in Seq(Responses) /\ res_[c] \in Responses
      BY DEF ClientInv, RestTypeOK, ResponsesOK
    <3> QED
      BY <3>1
  <2>5. incoming' \in [Conns -> Seq(Responses)]
    BY <1>2, <2>3, <2>4
  <2> QED
    BY <1>1, <1>2, <2>1, <2>2, <2>5
<1>4. ASSUME NEW c \in Conns, NEW a \in Calls, call_begins(c, a)
      PROVE  RestTypeOK' /\ LinksTyped(link', backlog', asked', incoming')
  <2>1. res_' = res_ /\ acked' = acked /\ sent' \in 0 .. MaxRequests
    BY <1>4, ServerAssumption DEF ServerAssumption, call_begins, ClientInv, RestTypeOK
  <2>2. RestTypeOK'
    BY <1>4, <2>1 DEF call_begins, ClientInv, RestTypeOK, ResponsesOK
  <2> QED
    BY <1>2, <1>4, <2>2 DEF call_begins, Awaited
<1>5. ASSUME NEW c \in Conns, OwnStep(c)
      PROVE  RestTypeOK' /\ LinksTyped(link', backlog', asked', incoming')
  <2>1. UNCHANGED <<session, res_, sent, acked>>
    BY <1>5, OwnStepApart DEF serverVars, sessionVars
  <2>2. RestTypeOK'
    BY <2>1 DEF ClientInv, RestTypeOK, ResponsesOK
  <2>3. link' \in [Conns -> {"none", "up", "broken", "silent"}] /\ asked' \in [Conns -> Calls \cup {Null}]
        /\ backlog' \subseteq Conns
    BY <1>2, <1>5 DEF OwnStep, construct, response_read, exchange_fails, link_breaks,
                      link_noticed, call_returns
  <2>4. incoming[c] # <<>> => Tail(incoming[c]) \in Seq(Responses)
    <3>1. incoming[c] \in Seq(Responses)
      BY <1>2
    <3> QED
      BY <3>1
  <2>5. incoming' \in [Conns -> Seq(Responses)]
    <3>1. \/ incoming' = incoming
          \/ incoming' = [incoming EXCEPT ![c] = <<>>]
          \/ incoming[c] # <<>> /\ incoming' = [incoming EXCEPT ![c] = Tail(@)]
      BY <1>5 DEF OwnStep, construct, response_read, exchange_fails, link_breaks, link_noticed
    <3>2. <<>> \in Seq(Responses)
      OBVIOUS
    <3> QED
      BY <1>2, <2>4, <3>1, <3>2
  <2> QED
    BY <2>2, <2>3, <2>5
<1>6. CASE UNCHANGED systemVars
  BY <1>1, <1>6 DEF systemVars, serverVars, sessionVars, clientVars, ClientInv,
                     RestTypeOK, ResponsesOK
<1> QED
  BY <1>1, <1>3, <1>4, <1>5, <1>6, ClientSteps

\* ClientInv is inductive.
LEMMA ClientInductive ==
  ASSUME ClientInv, [ClientNext]_systemVars
  PROVE  ClientInv'
<1>1. ASSUME NEW d \in Conns PROVE LinkInv(d)'
  <2>1. CASE UNCHANGED systemVars
    BY <2>1, LinkUntouched DEF systemVars, serverVars, sessionVars, clientVars, ClientInv
  <2> QED
    BY <2>1, ClientSteps, ServedKeepsLinks, PutKeepsLinks, SessionKeepsLinks,
       BeginKeepsLinks, ReturnKeepsLinks
       DEF SessionStep
<1> QED
  BY <1>1, ClientTypes, ClientKeepsJobs DEF ClientInv

\* In every reachable state a client waits exactly if its request or the
\* response to it is under way on its connection (ClientInv).
THEOREM ClientInvariant == ClientSpec => []ClientInv
<1>1. ClientInit => ClientInv
  <2> SUFFICES ASSUME ClientInit PROVE ClientInv
    OBVIOUS
  <2>1. TypeOK
    BY CacheAssumption DEF CacheAssumption, ClientInit, ServerInit, Init, evictorInit, TypeOK
  <2>2. JobInv
    BY DEF ClientInit, ServerInit, JobInv
  <2>3. RestTypeOK
    BY ServerAssumption DEF ServerAssumption, ClientInit, ServerInit, RestTypeOK,
                                 ResponsesOK
  <2>4. /\ link \in [Conns -> {"none", "up", "broken", "silent"}]
        /\ backlog \subseteq Conns
        /\ asked \in [Conns -> Calls \cup {Null}]
        /\ incoming \in [Conns -> Seq(Responses)]
        /\ \A c \in Conns : LinkInv(c)
    BY DEF ClientInit, ServerInit, LinkInv
  <2> QED
    BY <2>1, <2>2, <2>3, <2>4 DEF ClientInv
<1> QED
  BY <1>1, ClientInductive, PTL DEF ClientSpec

\* A response is never taken for the answer to another call: responses carry no
\* name of their request, and after a failed exchange the same connection is used
\* on.
THEOREM AnswersBelong == ClientSpec => []AnswerBelongsToCall
<1>1. ClientInv => AnswerBelongsToCall
  BY DEF ClientInv, LinkInv, AnswerBelongsToCall
<1> QED
  BY <1>1, ClientInvariant, PTL

\* All clients together drive the one Cache object only through its operations.
THEOREM ClientsUseLibrary == ClientSpec => Spec
<1>1. ClientInit => Init
  BY DEF ClientInit, ServerInit
<1> QED
  BY <1>1, ClientInvariant, ClientStep, PTL DEF ClientSpec, Spec

-----------------------------------------------------------------------------
(* What the clients' server stores *)

\* A client's own steps do not touch the cache, the threads or a request in hand.
LEMMA OtherClientSteps ==
  ASSUME [ClientNext]_systemVars
  PROVE  ServerNext \/ UNCHANGED <<dict_, call, job, acked, req_>>
<1>1. CASE SessionStep
  BY <1>1, SessionStepIsServer
<1>2. ASSUME NEW c \in Conns, NEW a \in Calls, call_begins(c, a)
      PROVE  UNCHANGED <<dict_, call, job, acked, req_>>
  BY <1>2 DEF call_begins, vars
<1>3. ASSUME NEW c \in Conns, OwnStep(c)
      PROVE  UNCHANGED <<dict_, call, job, acked, req_>>
  BY <1>3, OwnStepApart DEF serverVars, sessionVars, vars
<1>4. CASE UNCHANGED systemVars
  BY <1>4 DEF systemVars, serverVars, sessionVars, vars
<1> QED
  BY <1>1, <1>2, <1>3, <1>4, ClientSteps

\* With one thread in the server, all that is known of it holds for the clients.
LEMMA ClientFacts ==
  ASSUME SingleCaller, NoWrap
  PROVE  ClientSpec => []Facts
<1>1. ClientInit => ValueInv
  BY DEF ClientInit, ServerInit, Init, ValueInv, PutInv, NoStaleValue,
         ValueOf
<1>2. ClientSpec => [](TypeOK /\ InsertIsFresh /\ Accounting /\ Capacity)
  BY LibraryFacts, ClientsUseLibrary, PTL
<1>3. TypeOK /\ InsertIsFresh /\ ClientInv => Known
  BY DEF Known, ClientInv
<1>4. Known /\ ValueInv /\ [ClientNext]_systemVars => ValueInv'
  BY OtherClientSteps, ValueInductive, ApartStep
<1>5. Known /\ ValueInv /\ Accounting /\ Capacity => Facts
  BY DEF Facts
<1> QED
  BY <1>1, <1>2, <1>3, <1>4, <1>5, ClientInvariant, PTL DEF ClientSpec

\* Through broken connections and calls that failed half way, the server finds
\* for every client the last value it acknowledged, or none.
THEOREM ClientValuesRight ==
  ASSUME SingleCaller, NoWrap
  PROVE  ClientSpec => []NoStaleValue
<1>1. Facts => NoStaleValue
  BY DEF Facts, ValueInv
<1> QED
  BY <1>1, ClientFacts, PTL

\* No client loses a value to the failures of another, only to its deletions,
\* resets and need of room.
THEOREM ClientValuesKept ==
  ASSUME SingleCaller, NoWrap
  PROVE  ClientSpec => ValueKeptUntilRoomNeeded
<1>1. Facts /\ [ClientNext]_systemVars => [Kept]_serverVars
  BY OtherClientSteps, ServerKeeps, ApartKeeps
<1>2. ClientSpec => [][Kept]_serverVars
  BY <1>1, ClientFacts, PTL DEF ClientSpec
<1> QED
  BY <1>2 DEF ValueKeptUntilRoomNeeded, Kept, Vanished, RoomNeeded

\* A set() that the server acknowledged is in its cache at that moment, through
\* whatever broke before.
THEOREM ClientPutsStore ==
  ASSUME SingleCaller, NoWrap
  PROVE  ClientSpec => PutStoresItsValue
<1> DEFINE AllStore == \A t \in Callers : Stores(t)
<1>1. ASSUME Facts, [ClientNext]_systemVars PROVE [AllStore]_serverVars
  <2>1. ServerNext => AllStore
    BY <1>1, ServerStores DEF Facts
  <2>2. job' = job => AllStore
    BY DEF Stores
  <2> QED
    BY <1>1, <2>1, <2>2, OtherClientSteps
<1>2. ClientSpec => [][AllStore]_serverVars
  BY <1>1, ClientFacts, PTL DEF ClientSpec
<1> QED
  BY <1>2 DEF PutStoresItsValue, Stores

\* All networked clients together see the one store that cache.hh promises.
THEOREM ClientsImplementStore ==
  ASSUME SingleCaller, NoWrap
  PROVE  ClientSpec => ImplementsStore
BY CacheImplementsStore, ClientsUseLibrary, PTL

-----------------------------------------------------------------------------
(* Type correctness *)

\* What a method makes of a response, a made-up one included, is one of the
\* outcomes a caller can see.
LEMMA ResultTypes ==
  ASSUME NEW a \in Calls, NEW res, res.body \in Values \cup {Null}
  PROVE  ResultsOf(a, res) \subseteq Outcomes \cup {Null}
<1>1. \A what \in {"nothing", "nullptr", "value", "true", "false", "number", "exception"},
         body \in Values \cup {Null, Garbage} : Returns(what, body) \in Outcomes
  BY DEF Returns, Outcomes
<1>2. GetOutcomes(res) \subseteq Outcomes
  <2>1. Dangling(res.body) \subseteq Values \cup {Null, Garbage}
    BY DEF Dangling
  <2>2. Returns("nullptr", Null) \in Outcomes /\ Returns("exception", Null) \in Outcomes
    BY <1>1
  <2>3. \A v \in Dangling(res.body) : Returns("value", v) \in Outcomes
    BY <1>1, <2>1
  <2> QED
    BY <2>2, <2>3 DEF GetOutcomes
<1>3. NumberOutcomes(res) \subseteq Outcomes
  <2>1. Returns("number", Null) \in Outcomes /\ Returns("exception", Null) \in Outcomes
    BY <1>1
  <2>2. \/ NumberOutcomes(res) = {Returns("number", Null)}
        \/ NumberOutcomes(res) = {Returns("exception", Null)}
    BY Zenon DEF NumberOutcomes
  <2> QED
    BY <2>1, <2>2
<1>4. /\ Returns("true", Null) \in Outcomes /\ Returns("false", Null) \in Outcomes
      /\ Returns("nothing", Null) \in Outcomes
  BY <1>1
<1>5. a.method \in {"set", "get", "del", "space_used", "reset", "destroy"}
  BY DEF Calls
<1>6. CASE a.method = "get"
  BY <1>2, <1>6 DEF ResultsOf
<1>7. CASE a.method = "del"
  BY <1>4, <1>7 DEF ResultsOf
<1>8. CASE a.method = "space_used"
  BY <1>3, <1>8 DEF ResultsOf
<1>9. CASE a.method = "destroy"
  BY <1>9 DEF ResultsOf
<1>10. CASE a.method \in {"set", "reset"}
  BY <1>4, <1>10 DEF ResultsOf
<1> QED
  BY <1>5, <1>6, <1>7, <1>8, <1>9, <1>10

\* Type correctness of the composition, for any number of clients and calls.
THEOREM ClientTypeCorrect == ClientSpec => []ClientTypeOK
<1> DEFINE ReturnedOK == returned \in [Conns -> Outcomes \cup {Null}]
<1>1. ClientInit => ReturnedOK /\ evictor_
  <2> SUFFICES ASSUME ClientInit PROVE ReturnedOK /\ evictor_
    OBVIOUS
  <2>1. ReturnedOK
    BY DEF ClientInit
  <2>2. evictor_
    BY Zenon DEF ClientInit, ServerInit
  <2> QED
    BY <2>1, <2>2
<1>2. ASSUME ClientInv, ReturnedOK, [ClientNext]_systemVars PROVE ReturnedOK'
  <2>1. CASE SessionStep \/ UNCHANGED systemVars
    BY <1>2, <2>1 DEF SessionStep, request_served, session_ends, accept,
                      response_written, put_continues, systemVars, clientVars
  <2>2. ASSUME NEW c \in Conns, NEW a \in Calls, call_begins(c, a) PROVE ReturnedOK'
    BY <1>2, <2>2 DEF call_begins
  <2>3. ASSUME NEW c \in Conns, NEW res, res.body \in Values \cup {Null},
               call_returns(c, res)
        PROVE  ReturnedOK'
    <3>1. asked[c] \in Calls
      BY <1>2, <2>3 DEF call_returns, ClientInv
    <3>2. \E o \in Outcomes \cup {Null} : returned' = [returned EXCEPT ![c] = o]
      BY <2>3, <3>1, ResultTypes DEF call_returns
    <3> QED
      BY <1>2, <3>2
  <2>4. ASSUME NEW c \in Conns, response_read(c) PROVE ReturnedOK'
    <3>1. Head(incoming[c]) \in Responses
      <4>1. incoming[c] \in Seq(Responses) /\ incoming[c] # <<>>
        BY <1>2, <2>4 DEF response_read, ClientInv
      <4> QED
        BY <4>1
    <3>2. Head(incoming[c]).body \in Values \cup {Null}
      BY <3>1 DEF Responses
    <3> QED
      BY <2>3, <2>4, <3>2 DEF response_read
  <2>5. ASSUME NEW c \in Conns, exchange_fails(c) PROVE ReturnedOK'
    <3>1. Failed.body = Null
      BY DEF Failed, Respond
    <3> QED
      BY <2>3, <2>5, <3>1 DEF exchange_fails
  <2>6. ASSUME NEW c \in Conns, construct(c) \/ link_breaks(c) \/ link_noticed(c)
        PROVE  ReturnedOK'
    BY <1>2, <2>6 DEF construct, link_breaks, link_noticed
  <2> QED
    BY <1>2, <2>1, <2>2, <2>4, <2>5, <2>6, ClientSteps DEF OwnStep
<1>3. ClientInv /\ evictor_ /\ [ClientNext]_systemVars => evictor_'
  BY ClientStep, EvictorStays
<1>4. ClientInv /\ ReturnedOK /\ evictor_ => ClientTypeOK
  BY DEF ClientInv, JobInv, RestTypeOK, ResponsesOK, ServerTypeOK, ClientTypeOK
<1> QED
  BY <1>1, <1>2, <1>3, <1>4, ClientInvariant, PTL DEF ClientSpec

-----------------------------------------------------------------------------
(* How strings travel *)

\* A set of natural numbers that is not empty has a least element.
LEMMA LeastNatural ==
  ASSUME NEW T \in SUBSET Nat, T # {}
  PROVE  \E x \in T : \A y \in T : x <= y
<1>1. PICK x \in T : \A y \in T : ~ (<<y, x>> \in OpToRel(<, Nat))
  BY NatLessThanWellFounded, WFMin
<1>2. \A y \in T : <<y, x>> \in OpToRel(<, Nat) \/ x <= y
  <2>1. x \in Nat
    OBVIOUS
  <2> QED
    BY <2>1, SMT DEF OpToRel
<1> QED
  BY <1>1, <1>2, Zenon

\* getline() takes everything up to the first slash.
LEMMA LineTaken ==
  ASSUME NEW s \in Seq(Chars)
  PROVE  LET n == Len(getline(s))
         IN  /\ getline(s) \in Seq(Chars) /\ n \in 0 .. Len(s)
             /\ \A j \in 1 .. n : getline(s)[j] = s[j] /\ s[j] # Slash
             /\ n = Len(s) \/ s[n + 1] = Slash
<1> DEFINE T == {i \in 1 .. Len(s) : s[i] = Slash}
           i0 == IF T # {} THEN CHOOSE x \in T : \A y \in T : x <= y ELSE 0
<1>1. Len(s) \in Nat /\ \A j \in 1 .. Len(s) : s[j] \in Chars
  OBVIOUS
<1>2. getline(s) = IF i0 = 0 THEN s ELSE SubSeq(s, 1, i0 - 1)
  BY Zenon DEF getline, SelectInSeq, Min
<1>3. CASE T = {}
  <2>1. getline(s) = s
    BY <1>2, <1>3
  <2>2. \A j \in 1 .. Len(s) : s[j] # Slash
    BY <1>3
  <2> QED
    BY <1>1, <2>1, <2>2
<1>4. CASE T # {}
  <2>1. T \in SUBSET Nat
    BY <1>1
  <2>2. \E x \in T : \A y \in T : x <= y
    <3> HIDE DEF T
    <3> QED
      BY <1>4, <2>1, LeastNatural
  <2>3. i0 \in T /\ \A y \in T : i0 <= y
    <3> HIDE DEF T
    <3>1. i0 = CHOOSE x \in T : \A y \in T : x <= y
      BY <1>4
    <3> HIDE DEF i0
    <3> QED
      BY <2>2, <3>1, Zenon
  <2> HIDE DEF i0
  <2>4. i0 \in 1 .. Len(s) /\ s[i0] = Slash
    BY <2>3
  <2>5. \A j \in 1 .. (i0 - 1) : j \in 1 .. Len(s) /\ s[j] # Slash
    <3> TAKE j \in 1 .. (i0 - 1)
    <3>1. j \in 1 .. Len(s) /\ ~ i0 <= j
      BY <1>1, <2>4
    <3> QED
      BY <2>3, <3>1
  <2>6. getline(s) = SubSeq(s, 1, i0 - 1)
    BY <1>2, <2>4
  <2>7. /\ SubSeq(s, 1, i0 - 1) \in Seq(Chars)
        /\ Len(SubSeq(s, 1, i0 - 1)) = i0 - 1
        /\ \A j \in 1 .. (i0 - 1) : SubSeq(s, 1, i0 - 1)[j] = s[j]
    BY <1>1, <2>4
  <2> HIDE DEF T
  <2> QED
    BY <1>1, <2>4, <2>5, <2>6, <2>7
<1> QED
  BY <1>3, <1>4

\* A string is plain if none of its characters is a slash.
LEMMA PlainMeans ==
  ASSUME NEW s \in Seq(Chars)
  PROVE  Plain(s) <=> \A j \in 1 .. Len(s) : s[j] # Slash
BY DEF Plain, Range

\* A plain string is a line of its own, and only a plain one is.
LEMMA PlainLine ==
  ASSUME NEW s \in Seq(Chars)
  PROVE  getline(s) = s <=> Plain(s)
<1> DEFINE n == Len(getline(s))
<1>1. /\ getline(s) \in Seq(Chars) /\ n \in 0 .. Len(s)
      /\ \A j \in 1 .. n : getline(s)[j] = s[j] /\ s[j] # Slash
      /\ n = Len(s) \/ s[n + 1] = Slash
  BY LineTaken
<1>2. ASSUME getline(s) = s PROVE Plain(s)
  BY <1>1, <1>2, PlainMeans
<1>3. ASSUME Plain(s) PROVE getline(s) = s
  <2>1. \A j \in 1 .. Len(s) : s[j] # Slash
    BY <1>3, PlainMeans
  <2>2. n = Len(s)
    <3> HIDE DEF n
    <3> SUFFICES ASSUME n # Len(s) PROVE FALSE
      OBVIOUS
    <3>1. n + 1 \in 1 .. Len(s) /\ s[n + 1] = Slash
      BY <1>1
    <3> QED
      BY <2>1, <3>1
  <2> QED
    BY <1>1, <2>2, SeqEqual
<1> QED
  BY <1>2, <1>3

\* What the processor sees behind the first slash of a PUT's target.
Packed(k, v) == k \o <<Slash>> \o v

\* Taking the first slash away.
LEMMA TargetTail ==
  ASSUME NEW k \in Seq(Chars), NEW v \in Seq(Chars)
  PROVE  /\ Tail(KeyTarget(k)) = k
         /\ Tail(PutTarget(k, v)) = Packed(k, v)
         /\ Packed(k, v) \in Seq(Chars)
         /\ Len(Packed(k, v)) = Len(k) + 1 + Len(v)
         /\ \A j \in 1 .. Len(k) : Packed(k, v)[j] = k[j]
         /\ Packed(k, v)[Len(k) + 1] = Slash
         /\ \A j \in 1 .. Len(v) : Packed(k, v)[Len(k) + 1 + j] = v[j]
<1> DEFINE one == <<Slash>>
           ko == k \o one
<1>1. one \in Seq(Chars) /\ Len(one) = 1 /\ one[1] = Slash
  BY WireAssumption DEF WireAssumption
<1>2. Len(k) \in Nat /\ Len(v) \in Nat
  OBVIOUS
<1> HIDE DEF one
<1>3. ASSUME NEW s \in Seq(Chars) PROVE Tail(one \o s) = s
  <2> DEFINE w == one \o s
  <2>0. /\ w \in Seq(Chars) /\ Len(w) = Len(one) + Len(s)
        /\ \A j \in 1 .. Len(one) + Len(s) :
              w[j] = IF j <= Len(one) THEN one[j] ELSE s[j - Len(one)]
    BY <1>1, ConcatProperties, Zenon
  <2> HIDE DEF w
  <2>1. /\ w \in Seq(Chars) /\ Len(w) = 1 + Len(s)
        /\ \A j \in 1 .. 1 + Len(s) : w[j] = IF j <= 1 THEN one[j] ELSE s[j - 1]
    BY <1>1, <2>0
  <2>2. \A j \in 1 .. Len(s) : w[j + 1] = s[j]
    <3> TAKE j \in 1 .. Len(s)
    <3>1. j + 1 \in 1 .. 1 + Len(s) /\ ~ j + 1 <= 1 /\ (j + 1) - 1 = j
      OBVIOUS
    <3> QED
      BY <2>1, <3>1
  <2>3. w # <<>>
    BY <2>1
  <2>4. /\ Tail(w) \in Seq(Chars) /\ Len(Tail(w)) = Len(s)
        /\ \A j \in 1 .. Len(s) : Tail(w)[j] = s[j]
    BY <2>1, <2>2, <2>3, HeadTailProperties
  <2>5. Tail(w) = s
    BY <2>4, SeqEqual
  <2> QED
    BY <2>5 DEF w
<1>4. /\ ko \in Seq(Chars) /\ Len(ko) = Len(k) + Len(one)
      /\ \A j \in 1 .. Len(k) + Len(one) :
            ko[j] = IF j <= Len(k) THEN k[j] ELSE one[j - Len(k)]
  BY <1>1, ConcatProperties, Zenon
<1> HIDE DEF ko
<1>5. /\ ko \in Seq(Chars) /\ Len(ko) = Len(k) + 1
      /\ \A j \in 1 .. Len(k) + 1 : ko[j] = IF j <= Len(k) THEN k[j] ELSE one[j - Len(k)]
  BY <1>1, <1>4
<1>6. ko[Len(k) + 1] = Slash /\ \A j \in 1 .. Len(k) : ko[j] = k[j]
  <2>1. Len(k) + 1 \in 1 .. Len(k) + 1 /\ ~ Len(k) + 1 <= Len(k) /\ (Len(k) + 1) - Len(k) = 1
    BY <1>2
  <2>2. ko[Len(k) + 1] = Slash
    BY <1>1, <1>5, <2>1
  <2>3. \A j \in 1 .. Len(k) : ko[j] = k[j]
    BY <1>2, <1>5
  <2> QED
    BY <2>2, <2>3
<1> DEFINE w == ko \o v
<1>7. /\ w \in Seq(Chars) /\ Len(w) = Len(ko) + Len(v)
       /\ \A j \in 1 .. Len(ko) + Len(v) : w[j] = IF j <= Len(ko) THEN ko[j] ELSE v[j - Len(ko)]
  <2>1. ko \in Seq(Chars)
    BY <1>5
  <2> QED
    BY <2>1, ConcatProperties, Zenon
<1> HIDE DEF w
<1>8. /\ w \in Seq(Chars) /\ Len(w) = Len(k) + 1 + Len(v)
      /\ \A j \in 1 .. Len(ko) + Len(v) : w[j] = IF j <= Len(ko) THEN ko[j] ELSE v[j - Len(ko)]
  BY <1>2, <1>5, <1>7
<1>9. /\ \A j \in 1 .. Len(k) : w[j] = k[j]
      /\ w[Len(k) + 1] = Slash
      /\ \A j \in 1 .. Len(v) : w[Len(k) + 1 + j] = v[j]
  <2>1. ASSUME NEW j \in 1 .. Len(k) PROVE w[j] = k[j]
    <3>1. j \in 1 .. Len(ko) + Len(v) /\ j <= Len(ko)
      BY <1>2, <1>5
    <3> QED
      BY <1>6, <1>8, <3>1
  <2>2. w[Len(k) + 1] = Slash
    <3>1. Len(k) + 1 \in 1 .. Len(ko) + Len(v) /\ Len(k) + 1 <= Len(ko)
      BY <1>2, <1>5
    <3> QED
      BY <1>6, <1>8, <3>1
  <2>3. ASSUME NEW j \in 1 .. Len(v) PROVE w[Len(k) + 1 + j] = v[j]
    <3> DEFINE i == Len(k) + 1 + j
    <3>1. i \in 1 .. Len(ko) + Len(v) /\ ~ i <= Len(ko) /\ i - Len(ko) = j
      BY <1>2, <1>5
    <3> HIDE DEF i
    <3>2. w[i] = v[j]
      BY <1>8, <3>1
    <3> QED
      BY <3>2 DEF i
  <2> QED
    BY <2>1, <2>2, <2>3
<1>10. Packed(k, v) = w
  BY DEF Packed, w, ko, one
<1>11. PutTarget(k, v) = one \o w
  <2>1. (one \o k) \o one = one \o ko
    BY <1>1, ConcatAssociative DEF ko
  <2>2. (one \o ko) \o v = one \o w
    BY <1>1, <1>5, ConcatAssociative DEF w
  <2>3. PutTarget(k, v) = ((one \o k) \o one) \o v
    BY DEF PutTarget, one
  <2> QED
    BY <2>1, <2>2, <2>3
<1>12. Tail(KeyTarget(k)) = k
  BY <1>3 DEF KeyTarget, one
<1>13. Tail(PutTarget(k, v)) = w
  BY <1>3, <1>8, <1>11
<1> QED
  BY <1>8, <1>9, <1>10, <1>12, <1>13

\* A PUT is taken apart into the key and the value it was put together from, if
\* and only if neither has a slash; a GET or DELETE always gives its key.  For all
\* strings.
LEMMA WireApart ==
  ASSUME NEW k \in Seq(Chars), NEW v \in Seq(Chars)
  PROVE  /\ KeyOf(KeyTarget(k)) = k
         /\ PutKeyOf(PutTarget(k, v)) = k /\ PutValOf(PutTarget(k, v)) = v
              <=> Plain(k) /\ Plain(v)
<1> DEFINE w == Packed(k, v)
           g == getline(w)
           n == Len(g)
<1>1. /\ w \in Seq(Chars) /\ Len(w) = Len(k) + 1 + Len(v)
      /\ \A j \in 1 .. Len(k) : w[j] = k[j]
      /\ w[Len(k) + 1] = Slash
      /\ \A j \in 1 .. Len(v) : w[Len(k) + 1 + j] = v[j]
      /\ Len(k) \in Nat /\ Len(v) \in Nat
  <2>1. Len(k) \in Nat /\ Len(v) \in Nat
    OBVIOUS
  <2> QED
    BY <2>1, TargetTail, Zenon
<1>2. PutKeyOf(PutTarget(k, v)) = g /\ PutValOf(PutTarget(k, v)) = getline(rest(w))
  BY TargetTail, Zenon DEF PutKeyOf, PutValOf
<1> HIDE DEF w
<1>3. /\ g \in Seq(Chars) /\ n \in 0 .. Len(w)
      /\ \A j \in 1 .. n : g[j] = w[j] /\ w[j] # Slash
      /\ n = Len(w) \/ w[n + 1] = Slash
  BY <1>1, LineTaken
<1>4. rest(w) = SubSeq(w, n + 2, Len(w))
  BY DEF rest
<1> HIDE DEF g
<1>5. n \in Nat
  BY <1>3
<1>6. g = k => rest(w) = v
  <2> SUFFICES ASSUME g = k PROVE rest(w) = v
    OBVIOUS
  <2> DEFINE r == SubSeq(w, Len(k) + 2, Len(w))
  <2>1. r \in Seq(Chars) /\ Len(r) = Len(v) /\ \A j \in 1 .. Len(v) : r[j] = w[Len(k) + 1 + j]
    BY <1>1
  <2>2. rest(w) = r
    BY <1>4
  <2> HIDE DEF r
  <2> QED
    BY <1>1, <2>1, <2>2, SeqEqual
<1>7. g = k => Plain(k)
  BY <1>3, PlainMeans
<1>8. ASSUME Plain(k) PROVE g = k
  <2>1. \A j \in 1 .. Len(k) : w[j] # Slash
    BY <1>1, <1>8, PlainMeans
  <2> HIDE DEF n
  <2>2. n >= Len(k)
    <3> SUFFICES ASSUME n < Len(k) PROVE FALSE
      BY <1>1, <1>5
    <3>1. n + 1 \in 1 .. Len(k) /\ n # Len(w)
      BY <1>1, <1>5
    <3> QED
      BY <1>3, <2>1, <3>1
  <2>3. n <= Len(k)
    <3> SUFFICES ASSUME n > Len(k) PROVE FALSE
      BY <1>1, <1>5
    <3>1. Len(k) + 1 \in 1 .. n
      BY <1>1, <1>5
    <3> QED
      BY <1>1, <1>3, <3>1
  <2>4. n = Len(k)
    BY <1>1, <1>5, <2>2, <2>3
  <2> QED
    BY <1>1, <1>3, <2>4, SeqEqual DEF n
<1>9. getline(v) = v <=> Plain(v)
  BY PlainLine
<1>10. KeyOf(KeyTarget(k)) = k
  BY TargetTail DEF KeyOf
<1>11. g = k /\ getline(rest(w)) = v <=> Plain(k) /\ Plain(v)
  BY <1>6, <1>7, <1>8, <1>9, Zenon
<1> QED
  BY <1>2, <1>10, <1>11

\* The check of Wire on strings up to MaxLen characters holds for any MaxLen.
THEOREM WireAlwaysExact == WireExact
<1> SUFFICES ASSUME NEW k \in SeqOf(Chars, MaxLen), NEW v \in SeqOf(Chars, MaxLen)
             PROVE  /\ PutKeyOf(PutTarget(k, v)) = KeyOf(KeyTarget(k))
                    /\ PutValOf(PutTarget(k, v)) = v
                    <=> Plain(k) /\ Plain(v)
  BY DEF WireExact
<1>1. k \in Seq(Chars) /\ v \in Seq(Chars)
  <2>1. SeqOf(Chars, MaxLen) \subseteq Seq(Chars)
    BY DEF SeqOf
  <2> QED
    BY <2>1
<1> QED
  BY <1>1, WireApart

-----------------------------------------------------------------------------
(* What waits at the server *)

\* A request that waits on a connection that holds is that of the call in
\* progress.
AskedInv ==
  \A c \in Conns :
    link[c] = "up" /\ inbox[c] # <<>> => Head(inbox[c]) = prep_req(asked[c])

\* A step does one of five things to a connection: it leaves its requests and its
\* call alone, empties its stream, ends its call, begins one, or breaks it.
LEMMA StreamSteps ==
  ASSUME ClientInv, [ClientNext]_systemVars, NEW d \in Conns
  PROVE  \/ inbox'[d] = inbox[d] /\ asked'[d] = asked[d] /\ link'[d] = link[d]
         \/ inbox'[d] = <<>>
         \/ asked'[d] = Null
         \/ inbox'[d] = <<prep_req(asked'[d])>>
         \/ link'[d] # "up"
<1> DEFINE Same == inbox'[d] = inbox[d] /\ asked'[d] = asked[d] /\ link'[d] = link[d]
<1>0. /\ LinkInv(d) /\ inbox \in [Conns -> Seq(Requests)]
      /\ link \in [Conns -> {"none", "up", "broken", "silent"}]
      /\ asked \in [Conns -> Calls \cup {Null}]
  BY DEF ClientInv, JobInv
<1>1. ASSUME NEW t \in Callers, NEW c \in Conns, request_served(t, c)
      PROVE  Same \/ inbox'[d] = <<>> \/ link'[d] # "up"
  <2>1. /\ inbox[c] # <<>> /\ session[c] = "reading"
        /\ inbox' = [inbox EXCEPT ![c] = Tail(@)]
        /\ UNCHANGED clientVars
    BY <1>1 DEF request_served, handle_request, handle_get, handle_delete, handle_head,
           handle_reset, handle_post, handle_other, put_lookup, OnRead, Reply, TakeRequest
  <2>2. CASE d # c
    BY <1>0, <2>1, <2>2 DEF clientVars
  <2>3. CASE d = c /\ link[d] = "up"
    <3>1. Len(Tail(inbox[c])) = Waiting(c) - 1 /\ Waiting(c) \in Nat /\ Waiting(c) # 0
      BY <2>1, QueueLengths
    <3>2. InFlight(c) <= 1
      <4>1. LinkInv(c) /\ link[c] = "up"
        BY <1>0, <2>3, Zenon
      <4>2. InFlight(c) <= (IF asked[c] = Null THEN 0 ELSE 1) /\ InFlight(c) \in Nat
        BY <4>1, QueueLengths DEF LinkInv
      <4> QED
        BY <4>2
    <3>3. Waiting(c) <= 1
      BY <3>2, QueueLengths
    <3>4. Tail(inbox[c]) \in Seq(Requests)
      BY <1>0, <2>1, HeadTailProperties
    <3>5. Tail(inbox[c]) = <<>>
      BY <3>1, <3>3, <3>4, NoElements
    <3> QED
      BY <1>0, <2>1, <2>3, <3>5
  <2>4. CASE d = c /\ link[d] # "up"
    BY <2>1, <2>4 DEF clientVars
  <2> QED
    BY <2>2, <2>3, <2>4
<1>2. ASSUME NEW t \in Callers, NEW c \in Conns, response_written(t, c) \/ session_ends(t, c)
      PROVE  Same \/ inbox'[d] = <<>>
  <2>1. do_read(c) \/ End(c)
    BY <1>2 DEF response_written, session_ends, on_write, on_write_error, on_read_error,
                on_read_eof
  <2>2. UNCHANGED <<link, asked>>
    BY <1>2 DEF response_written, session_ends, clientVars
  <2>3. inbox' = inbox \/ inbox' = [inbox EXCEPT ![c] = <<>>]
    BY <2>1 DEF do_read, End
  <2> QED
    BY <1>0, <2>2, <2>3
<1>3. ASSUME NEW t \in Callers, NEW c \in Conns, accept(t, c) PROVE Same
  BY <1>3 DEF accept, on_accept, do_read
<1>4. ASSUME NEW t \in Callers, put_continues(t) PROVE Same
  BY <1>4 DEF put_continues, ContinuePut, put_set, put_evict, put_reply, sessionVars, clientVars
<1>5. ASSUME NEW c \in Conns, NEW a \in Calls, call_begins(c, a)
      PROVE  Same \/ inbox'[d] = <<>> \/ inbox'[d] = <<prep_req(asked'[d])>> \/ link'[d] # "up"
  <2>1. /\ asked[c] = Null /\ asked' = [asked EXCEPT ![c] = a] /\ link' = link
        /\ inbox' = inbox \/ inbox' = [inbox EXCEPT ![c] = Append(@, prep_req(a))]
    BY <1>5, Zenon DEF call_begins, Awaited
  <2>2. CASE d # c
    BY <1>0, <2>1, <2>2
  <2>3. CASE d = c /\ link[d] = "up"
    <3>0. LinkInv(c) /\ link[c] = "up" /\ asked[c] = Null
      BY <1>0, <2>1, <2>3, Zenon
    <3>1. InFlight(c) <= 0
      BY <3>0 DEF LinkInv
    <3>2. Waiting(c) = 0
      BY <3>1, QueueLengths
    <3>3. inbox[c] = <<>>
      BY <3>2, QueueLengths
    <3>4. Append(<<>>, prep_req(a)) = <<prep_req(a)>>
      OBVIOUS
    <3>5. asked'[c] = a
      BY <1>0, <2>1
    <3> QED
      BY <1>0, <2>1, <2>3, <3>3, <3>4, <3>5
  <2>4. CASE d = c /\ link[d] # "up"
    BY <2>1, <2>4
  <2> QED
    BY <2>2, <2>3, <2>4
<1>6. ASSUME NEW c \in Conns, response_read(c) \/ exchange_fails(c)
      PROVE  Same \/ asked'[d] = Null
  <2>1. /\ asked' = [asked EXCEPT ![c] = Null] /\ inbox' = inbox
        /\ link' = link \/ link' = [link EXCEPT ![c] = "none"]
    BY <1>6, Zenon DEF response_read, exchange_fails, call_returns, serverVars, sessionVars
  <2> QED
    BY <1>0, <2>1
<1>7. ASSUME NEW c \in Conns, link_breaks(c) \/ link_noticed(c)
      PROVE  Same \/ link'[d] # "up"
  <2>1. /\ asked' = asked /\ inbox' = inbox
        /\ \E l \in {"broken", "silent"} : link' = [link EXCEPT ![c] = l]
    BY <1>7 DEF link_breaks, link_noticed, serverVars, sessionVars
  <2> QED
    BY <1>0, <2>1
<1>8. ASSUME NEW c \in Conns, construct(c) PROVE Same \/ inbox'[d] = <<>>
  <2>1. /\ session[c] = "closed" /\ c \notin backlog /\ inbox' = inbox /\ asked' = asked
        /\ link' = [link EXCEPT ![c] = "up"]
    BY <1>8 DEF construct, serverVars, sessionVars
  <2> QED
    BY <1>0, <2>1 DEF LinkInv
<1>9. CASE UNCHANGED systemVars
  BY <1>9 DEF systemVars, serverVars, sessionVars, clientVars
<1> QED
  BY <1>1, <1>2, <1>3, <1>4, <1>5, <1>6, <1>7, <1>8, <1>9, ClientSteps, Zenon
     DEF SessionStep, OwnStep

\* The request that waits stays that of the call.
LEMMA AskedInductive ==
  ASSUME ClientInv, AskedInv, [ClientNext]_systemVars
  PROVE  AskedInv'
<1>1. ClientInv'
  BY ClientInductive
<1> SUFFICES ASSUME NEW d \in Conns, link'[d] = "up", inbox'[d] # <<>>
             PROVE  Head(inbox'[d]) = prep_req(asked'[d])
  BY DEF AskedInv
<1>2. asked'[d] # Null
  <2> SUFFICES ASSUME asked'[d] = Null PROVE FALSE
    OBVIOUS
  <2>1. LinkInv(d)'
    BY <1>1 DEF ClientInv
  <2>2. InFlight(d)' <= 0
    BY <2>1 DEF LinkInv
  <2>3. /\ inbox'[d] \in Seq(Requests) /\ incoming'[d] \in Seq(Responses)
    BY <1>1 DEF ClientInv, JobInv
  <2>4. Waiting(d)' \in Nat /\ Waiting(d)' # 0 /\ Arrived(d)' \in Nat /\ Busy(d)' \in {0, 1}
    <3>1. Len(inbox'[d]) \in Nat /\ Len(incoming'[d]) \in Nat
      BY <2>3
    <3>2. Len(inbox'[d]) # 0
      BY <2>3, NoElements
    <3> QED
      BY <3>1, <3>2 DEF Waiting, Arrived, Busy
  <2> QED
    BY <2>2, <2>4, NextInFlight
<1>3. \/ inbox'[d] = inbox[d] /\ asked'[d] = asked[d] /\ link'[d] = link[d]
      \/ inbox'[d] = <<prep_req(asked'[d])>>
  BY <1>2, StreamSteps
<1> QED
  BY <1>3 DEF AskedInv

\* The request that waits at the server says what the call in progress said, for
\* every key of a GET or DELETE and every plain key and value of a PUT.
THEOREM RequestsSay == ClientSpec => []RequestSaysCall
<1>1. ClientInit => AskedInv
  BY DEF ClientInit, ServerInit, AskedInv
<1>2. ASSUME ClientInv, AskedInv PROVE RequestSaysCall
  <2> SUFFICES ASSUME NEW c \in Conns, link[c] = "up", asked[c] # Null, inbox[c] # <<>>
               PROVE  LET said == asked[c]
                          req == Head(inbox[c])
                      IN  /\ said.method = "set" /\ Plain(said.key) /\ Plain(said.val)
                               => req.key = said.key /\ req.val = said.val
                          /\ said.method \in {"get", "del"} => req.key = said.key
    BY DEF RequestSaysCall
  <2> DEFINE a == asked[c]
             req == prep_req(a)
  <2>1. a \in Calls /\ Head(inbox[c]) = req
    BY <1>2 DEF ClientInv, AskedInv
  <2> HIDE DEF a
  <2>2. ASSUME a.method = "set", Plain(a.key), Plain(a.val)
        PROVE  req.key = a.key /\ req.val = a.val
    <3>1. a.key \in Seq(Chars) /\ a.val \in Seq(Chars)
      BY <2>1, <2>2, ClientAssumption DEF ClientAssumption, Calls
    <3>2. req.key = PutKeyOf(PutTarget(a.key, a.val)) /\ req.val = PutValOf(PutTarget(a.key, a.val))
      BY <2>2 DEF prep_req
    <3> QED
      BY <2>2, <3>1, <3>2, WireApart
  <2>3. ASSUME a.method \in {"get", "del"} PROVE req.key = a.key
    <3>1. a.key \in Seq(Chars)
      BY <2>1, <2>3, ClientAssumption DEF ClientAssumption, Calls
    <3>2. req.key = KeyOf(KeyTarget(a.key))
      BY <2>3 DEF prep_req, Keyed
    <3>3. <<>> \in Seq(Chars)
      OBVIOUS
    <3> QED
      BY <3>1, <3>2, <3>3, WireApart
  <2> QED
    BY <2>1, <2>2, <2>3 DEF a
<1> QED
  BY <1>1, <1>2, AskedInductive, ClientInvariant, PTL DEF ClientSpec

-----------------------------------------------------------------------------
(* A call in progress is moving *)

\* Something of the object on c is under way.
UnderWay(c) ==
  inbox[c] # <<>> \/ incoming[c] # <<>> \/ session[c] \in {"handling", "writing"}

\* Nothing gets lost between two ends that hold.
MovingInv ==
  \A c \in Conns :
    link[c] = "up" /\ (session[c] # "closed" \/ c \in backlog) /\ asked[c] # Null
      => UnderWay(c)

\* A queue to which something was added is not empty.
LEMMA QueueAdded ==
  ASSUME NEW S, NEW q \in Seq(S), NEW x \in S
  PROVE  Append(q, x) # <<>>
<1>1. Len(Append(q, x)) = Len(q) + 1 /\ Len(q) \in Nat
  OBVIOUS
<1> QED
  BY <1>1

\* MovingInv is kept on the connection of an object that a step is about, and on
\* the others, which it leaves alone.
LEMMA MovingInductive ==
  ASSUME ClientInv, MovingInv, [ClientNext]_systemVars
  PROVE  MovingInv'
<1> SUFFICES ASSUME NEW d \in Conns,
                    link'[d] = "up", session'[d] # "closed" \/ d \in backlog', asked'[d] # Null
             PROVE  UnderWay(d)'
  BY DEF MovingInv
<1> DEFINE Same == /\ session'[d] = session[d] /\ inbox'[d] = inbox[d]
                   /\ d \in backlog' <=> d \in backlog
                   /\ incoming'[d] = incoming[d] /\ link'[d] = link[d]
                   /\ asked'[d] = asked[d]
<1>0. /\ LinkInv(d) /\ inbox \in [Conns -> Seq(Requests)]
      /\ session \in [Conns -> {"reading", "handling", "writing", "closed"}]
      /\ link \in [Conns -> {"none", "up", "broken", "silent"}]
      /\ asked \in [Conns -> Calls \cup {Null}]
      /\ incoming \in [Conns -> Seq(Responses)]
  BY DEF ClientInv, JobInv
<1>1. Same => UnderWay(d)'
  BY DEF MovingInv, UnderWay
<1>2. ASSUME NEW t \in Callers, NEW c \in Conns, request_served(t, c) PROVE UnderWay(d)'
  <2>1. /\ inbox' = [inbox EXCEPT ![c] = Tail(@)] /\ UNCHANGED clientVars
        /\ \E s \in {"handling", "writing"} : session' = [session EXCEPT ![c] = s]
    BY <1>2 DEF request_served, handle_request, handle_get, handle_delete, handle_head,
           handle_reset, handle_post, handle_other, put_lookup, OnRead, Reply, TakeRequest,
           send, Occupy
  <2>2. CASE d = c
    BY <1>0, <2>1, <2>2 DEF UnderWay
  <2>3. CASE d # c
    BY <1>0, <1>1, <2>1, <2>3 DEF clientVars
  <2> QED
    BY <2>2, <2>3
<1>3. ASSUME NEW t \in Callers, put_continues(t) PROVE UnderWay(d)'
  <2>1. inbox' = inbox /\ UNCHANGED clientVars
    BY <1>3 DEF put_continues, ContinuePut, put_set, put_evict, put_reply, sessionVars
  <2>2. session'[d] = session[d] \/ session'[d] = "writing"
    <3>1. CASE put_set(t) \/ put_evict(t)
      BY <3>1 DEF put_set, put_evict, sessionVars
    <3>2. CASE put_reply(t)
      BY <1>0, <3>2 DEF put_reply, send
    <3> QED
      BY <1>3, <3>1, <3>2 DEF put_continues, ContinuePut
  <2> QED
    BY <1>1, <2>1, <2>2 DEF clientVars, UnderWay
<1>4. ASSUME NEW t \in Callers, NEW c \in Conns, c # d,
             response_written(t, c) \/ session_ends(t, c) \/ accept(t, c)
      PROVE  UnderWay(d)'
  <2>1. /\ asked' = asked /\ link' = link
        /\ \A e \in Conns \ {c} : /\ session'[e] = session[e] /\ inbox'[e] = inbox[e]
                                  /\ incoming'[e] = incoming[e]
                                  /\ e \in backlog' <=> e \in backlog
    BY <1>4, SessionTouchesOne, Zenon
  <2> QED
    BY <1>1, <1>4, <2>1
<1>5. ASSUME NEW t \in Callers, accept(t, d) \/ session_ends(t, d) PROVE UnderWay(d)'
  <2>1. ~ session_ends(t, d)
    <3>1. session_ends(t, d) => /\ session[d] = "reading" /\ session'[d] = "closed"
                                /\ backlog' = backlog
      BY <1>0 DEF session_ends, on_read_error, on_read_eof, End, clientVars
    <3> QED
      BY <1>0, <3>1 DEF LinkInv
  <2>2. d \in backlog /\ UNCHANGED <<inbox, incoming, link, asked>>
    BY <1>5, <2>1 DEF accept, on_accept, do_read
  <2>3. UnderWay(d) /\ session[d] = "closed"
    BY <1>0, <2>2 DEF MovingInv, LinkInv
  <2> QED
    BY <2>2, <2>3 DEF UnderWay
<1>6. ASSUME NEW t \in Callers, response_written(t, d) PROVE UnderWay(d)'
  <2>1. on_write(t, d) \/ on_write_error(t, d)
    BY <1>6 DEF response_written
  <2>2. ~End(d)
    <3>1. session[d] = "writing" /\ backlog' = backlog
      BY <1>6, <2>1 DEF response_written, on_write, on_write_error
    <3> QED
      BY <1>0, <3>1 DEF End, LinkInv
  <2>3. on_write(t, d)
    BY <2>1, <2>2 DEF on_write_error
  <2>4. link' = link
    BY <1>6 DEF response_written
  <2>5. incoming' = [incoming EXCEPT ![d] = Append(@, res_[d])]
    BY <1>6, <2>2, <2>4 DEF response_written, on_write_error
  <2>6. res_[d] \in Responses
    BY <2>3 DEF on_write, ClientInv, RestTypeOK, ResponsesOK
  <2>7. Append(incoming[d], res_[d]) # <<>>
    <3>1. incoming[d] \in Seq(Responses)
      BY <1>0
    <3> QED
      BY <2>6, <3>1, QueueAdded
  <2>8. incoming'[d] = Append(incoming[d], res_[d])
    BY <1>0, <2>5
  <2> QED
    BY <2>7, <2>8 DEF UnderWay
<1>7. ASSUME NEW c \in Conns, NEW a \in Calls, call_begins(c, a) PROVE UnderWay(d)'
  <2>1. /\ asked' = [asked EXCEPT ![c] = a]
        /\ UNCHANGED <<session, link, backlog, incoming>>
    BY <1>7 DEF call_begins, Awaited
  <2>2. inbox' = IF link[c] = "up" /\ (session[c] # "closed" \/ c \in backlog)
                 THEN [inbox EXCEPT ![c] = Append(@, prep_req(a))] ELSE inbox
    BY <1>7 DEF call_begins
  <2>3. CASE d = c
    <3>1. inbox' = [inbox EXCEPT ![d] = Append(@, prep_req(a))]
      BY <2>1, <2>2, <2>3
    <3>2. Append(inbox[d], prep_req(a)) # <<>>
      <4>1. inbox[d] \in Seq(Requests) /\ prep_req(a) \in Requests
        BY <1>0, RequestSent
      <4> QED
        BY <4>1, QueueAdded
    <3> QED
      BY <1>0, <3>1, <3>2 DEF UnderWay
  <2>4. CASE d # c
    <3>1. inbox'[d] = inbox[d]
      BY <1>0, <2>2, <2>4
    <3> QED
      BY <1>0, <1>1, <2>1, <2>4, <3>1
  <2> QED
    BY <2>3, <2>4
<1>8. ASSUME NEW c \in Conns, response_read(c) \/ exchange_fails(c) PROVE UnderWay(d)'
  <2>1. /\ asked' = [asked EXCEPT ![c] = Null] /\ UNCHANGED <<serverVars, backlog>>
        /\ link' = link \/ link' = [link EXCEPT ![c] = "none"]
        /\ incoming' = incoming \/ incoming' = [incoming EXCEPT ![c] = Tail(@)]
    BY <1>8, Zenon DEF response_read, exchange_fails, call_returns
  <2>2. d # c
    BY <1>0, <2>1
  <2> QED
    BY <1>0, <1>1, <2>1, <2>2 DEF serverVars, sessionVars
<1>9. ASSUME NEW c \in Conns, link_breaks(c) \/ link_noticed(c) PROVE UnderWay(d)'
  <2>1. /\ \E l \in {"broken", "silent"} : link' = [link EXCEPT ![c] = l]
        /\ UNCHANGED <<serverVars, asked, backlog>>
        /\ incoming' = incoming \/ incoming' = [incoming EXCEPT ![c] = <<>>]
    BY <1>9 DEF link_breaks, link_noticed
  <2>2. d # c
    BY <1>0, <2>1
  <2> QED
    BY <1>0, <1>1, <2>1, <2>2 DEF serverVars, sessionVars
<1>10. ASSUME NEW c \in Conns, construct(c) PROVE UnderWay(d)'
  <2>1. /\ link' = [link EXCEPT ![c] = "up"] /\ backlog' = backlog \cup {c}
        /\ link[c] = "none" /\ UNCHANGED <<serverVars, asked, incoming>>
    BY <1>10 DEF construct
  <2>2. d # c
    BY <1>0, <2>1 DEF LinkInv
  <2> QED
    BY <1>0, <1>1, <2>1, <2>2 DEF serverVars, sessionVars
<1>11. CASE UNCHANGED systemVars
  BY <1>1, <1>11 DEF systemVars, serverVars, sessionVars, clientVars
<1> QED
  BY <1>2, <1>3, <1>4, <1>5, <1>6, <1>7, <1>8, <1>9, <1>10, <1>11, ClientSteps
     DEF SessionStep, OwnStep

\* Client and server never wait for each other: the safety half of CallReturns, for
\* any number of clients and threads.
THEOREM CallsMove == ClientSpec => []CallIsMoving
<1>1. ClientInit => MovingInv /\ HandlingHasThread
  BY DEF ClientInit, ServerInit, MovingInv, HandlingHasThread
<1>2. ASSUME ClientInv, HandlingHasThread, [ClientNext]_systemVars PROVE HandlingHasThread'
  <2>1. CASE ServerNext
    BY <1>2, <2>1, ThreadsInductive DEF ClientInv
  <2>2. CASE UNCHANGED <<session, job>>
    BY <1>2, <2>2 DEF HandlingHasThread
  <2>3. ServerNext \/ UNCHANGED <<session, job>>
    BY <1>2, ClientSteps, SessionStepIsServer, OwnStepApart
       DEF call_begins, systemVars, serverVars, sessionVars
  <2> QED
    BY <2>1, <2>2, <2>3
<1>3. ASSUME ClientInv, MovingInv, HandlingHasThread PROVE CallIsMoving
  <2> SUFFICES ASSUME NEW c \in Conns, asked[c] # Null, ~Lost(c), link[c] # "silent",
                      incoming[c] = <<>>, session[c] # "writing",
                      ~\E t \in Callers : job[t] # Null /\ job[t].conn = c
               PROVE  inbox[c] # <<>> /\ (session[c] = "reading" \/ c \in backlog)
    BY DEF CallIsMoving
  <2>1. link[c] = "up" /\ (session[c] # "closed" \/ c \in backlog)
    BY <1>3 DEF ClientInv, LinkInv, Lost
  <2>2. session[c] # "handling"
    BY <1>3 DEF HandlingHasThread
  <2>3. inbox[c] # <<>>
    BY <1>3, <2>1, <2>2 DEF MovingInv, UnderWay
  <2>4. session[c] = "reading" \/ c \in backlog
    BY <1>3, <2>1, <2>2 DEF ClientInv, JobInv
  <2> QED
    BY <2>3, <2>4
<1> QED
  BY <1>1, <1>2, <1>3, MovingInductive, ClientInvariant, PTL DEF ClientSpec

=============================================================================
