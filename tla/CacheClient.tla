---------------------------- MODULE CacheClient ----------------------------
(***************************************************************************)
(* The networked client (cache_client.cc): a Cache whose methods are HTTP  *)
(* exchanges with the server.  Each object has one connection, opened by   *)
(* its constructor and never opened again; a call writes its request and   *)
(* waits for one response.  An exchange that fails gives a made-up         *)
(* response with status 499.                                               *)
(*                                                                         *)
(* The object on connection c takes the place of CacheServer's peer c.     *)
(* A connection stays in the backlog of the server's socket until it is    *)
(* accepted, perhaps for good, and takes requests meanwhile.  It may break *)
(* at any time; the server may notice later than the client, or not before *)
(* its timer expires, and the client may not notice at all.  send_udp is   *)
(* never called.                                                           *)
(***************************************************************************)
EXTENDS CacheServer, Wire

CONSTANTS
  CallKeys, CallValues,   \* arguments of the calls
  Garbage                 \* what a string that was destroyed may look like

\* "destroy" is the destructor, which resets the cache first.
Calls ==
  [method : {"set"}, key : CallKeys, val : CallValues] \cup
  [method : {"get", "del"}, key : CallKeys] \cup
  [method : {"space_used", "reset", "destroy"}]

CONSTANT CallsMade        \* bound: the calls that clients make

ASSUME ClientAssumption ==
  /\ CallKeys \subseteq Seq(Chars) /\ CallValues \subseteq Seq(Chars)
  /\ \A k \in CallKeys : KeyOf(KeyTarget(k)) \in Keys
  /\ \A k \in CallKeys, v \in CallValues :
       PutKeyOf(PutTarget(k, v)) \in Keys /\ PutValOf(PutTarget(k, v)) \in Values
  /\ CallsMade \subseteq Calls
  /\ Garbage \notin Values
  /\ Null \notin Calls

Outcomes ==
  [returns : {"nothing", "nullptr", "value", "true", "false", "number", "exception"},
   body : Values \cup {Null, Garbage}]

VARIABLES
  link,       \* per connection: "none" (no object), "up", "broken", or "silent"
              \* (broken, and the client has not been told)
  backlog,    \* connections that are open and not accepted yet
  asked,      \* per object, the call it is inside of, or Null
  incoming,   \* per object, responses that arrived and are not read yet
  returned    \* per object, what its last call returned, or Null

clientVars == <<link, backlog, asked, incoming, returned>>
systemVars == <<serverVars, clientVars>>

ClientTypeOK ==
  /\ ServerTypeOK
  /\ link \in [Conns -> {"none", "up", "broken", "silent"}]
  /\ backlog \subseteq Conns
  /\ asked \in [Conns -> Calls \cup {Null}]
  /\ incoming \in [Conns -> Seq(Responses)]
  /\ returned \in [Conns -> Outcomes \cup {Null}]

ClientInit ==
  /\ ServerInit
  /\ link = [c \in Conns |-> "none"]
  /\ backlog = {}
  /\ asked = [c \in Conns |-> Null]
  /\ incoming = [c \in Conns |-> <<>>]
  /\ returned = [c \in Conns |-> Null]

-----------------------------------------------------------------------------
(* Requests and results *)

Keyed(m, k) == [method |-> m, key |-> k, keep_alive |-> TRUE]
Bare(m) == [method |-> m, keep_alive |-> TRUE]

\* Fault: every target is split at slashes, that of a GET or DELETE too.
prep_req_AllSplit(a) ==
  CASE a.method = "set" ->
         [method |-> "put", keep_alive |-> TRUE,
          key |-> PutKeyOf(PutTarget(a.key, a.val)),
          val |-> PutValOf(PutTarget(a.key, a.val))]
    [] a.method = "get" -> Keyed("get", PutKeyOf(KeyTarget(a.key)))
    [] a.method = "del" -> Keyed("delete", PutKeyOf(KeyTarget(a.key)))
    [] a.method = "space_used" -> Bare("head")
    [] OTHER -> Bare("reset")

\* The request a call sends, as the server will parse it.
prep_req(a) ==
  CASE a.method = "set" ->
         [method |-> "put", keep_alive |-> TRUE,
          key |-> PutKeyOf(PutTarget(a.key, a.val)),
          val |-> PutValOf(PutTarget(a.key, a.val))]
    [] a.method = "get" -> Keyed("get", KeyOf(KeyTarget(a.key)))
    [] a.method = "del" -> Keyed("delete", KeyOf(KeyTarget(a.key)))
    [] a.method = "space_used" -> Bare("head")
    [] OTHER -> Bare("reset")

\* What send_tcp returns when the exchange throws.
Failed == Respond(499, Null, FALSE)

Returns(what, body) == [returns |-> what, body |-> body]

\* What is read through a pointer into a string that is gone: kv_json keeps the
\* c_str() of a temporary, and get() returns that of a local variable.
Dangling(val) == {val, Garbage}

\* get: a missing key is a nullptr, and an empty body does not parse.
GetOutcomes(res) ==
  IF res.result = 404 THEN {Returns("nullptr", Null)}
  ELSE IF res.result # 200 THEN {Returns("exception", Null)}
  ELSE {Returns("value", v) : v \in Dangling(res.body)}

\* space_used: stoi throws for an empty field, and for a number above 2^31 - 1.
\* The number itself is left out.
NumberOutcomes(res) ==
  IF res.result = 200 /\ res.space_used < Word \div 2
  THEN {Returns("number", Null)} ELSE {Returns("exception", Null)}

ResultsOf(a, res) ==
  CASE a.method = "get" -> GetOutcomes(res)
    [] a.method = "del" ->
         {Returns(IF res.result = 200 THEN "true" ELSE "false", Null)}
    [] a.method = "space_used" -> NumberOutcomes(res)
    [] a.method = "destroy" -> {Null}    \* the object is gone
    [] OTHER -> {Returns("nothing", Null)}

-----------------------------------------------------------------------------
(* The object *)

\* The constructor connects.
construct(c) ==
  /\ link[c] = "none" /\ session[c] = "closed" /\ c \notin backlog
  /\ link' = [link EXCEPT ![c] = "up"]
  /\ backlog' = backlog \cup {c}
  /\ UNCHANGED <<serverVars, asked, incoming, returned>>

\* The listener accepts the connection, whatever became of it since.
accept(t, c) ==
  /\ c \in backlog
  /\ on_accept(t, c)
  /\ backlog' = backlog \ {c}
  /\ UNCHANGED <<link, asked, incoming, returned>>

\* Fault: set() does not wait for the response.
Awaited_NotBySet(a) == IF a.method = "set" THEN Null ELSE a

\* The call that send_tcp reads a response for.
Awaited(a) == a

\* A call writes its request.  On a dead connection the write may succeed, but
\* nobody will read it.  (An object can always be destroyed: that is not counted.)
call_begins(c, a) ==
  /\ link[c] # "none" /\ asked[c] = Null
  /\ IF a.method = "destroy" THEN UNCHANGED sent
     ELSE sent < MaxRequests /\ sent' = sent + 1
  /\ asked' = [asked EXCEPT ![c] = Awaited(a)]
  /\ returned' = [returned EXCEPT ![c] = Null]
  /\ inbox' = IF link[c] = "up" /\ (session[c] # "closed" \/ c \in backlog)
              THEN [inbox EXCEPT ![c] = Append(@, prep_req(a))] ELSE inbox
  /\ UNCHANGED <<vars, session, req_, res_, job, acked, link, backlog, incoming>>

\* The call returns what it makes of res; the destructor then closes.
call_returns(c, res) ==
  /\ asked[c] # Null
  /\ \E o \in ResultsOf(asked[c], res) : returned' = [returned EXCEPT ![c] = o]
  /\ asked' = [asked EXCEPT ![c] = Null]
  /\ link' = IF asked[c].method = "destroy" THEN [link EXCEPT ![c] = "none"] ELSE link
  /\ UNCHANGED <<serverVars, backlog>>

response_read(c) ==
  /\ incoming[c] # <<>>
  /\ call_returns(c, Head(incoming[c]))
  /\ incoming' = [incoming EXCEPT ![c] = Tail(@)]

\* Fault: an end of the connection that the server made is not noticed.
Lost_IfBroken(c) == link[c] = "broken"

\* Reading from the connection fails.  There is no timeout: it does not fail as
\* long as the client is not told of the loss.
Lost(c) ==
  \/ link[c] = "broken"
  \/ link[c] = "up" /\ session[c] = "closed" /\ c \notin backlog /\ incoming[c] = <<>>

exchange_fails(c) ==
  /\ Lost(c)
  /\ call_returns(c, Failed)
  /\ UNCHANGED incoming

\* The network loses the connection and the response on its way, if any.
link_breaks(c) ==
  /\ link[c] = "up"
  /\ \E seen \in {"broken", "silent"} : link' = [link EXCEPT ![c] = seen]
  /\ incoming' = [incoming EXCEPT ![c] = <<>>]
  /\ UNCHANGED <<serverVars, backlog, asked, returned>>

\* The client's side of a lost connection is told after all.
link_noticed(c) ==
  /\ link[c] = "silent"
  /\ link' = [link EXCEPT ![c] = "broken"]
  /\ UNCHANGED <<serverVars, backlog, asked, incoming, returned>>

-----------------------------------------------------------------------------
(* The server, with the client at the other end *)

request_served(t, c) == handle_request(t, c) /\ UNCHANGED clientVars
put_continues(t) == ContinuePut(t) /\ UNCHANGED clientVars

\* A written response reaches the client, if the connection still does.
response_written(t, c) ==
  /\ \/ /\ on_write(t, c)
        /\ incoming' = IF link[c] = "up" THEN [incoming EXCEPT ![c] = Append(@, res_[c])]
                       ELSE incoming
     \/ on_write_error(t, c) /\ UNCHANGED incoming
  /\ UNCHANGED <<link, backlog, asked, returned>>

session_ends(t, c) ==
  /\ on_read_error(t, c) \/ (link[c] \in {"none", "broken"} /\ on_read_eof(t, c))
  /\ UNCHANGED clientVars

ClientNext ==
  \/ \E t \in Callers, c \in Conns :
       accept(t, c) \/ request_served(t, c) \/ response_written(t, c) \/ session_ends(t, c)
  \/ \E t \in Callers : put_continues(t)
  \/ \E c \in Conns, a \in CallsMade : call_begins(c, a)
  \/ \E c \in Conns :
       \/ construct(c) \/ response_read(c) \/ exchange_fails(c)
       \/ link_breaks(c) \/ link_noticed(c)

ClientSpec == ClientInit /\ [][ClientNext]_systemVars

\* The server as in CacheServer; a client that waits notices what arrives, and the
\* end of its connection once it is told.  Nothing is assumed of the network and of
\* accepting: a loss may never be told, a connection may stay in the backlog.
ClientFairness ==
  /\ \A t \in Callers : WF_systemVars(put_continues(t))
  /\ \A c \in Conns :
       /\ SF_systemVars(\E t \in Callers : request_served(t, c))
       /\ SF_systemVars(\E t \in Callers : response_written(t, c))
       /\ WF_systemVars(response_read(c) \/ exchange_fails(c))

ClientFairSpec == ClientSpec /\ ClientFairness

-----------------------------------------------------------------------------
(* Properties *)

\* Requests and responses of the object on c that are under way.
InFlight(c) ==
  Len(inbox[c]) + Len(incoming[c]) + (IF session[c] \in {"handling", "writing"} THEN 1 ELSE 0)

\* HTTP responses carry no name of their request, so a response is taken for the
\* answer to the call in progress.  It always is: as long as the connection holds,
\* nothing is under way between two calls and at most one message during a call,
\* also after an exchange that failed.
AnswerBelongsToCall ==
  \A c \in Conns :
    link[c] = "up" => InFlight(c) <= (IF asked[c] = Null THEN 0 ELSE 1)

\* Client and server never wait for each other: as long as a call is in progress,
\* its connection is lost or waits to be accepted, or its response has arrived, is
\* being written or is made by a thread, or its request is at a session that reads.
CallIsMoving ==
  \A c \in Conns :
    asked[c] # Null =>
      \/ Lost(c) \/ link[c] = "silent"
      \/ incoming[c] # <<>> \/ session[c] = "writing"
      \/ \E t \in Callers : job[t] # Null /\ job[t].conn = c
      \/ inbox[c] # <<>> /\ (session[c] = "reading" \/ c \in backlog)

\* The request that waits at the server is the one of the call in progress, and
\* says what the call said: a GET or DELETE names its key, with all its slashes; a
\* PUT whose key and value have no slash names them.
RequestSaysCall ==
  \A c \in Conns :
    link[c] = "up" /\ asked[c] # Null /\ inbox[c] # <<>> =>
      LET said == asked[c]
          req == Head(inbox[c])
      IN  /\ said.method = "set" /\ Plain(said.key) /\ Plain(said.val)
               => req.key = said.key /\ req.val = said.val
          /\ said.method \in {"get", "del"} => req.key = said.key

\* The PUT that waits at the server names the key and the value of its call,
\* whatever they are (cache.hh: "Add a <key, value> pair to the cache").
SetSendsItsPair ==
  \A c \in Conns :
    link[c] = "up" /\ asked[c] # Null /\ inbox[c] # <<>> =>
      (asked[c].method = "set" =>
         Head(inbox[c]).key = asked[c].key /\ Head(inbox[c]).val = asked[c].val)

\* A call need not return: its connection is lost and the client is not told, or it
\* is not accepted, or a set() that never ends holds the thread that serves it or
\* all threads.
Hanging(c) == link[c] = "silent" \/ c \in backlog \/ Starved(c)

\* A client is not stuck in a call for any other reason, whatever the timer of the
\* session, the other clients and a network that reports its losses do.
CallReturns == \A c \in Conns : []<>(asked[c] = Null) \/ <>[]Hanging(c)

\* A get() whose key was found returns the value the server sent (cache.hh:
\* "Retrieve a pointer to the value associated with key in the cache").
GetReturnsValue ==
  [][\A c \in Conns :
       /\ asked[c] # Null /\ asked'[c] = Null /\ asked[c].method = "get"
       /\ incoming[c] # <<>> /\ Head(incoming[c]).result = 200
       => returned'[c].body = Head(incoming[c]).body]_systemVars

=============================================================================
