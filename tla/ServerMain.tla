----------------------------- MODULE ServerMain -----------------------------
(***************************************************************************)
(* The whole server process: main() (cache_server.cc) creates one cache    *)
(* and starts a UDP handler and a TCP listener, whose completion handlers  *)
(* share the threads and the cache.                                        *)
(*                                                                         *)
(* The UDP handler (udp_handler.cc) serves one request at a time, so it is *)
(* one more place Udp in Conns: "reading" while a receive is armed,        *)
(* "handling" inside handle_request, "writing" while the answer is sent,   *)
(* and "closed" when it has no operation under way any more.  Which        *)
(* datagrams arrive, how often and in which order is up to the network.    *)
(* A failed accept only starts the next one and is a stuttering step.      *)
(***************************************************************************)
EXTENDS CacheServer

CONSTANTS
  Udp,        \* the UDP handler
  Senders,    \* where datagrams come from
  Traffic,    \* bound: the requests that peers and datagrams bring
  Garbage     \* what recv_buffer_ holds before the first datagram

\* handle_send does not look at keep_alive.  A datagram may have no bytes.
DatagramRequests == {r \in Requests : r.keep_alive}
Datagrams == [from : Senders, req : DatagramRequests \cup {Null}]

ASSUME MainAssumption ==
  /\ Udp \in Conns
  /\ Null \notin Senders
  /\ Traffic \subseteq Requests
  /\ Garbage \in DatagramRequests /\ Garbage.method = "other"

VARIABLES
  main,                \* what main() is doing
  listening,           \* the listener's constructor came to its end
  datagrams,           \* datagrams in the socket's queue
  recv_buffer_,        \* the request that the bytes in the buffer are
  remote_endpoint_,    \* the sender of the last datagram
  asker                \* history: the sender of the request in hand

udpVars == <<datagrams, recv_buffer_, remote_endpoint_, asker>>
mainVars == <<main, listening, udpVars>>
processVars == <<serverVars, mainVars>>

MainTypeOK ==
  /\ ServerTypeOK
  /\ main \in {"starting", "running", "exited"}
  /\ listening \in BOOLEAN
  /\ datagrams \in Seq(Datagrams)
  /\ recv_buffer_ \in DatagramRequests
  /\ remote_endpoint_ \in Senders \cup {Null}
  /\ asker \in Senders \cup {Null}

MainInit ==
  /\ ServerInit
  /\ main = "starting"
  /\ listening = FALSE
  /\ datagrams = <<>>
  /\ recv_buffer_ = Garbage
  /\ remote_endpoint_ = Null
  /\ asker = Null

-----------------------------------------------------------------------------
(* Start *)

\* The constructor of tcp_listener returns early at the first call that fails.
ListenerCalls == {"open", "set_option", "bind", "listen"}

\* A negative number of threads is refused, 0 makes reserve() throw, and so does
\* the UDP socket when it cannot be bound.  A listener that failed is run all the
\* same: it never accepts.
start(threads, bound, failed) ==
  /\ main = "starting"
  /\ IF threads > 0 /\ bound
     THEN /\ main' = "running"
          /\ listening' = (failed \notin ListenerCalls)
          /\ session' = [session EXCEPT ![Udp] = "reading"]
     ELSE main' = "exited" /\ UNCHANGED <<listening, session>>
  /\ UNCHANGED <<vars, inbox, req_, res_, job, sent, acked, udpVars>>

-----------------------------------------------------------------------------
(* UDP *)

datagram_arrives(d) ==
  /\ main = "running"
  /\ sent < MaxRequests
  /\ sent' = sent + 1
  /\ datagrams' = Append(datagrams, d)
  /\ UNCHANGED <<vars, sessionVars, job, acked, main, listening,
                 recv_buffer_, remote_endpoint_, asker>>

\* Fault: the next receive is armed while the answer is being sent.
Armed_Early == session[Udp] \in {"reading", "writing"} /\ inbox[Udp] = <<>>

\* A receive is armed and has not completed.
Armed == session[Udp] = "reading" /\ inbox[Udp] = <<>>

\* The receive completes.  The handler parses the whole buffer: a datagram
\* without bytes repeats the request that an earlier one left there.
async_receive_from ==
  /\ Armed
  /\ datagrams # <<>>
  /\ LET d == Head(datagrams)
     IN  /\ recv_buffer_' = IF d.req = Null THEN recv_buffer_ ELSE d.req
         /\ remote_endpoint_' = d.from
  /\ datagrams' = Tail(datagrams)
  /\ inbox' = [inbox EXCEPT ![Udp] = <<recv_buffer_'>>]
  /\ UNCHANGED <<vars, session, req_, res_, job, sent, acked, main, listening, asker>>

handle_receive(t) ==
  /\ handle_request(t, Udp)
  /\ asker' = remote_endpoint_
  /\ UNCHANGED <<main, listening, datagrams, recv_buffer_, remote_endpoint_>>

\* After a receive error no new receive is armed.
handle_receive_error(t) ==
  /\ Idle(t)
  /\ Armed
  /\ End(Udp)
  /\ UNCHANGED <<vars, job, sent, acked, mainVars>>

\* Fault: nothing is started after a send that failed.
handle_send_IfSent(t) ==
  /\ Idle(t)
  /\ session[Udp] = "writing"
  /\ \/ do_read(Udp)
     \/ send_NoWrite(Udp, Null) /\ UNCHANGED <<req_, inbox>>
  /\ UNCHANGED <<vars, job, sent, acked, mainVars>>

\* The answer is sent, or lost by a send error; either way a receive is armed.
handle_send(t) ==
  /\ Idle(t)
  /\ session[Udp] = "writing"
  /\ do_read(Udp)
  /\ UNCHANGED <<vars, job, sent, acked, mainVars>>

-----------------------------------------------------------------------------
(* The threads at work *)

tcp_accept(t, c) == listening /\ on_accept(t, c) /\ UNCHANGED mainVars
tcp_request(t, c) == handle_request(t, c) /\ UNCHANGED mainVars
tcp_written(t, c) == (on_write(t, c) \/ on_write_error(t, c)) /\ UNCHANGED mainVars
tcp_end(t, c) == (on_read_eof(t, c) \/ on_read_error(t, c)) /\ UNCHANGED mainVars
continue_put(t) == ContinuePut(t) /\ UNCHANGED mainVars

MainNext ==
  \/ \E threads \in {-1, 0, Cardinality(Callers)}, bound \in BOOLEAN,
        failed \in ListenerCalls \cup {Null} : start(threads, bound, failed)
  \/ \E t \in Callers, c \in Conns \ {Udp} :
       tcp_accept(t, c) \/ tcp_request(t, c) \/ tcp_written(t, c) \/ tcp_end(t, c)
  \/ \E t \in Callers :
       continue_put(t) \/ handle_receive(t) \/ handle_receive_error(t) \/ handle_send(t)
  \/ async_receive_from
  \/ \E d \in Datagrams : d.req \in Traffic \cup {Null} /\ datagram_arrives(d)
  \/ \E c \in Conns \ {Udp}, r \in Traffic : PeerSend(c, r) /\ UNCHANGED mainVars

MainSpec == MainInit /\ [][MainNext]_processVars

\* As for CacheServer; a receive completes when there is a datagram, and the
\* UDP handlers queue for a thread like the others.
MainFairness ==
  /\ \A t \in Callers : WF_processVars(continue_put(t))
  /\ \A c \in Conns \ {Udp} :
       /\ SF_processVars(\E t \in Callers : tcp_request(t, c))
       /\ SF_processVars(\E t \in Callers : tcp_written(t, c))
  /\ WF_processVars(async_receive_from)
  /\ SF_processVars(\E t \in Callers : handle_receive(t))
  /\ SF_processVars(\E t \in Callers : handle_send(t))

MainFairSpec == MainSpec /\ MainFairness

-----------------------------------------------------------------------------
(* Properties *)

\* The UDP handler has one member for the sender's endpoint, which a receive
\* overwrites: until a request is answered, on whichever thread, it is still the
\* endpoint the request came from, so that the answer goes where it belongs.
AnswerGoesToAsker ==
  session[Udp] \in {"handling", "writing"} => remote_endpoint_ = asker

\* The UDP handler keeps taking datagrams from its socket until a receive fails: a
\* failed send, a listener that does not accept, busy connections or a PUT in
\* progress do not stop it.  Only a set() that never ends does, the handler's own
\* or one in every thread.
UdpKeepsAnswering ==
  []<>(datagrams = <<>> \/ session[Udp] = "closed") \/ <>[]Starved(Udp)

=============================================================================
