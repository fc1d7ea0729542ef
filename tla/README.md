# TLA+ models of the cache server and its benchmark

The repository is an in-memory key-value cache (`src/cache`) served over HTTP,
a client for it, and a benchmark (`src/gen.cc`, `src/driver.cc`) that drives the
cache with a generated workload. This directory holds TLA+ modules of its core,
TLC configurations that check them on small instances, and theorems proved with
TLAPS.

Check a configuration with `tlc -config CacheLib.cfg MCCacheLib.tla`, the proofs
of a module with `tlapm CacheLibProofs.tla`.

## 1. The system

| Component | Source | State | Operations | What is hard |
|---|---|---|---|---|
| Cache library | `cache/cache_lib.cc`, `cache.hh` | `dict_` (key to value and size), `size_`, `maxmem_`, `evictor_` | `set`, `get`, `del`, `space_used`, `reset` | `set` is a loop of evictions that must end; a counter kept by hand; `get` inserts empty entries; `uint32_t` arithmetic; no lock |
| FIFO evictor | `cache/fifo_evictor.cc` | a queue of keys | `touch_key`, `evict` | keys are queued repeatedly and never removed on deletion; empty queue |
| Request processor | `cache/request_processor.hh` | none | `handle_request` | PUT is a lookup followed by a set; status codes; keep-alive |
| TCP session | `cache/session.hh` | stream, buffer, `req_`, `res_` | `do_read`, `on_read`, `send`, `on_write`, `do_close` | callback chain, pipelined requests, one timer for read and write |
| TCP listener | `cache/tcp_listener.cc` | acceptor | `do_accept`, `on_accept` | one strand per connection; error paths |
| Server main | `cache/cache_server.cc` | cache, evictor, `io_context`, threads | `main` | several threads, one unlocked cache |
| UDP handler | `cache/udp_handler.cc` | receive buffer, peer endpoint | `start_recieve`, `handle_receive`, `handle_send` | re-arming, left-over bytes, lost datagrams |
| Cache client | `cache/cache_client.cc` | stream, UDP socket | the `Cache` interface over HTTP | failures become status 499; no reconnect; a read without a timeout |
| Wire format | `cache/kv_json.hh`, targets | none | `kv_json`, splitting of targets | what a key or value may contain |
| Generator | `gen.cc` | `data_`, `total_prob_`, `current_locality_` | constructor, `gen_req` | index arithmetic, wrap-around, termination |
| Driver | `driver.cc` | cache, generator | `warm`, `baseline_latencies`, `baseline_performance`, `reset`, forwards | termination, percentile index, stale time points |

Not part of the program: `cache/listener.*` and `cache/helpers.hh` (earlier
versions that the makefile does not build), `catch.hpp` (vendored), the tests,
the plots.

How the parts interact: `main` creates one FIFO evictor and one `Cache` that uses
it. The listener and the UDP handler hold a pointer to the cache and start
operations on one `io_context`; its threads (one by default) run the completion
handlers. Each accepted connection becomes a session; `on_read` calls
`handle_request`, which calls the cache synchronously, and `on_write` starts the
next read. The UDP handler does the same with datagrams, one at a time. The
client implements the `Cache` interface by a synchronous request and response on
one connection. The driver takes any `Cache` and a `Generator`.

What makes each part correct:

- Cache library: `space_used()` is the number of bytes stored; it never exceeds
  `maxmem`; a stored value is the last one set; nothing is dropped unless room
  is needed; `set` returns.
- Evictor: every stored key stays reachable by evictions.
- Processor and session: each request is answered or its connection closed; a
  GET finds the last acknowledged value or none; status codes tell the truth;
  one handler per session at a time.
- UDP handler: it takes the next datagram after each one, whatever became of the
  answer; an answer goes to the sender of its request.
- Client: a response is the answer to the call in progress; each call returns,
  also when its connection is reported gone; the pair of a `set` is the one stored
  (it is not, if there is a slash in it: `CacheClient_slash`).
- Generator: sizes are positive, index in the vector, the entry selected is the one the
  probabilities say, `gen_req` returns.
- Driver: each latency is one of its request, the percentile is a percentile,
  the throughput a mean, `warm` returns.

`PROJECT.json` lists the hazards at their lines, with the properties that cover
them.

## 2. The modules

| Module | Models | Extends / uses |
|---|---|---|
| `FifoEvictor` | the evictor's queue | |
| `CacheLib` | class `Cache`, one action per operation | extends `FifoEvictor`, instantiates `BoundedStore` |
| `BoundedStore` | what `cache.hh` promises, without counter, queue and empty entries | |
| `CacheServer` | sessions, request processor, threads | extends `CacheLib` |
| `ServerMain` | the process: start, listener, UDP handler, TCP sessions | extends `CacheServer` |
| `Wire` | how keys and values travel in a target | |
| `CacheClient` | the networked client, composed with the server | extends `CacheServer`, `Wire` |
| `Generator` | constructor and `gen_req` | |
| `Driver` | `warm`, the baselines, the forwarding methods | extends `Generator` |
| `CacheLibProofs`, `CacheStoreProofs` | theorems about the library, its refinement | extend `CacheLib` |
| `CacheServerProofs`, `ServerValueProofs`, `ServerMainProofs`, `CacheClientProofs` | theorems about the server, the process, the client | extend their module and the proofs below it |
| `GeneratorProofs`, `DriverProofs` | theorems about the generator, the driver on top of it | extend `Generator`, `Driver` |
| `MC...` | constants for TLC | extend their module |

Definitions whose name ends in a suffix such as `_Never` and whose comment
starts with "Fault:" are deliberately wrong variants. They are used by no
specification; replacing the original by one must make a property fail
(`mutants` in `PROJECT.json`), which shows that the property can fail.

### CacheLib

| Model | Code |
|---|---|
| `dict_[k]` is `Absent`, or a record of `val` and `size` | `dict_`; `Absent` is `find(key) == end()`, `val = Null` is `nullptr` |
| `size_`, `Plus`, `Minus`, `Word` | `size_` and `uint32_t` arithmetic (modulo `Word`) |
| `contents_` | the evictor's queue |
| `evictor_` | whether the constructor was given an evictor: a variable that no step changes, so one run covers both |
| `call[t]` | the arguments of the `set` that caller `t` is inside of |
| `get` | `touch_key`, then `operator[]`, which inserts `Phantom` for a missing key |
| `del`, `reset` | the same; the queue is left alone |
| `SetReject`, `SetBegin` | lines 34-41 of `set`: `DropOld`, then `Refused` without evictor |
| `SetEvict` | one turn of the loop: `del(evict())` |
| `SetInsert` | the rest: `insert` (which keeps an existing entry), count, touch |

`set` is split at the loop because that is where its intermediate states matter:
the limit must hold in each of them, termination is a statement about the
turns, and with several threads other calls fall between them. Other calls are one action; that
is finer than one thread needs and coarser than the data race of several
threads, see the run `CacheServer_threads`. Hash function and load factor do
not influence any result and are left out, as are the bytes of a value.

`BoundedStore` is the promise of `cache.hh:51-71`. `CacheLib` implements it
under the mapping that hides the counter, the queue and the empty entries
(`AbstractStore`). In it eviction is allowed only while the stored bytes and the
new value do not fit: evicting too much is an error, not only too little.
A refusal looks like a deletion to it, so that a refusal is justified is a
property of its own (`RefusesOnlyForRoom`).

### CacheServer

`session[c]` is `"reading"`, `"handling"`, `"writing"` or `"closed"`, which is
the asynchronous operation (or handler) the session has under way. `inbox[c]`
are requests that arrived and are not parsed yet, so peers may pipeline.
`job[t]` is the PUT that thread `t` is in the middle of: a handler occupies its
thread, so with one thread (`Callers` a singleton, the default of `--threads`)
nothing else of the server runs during a PUT, while requests still arrive.
`handle_get` ... `handle_other` are `on_read` with the branch of
`handle_request` for a method and the start of the write; PUT is `put_lookup`
(the `get`), `put_set`, `put_evict` and `put_reply`. `on_read_eof`,
`on_read_error`, `on_write`, `on_write_error` are the other outcomes. The 30 s
timer of `do_read` is not reset before the write, so both `on_read_error` and
`on_write_error` may happen at any time of their operation. `acked` is a history
variable: the value of the last PUT of a key since it was deleted or reset.
A slot of `Conns` is used again after a close. `PeerSend` is the environment.

### ServerMain

`start` is `main` up to the threads: a negative thread count ends the program,
0 makes `reserve` throw, a UDP socket that cannot be bound throws; a listener
whose constructor gave up (at any of its four calls) is run all the same and
never accepts. The UDP handler serves one request at a time, so it is one more
place `Udp` in `Conns`, with the same four states, and its requests go through
the same `handle_request` actions (`handle_receive`); what differs is modelled
by actions of its own: `async_receive_from` completes an armed receive and fills
the one receive buffer and the one `remote_endpoint_`, `handle_receive_error`
arms nothing again, `handle_send` re-arms after a send that worked or failed.
`datagrams` is what the socket holds; the environment puts any datagram there at
any time (`datagram_arrives`), so loss, repetition and reordering on the way are
choices of it. The handler parses the whole buffer, so a datagram without bytes
repeats the request before; what is left over by a datagram that is only shorter
is not modelled.

`asker` is a history variable: who sent the request in hand. That
`remote_endpoint_` still equals it when the answer is sent is `AnswerGoesToAsker`.

### Wire and CacheClient

`Wire` is the one module in which strings are sequences of characters, because
its property is about them: `PutTarget`, `KeyTarget` build targets as the client
does, `PutKeyOf`, `PutValOf` (two calls of `getline`) and `KeyOf` take them apart
as the request processor does.

A client object is the peer of one connection: `CacheClient` takes
`CacheServer` without its free `PeerSend` and puts the client in its place.
`call_begins` writes the request of a call (`prep_req`, through `Wire`),
`response_read` and `exchange_fails` are the two ends of `send_tcp`, and
`ResultsOf` is what each method makes of a response, status 499 included.
`construct` connects and `accept` is the server's half of it: in between, perhaps
forever, the connection is in `backlog` and takes requests that nobody reads.
`link[c]` is the connection as the client knows it, never opened again;
`link_breaks` loses it with what was on its way, and the client is told
(`"broken"`) or not (`"silent"`, until `link_noticed`, which may never come);
`session_ends` is the server's timer or its discovery of the loss. An exchange
fails only on a connection whose end the client can see (`Lost`): `http::read` has
no timeout. `Dangling` is what is read through a pointer
to a string that is gone: undefined, so the value or anything else. The
destructor is the call `"destroy"`. Keys and values with a slash are among the
arguments: a PUT with one stores another pair (`SetSendsItsPair`, which the code
violates; `RequestSaysCall` is what does hold). `WireExact` says the same of the
targets alone; it has no variables, so `MCCacheClient` assumes it and TLC
evaluates it over all strings up to `MaxLen`.

### Generator and Driver

Every random draw is a choice. `AddEntry` is one turn of the constructor's
loop, `gen_scan` one of `gen_req`. `LowSize` is the clamp of the first of the
three size distributions; draws from the other two stay a set of sizes. The fraction `ShiftNum / ShiftDen` stands for
the `double` `locality_shift_`; with rational numbers the products are exact,
so the effects of floating point rounding on the start index are not covered.
The driver's cache is any `Cache`: `AfterSet` and `AfterDel` let it refuse a value,
evict others and lose calls, and `latencies_throw` is the exception of a networked
`get` (`cache_client.cc:163`), which leaves `baseline_performance`. The calls it makes
are assumed to end. Latencies are whole
microseconds in a bag, because they are sorted before use and the code's order
does not matter otherwise; the `int` sum of milliseconds is modelled by what it
does (`Accumulate`). Requests of unknown method keep the difference of the old
time points (`latencies_untimed`, `t21`). The percentile of 0 requests reads
`latencies[0]` of an empty vector, and from 22 605 092 requests on `95 * nreq`
overflows an `int`: both are undefined, and `Percentile` is then any latency or
`Garbage`. `IntMax` is a constant, 1995 in the run, so that 22 requests overflow.
`forward` is
`set_request`, `del_request` and `reset`; the other two forwards do not change
what the cache holds.

## 3. What is checked

Runs that pass:

| Run | What it shows | Bounds |
|---|---|---|
| `CacheLib` | types; `Accounting`, `Capacity`, `QueueCoversDict`, `InsertIsFresh`, `LoopCanProceed`; implements `BoundedStore`; `RefusesOnlyForRoom`; `LoopShrinksQueue`, `SetReturns` | with and without evictor, 3 keys with the empty one, 2 values, sizes 1, 3 and 5, `maxmem` 4, no call starts with 5 touches queued |
| `CacheServer_safety` | types; `NoStaleValue`, `PutStoresItsValue`, `ValueKeptUntilRoomNeeded` | 2 symmetric connections, 1 thread, 2 keys, 2 values of 2 and 3 bytes with `maxmem` 5, 3 requests |
| `ServerMain` | types; `OneThreadPerSession`, `HandlingHasThread`, `AnswerGoesToAsker`, `SpinsForCause`, `UdpKeepsAnswering`, `EveryRequestServed` | 2 threads, 1 TCP connection and the UDP handler, 2 senders, 3 requests or datagrams out of 5 (`Traffic`) and the empty datagram, 2 keys, values of 2, 3 and 5 bytes with `maxmem` 4 |
| `CacheClient` | types; `AnswerBelongsToCall`, `CallIsMoving`, `RequestSaysCall`, `CallReturns`; `WireExact` as an assumption | 2 clients, 1 thread, 2 calls out of `CallsMade` and any number of destructors; a key with a slash and one without, a value with a slash and one without, of 2 and 3 bytes with `maxmem` 2; strings up to length 3 over 3 characters |
| `Generator` | `GenTypeOK`, `IndexInBounds`, `ScanIsOneLap`, `ScanAdvances`, `GenReturns` | low draws 0 and 4 (sizes 2 and 4) up to a total above 6 (2 to 4 entries), probabilities 0, 1 and 3, `locality_range_` 2, shift 2/3, so three localities |
| `Driver` | types; `PercentileRight`, `BenchmarkReturns` | one entry, durations 0 and 400 us, 0 to 22 requests, `IntMax` 1995 |

Five of these properties are safety halves of liveness properties. Each says
what must not happen for the system to get on, needs no fairness, and is proved:
`LoopShrinksQueue` (each turn of the loop of `set` that changes anything uses up a
queued key, so there are finitely many of those) and `LoopCanProceed` (the turns
that change nothing are those of a value larger than `maxmem`) for `SetReturns`,
`HandlingHasThread` (a session in a handler has a thread) for `EveryRequestServed`, `CallIsMoving` (client and server never
wait for each other) for `CallReturns`, and `ScanAdvances` (each turn of the scan
passes a further entry and never the last one) for `GenReturns`.

`SpinsForCause` belongs with them: `Spins` is a `set` that never ends, and the
progress properties of the server make no claim about what waits for one.

What the progress properties leave open. Both transports run `set` in their
handlers, and `set` may spin (`CacheLib_oversize`; with several threads also when
the counter has drifted, `CacheServer_threads`). `EveryRequestServed`,
`UdpKeepsAnswering` (in a run in which both happen) and `CallReturns` (with one thread,
so the first) say that nothing but this keeps a request waiting: neither other connections, nor timers,
nor errors. `Starved(c)` is the exception: the thread that serves `c` spins, or all
do. `Hanging(c)` adds for a client that its connection is lost without its being
told or not accepted. A listener whose accepts fail tries again at once; this is a
stuttering step here, so the time it takes from other handlers is not modelled.

Why the bounds suffice for what they claim. In the library runs sizes 1 and 3
with limit 4 give an exact fit, a fit by one, a miss, and a `set` that needs two
or more evictions, and size 5 never fits; five queued touches are enough for a
stale key, a repeated key and the empty key in the queue at once. `Word` is 16
there, so that a counter that drifts below zero or above the limit is seen, while
no legal sum (`4 + 5`) wraps: the wrap itself is outside the bounds and excluded by
an assumption of the theorems (`NoWrap`). In `CacheServer_safety` the two values fit
together exactly and the larger one does not fit twice, so that some PUTs evict and
some just fit; three requests are the shortest sequence of a PUT, a change by
another connection and a GET or PUT that could see it. In `ServerMain` the limit is
4, so that two PUTs evict each other, the value of 5 bytes spins in its thread, and
two PUTs of one key that meet in two threads make the counter drift until a third
one spins: this is why three requests are allowed there, and why the requests are
the five of `Traffic`, which contain all these cases, and not all possible ones. Two datagrams are enough for the
second one to arrive while the first is handled or its answer sent, two senders
to tell whose answer it is. The process may stop there (no requests left), so
deadlock is not checked in that run only. In `CacheClient` a value of 2 bytes needs the
whole cache and one of 3 never fits, so a `set` may hang the server's one thread.
Two calls are the shortest sequence in
which a response could be taken for that of another call, and two clients the
fewest of which one resets what the other uses. 20 is the first number of requests at which 95 percent is exact, 21 the next one,
and 22 overflows. One entry is enough for the driver, which looks only at the
method of a request; which entry is drawn is the matter of `Generator`. The generator's probabilities include 0, the case in which a
scan could fail to end.

Runs that end in a violation, each of a sentence the repository says:

| Run | Violated | What the trace shows |
|---|---|---|
| `CacheLib_oversize` | `EverySetReturns` | a value larger than `maxmem` on a cache with evictor: the loop of `set` evicts the empty key forever (`cache.hh:54-56`) |
| `CacheServer_threads` | `Accounting` | two threads inside `set` of one key: the second `insert` does nothing and the counter counts both (`cache.hh:67`, `cache_server.cc:41`) |
| `CacheServer_delete` | `DeleteTellsTruth` | GET of a missing key, then DELETE of it answers 200 (`cache.hh:64`, `request_processor.hh:124`) |
| `CacheClient_get` | `GetReturnsValue` | `get` returns what a dangling pointer shows, not the value (`cache.hh:59-60`, `cache_client.cc:164`) |
| `CacheClient_slash` | `SetSendsItsPair` | the server splits a PUT's target at every slash: a value with one is cut, a key with one stored under another name (`cache.hh:51-52`) |
| `Driver_deletes` | `LatencyIsMeasured` | a `"delete"` meets no branch, the previous time is recorded (`README.md:35`) |

Three more places where the repository's README differs from the code, seen while
modelling and not worth a run: the sum of the latencies starts from an `int` 0
(`driver.cc:112`), so each partial sum is cut to whole milliseconds, and the
throughput is not the mean that `src/README.md:37` reports (`Accumulate` models the
sum); `warm(size)` makes `size` sets (as its own comment
says) and does not look at the space used (`src/README.md:33`); the
identifier in a generated key has `(int)log10(1000000 - i)` zeros before `i`, so
seven digits for key 0, and not six (`src/README.md:12`).

`CacheServer_threads` uses interleavings of whole calls and of the turns of
`set`. The data race inside a call is undefined behaviour and could only add
outcomes.

### Fairness

- `CacheLib`: weak fairness of the turns of `set` per caller. It is a plain
  loop in a running thread.
- `CacheServer`: weak fairness of a PUT that has started; strong fairness of
  the handlers of a session that has a request, and of the end of a write. The
  `io_context` runs completed operations in the order in which they complete,
  so a handler that is ready over and over is run although the thread is taken
  in between; a write completes, with an error from the timer if not otherwise.
  Nothing is assumed of peers, of new connections or of a read with no request.
- `ServerMain`: the same; the UDP handlers queue for a thread like the others
  (strong fairness of `handle_receive` and `handle_send`), and a receive
  completes when the socket has a datagram (weak fairness). Receive errors,
  datagrams and accepts are left to the environment.
- `CacheClient`: the server's fairness, and a client that waits in `http::read`
  takes a response that has arrived, and an end of its connection that it has been
  told of (weak fairness). Nothing is assumed of the network and of the listener:
  a loss may never be told, a connection may stay in the backlog. Nor of new calls.
- `Generator`, `Driver`: weak fairness of the loops. For the driver this includes
  that each call of the cache ends, which `SetReturns` and `CallReturns` say under
  conditions.

## 4. What is proved

All theorems hold for every set of keys, values, sizes, threads and
connections, every limit and every bound.

**`CacheLibProofs`**, with or without an evictor:

- `TypeCorrect`: types, for any number of callers.
- `CacheInvariant`: the inductive invariant `CacheInv`. It joins four facts
  that are not inductive on their own. The counter is the number of stored
  bytes (`Accounting`) only if `insert` really stores what it counts, which
  needs that the key of a `set` in progress is not in the map
  (`InsertIsFresh`), and this in turn that nobody adds it meanwhile (one
  caller). The limit follows from the counter and the loop's test, if
  the sum does not wrap. That every key of the map is queued
  (`QueueCoversDict`) needs that an eviction, which pops a key, also takes it
  out of the map. The sum of the sizes is written as the cardinality of a set
  with one element per byte (`ValueBytes`), so that the facts about adding and
  removing an entry are facts about finite sets.
- `SafeCache`, `LimitHolds`, `InsertsStore`: the safety
  properties, from it.
- `LoopNeverStarves`, `TurnsUseUpKeys`: the loop of `set` has a key to evict unless
  its value is larger than `maxmem`, and each turn that changes anything uses one
  up. An empty queue means an empty map, so a counter of 0, so room for every
  other value (`QueueSuffices`).
- `EvictionReachesAll` and `SpinsHaveCause` need neither one caller nor `NoWrap`: for
  any number of threads every stored key stays queued, so a `set` that is stuck
  with an empty queue has a value that is too large or meets a wrong counter.

**`CacheStoreProofs`**: the library implements the store that `cache.hh` promises
(`CacheImplementsStore`). The mapping hides the counter, the queue and the
empty entries, so `get` and the loop's pops of stale keys are stutters. Beside
`CacheInv` this needs that an entry without a value has size 0 (`EmptyOK`):
otherwise the bytes the code counts would not be those the store sees, and an
eviction would not be justified. `RefusalsAreJust`: `set` gives up only when the
value does not fit beside the bytes that stay.

**`CacheServerProofs`**:

- `JobInvariant`, `SessionsAreStranded`: for any number of threads and
  connections, a session is inside at most one handler. The invariant `JobInv`
  says that a job's session is `"handling"`, its request is a PUT, and no two
  jobs share a session; a handler starts only on a session that is `"reading"`.
- `HandlersRun`: a session that is handled has a thread inside it. This is the
  converse of `JobInv`, and inductive next to it.
- `ServerUsesLibrary`: every step of the server is one operation of `CacheLib`
  or leaves the cache alone, so `ServerSpec => Spec`.
- `ServerSafe`: with one thread, accounting and limit hold for the server, by
  the theorems before.
- `ServerTypeCorrect`: types, and that what is being written is a response.

**`ServerValueProofs`**, for one thread: `NothingStale`, `PutsStore` and
`ValuesAreKept`, which state `NoStaleValue`, `PutStoresItsValue` and
`ValueKeptUntilRoomNeeded`. The invariant `ValueInv` adds to the properties
that the `set` in progress is the one of the PUT in progress, with its key, its
value and its size (`PutInv`); without that an insert could store anything.
The lemmas are about single steps and take what is known of a state (`Known`,
`Facts`) as hypotheses, so the two modules that follow use them for their own
specifications: a step of theirs that is no step of `CacheServer` leaves the
values, the threads and the requests in hand alone (`ApartStep`, `ApartKeeps`).

**`ServerMainProofs`**: `EveryHandlerAlone` (the UDP handler, which has no strand,
is nevertheless inside one handler at a time), `AnswersReachAsker`,
`MainUsesLibrary`, `MainSafe`, `MainTypeCorrect`. `MainInv` adds to `JobInv` that
nothing runs before the start, that the buffer holds a request, and that the
endpoint is still the asker's while an answer is due: a receive cannot complete
then, because none is armed. `MainHandlersRun` is `HandlersRun` with the UDP
handler among the sessions. With one thread, what is proved of the values holds
under both transports together (`MainValuesRight`, `MainValuesKept`, `MainPutsStore`), and the
process implements `BoundedStore` (`MainImplementsStore`). `MainSpinsHaveCause` is
for any number of threads.

**`CacheClientProofs`**, for any number of clients and threads:

- `AnswersBelong`, `ClientsUseLibrary`, `ClientTypeCorrect`. `ClientInv` says for
  each connection that holds: a request, a handler, a write or a response is
  under way only during a call, and at most one of them; a lost connection
  delivers nothing any more.
- `CallsMove`: the other direction. During a call on a connection that both ends
  hold, something is under way (`MovingInv`); with `HandlingHasThread` this says
  that somebody is there to move it on; a connection that only one end holds is
  one whose loss the client notices, or is not told of, or one in the backlog.
- `WireAlwaysExact`, `RequestsSay`: keys and values of any length; what a PUT with a
  slash sends is `WireExact`'s other half: not its pair. What `getline`
  takes is the part before the first slash; that there is a first one is a fact
  about the least element of a set of naturals (`LeastNatural`, from the
  library's theorem that `<` is well-founded), so no induction over strings is
  needed. `AskedInv` ties the request that waits to the call in progress: with
  `ClientInv` there is no other it could be of.
- With one thread in the server: `ClientValuesRight`, `ClientValuesKept`,
  `ClientPutsStore`, `ClientsImplementStore`, which say of all clients together what the theorems
  above say of the server.

**`GeneratorProofs`**, for every vector, locality range, shift and all
probabilities:

- `GenTypeCorrect` and `ScanStaysInBounds`, from `GenInv`: the locality is below
  its limit, `data_` is not empty once built, and so the first index and each
  following one are in the vector.
- `ScanLapsOnce` and `ScanTurnsBounded`, from `LapInv`: `total_prob_` is the sum of
  all probabilities, also after the shuffle, and the running total that of the
  entries passed. Each sum is the cardinality of a set with one element per
  unit of probability (`ProbUnits`), as with the bytes of the cache: a turn adds
  the units of an entry that is not yet in the set, since the positions passed
  are the ones after the start, modulo the length, and do not repeat before a
  lap is full (`GoingRound`). When all but one entry are passed, the last one
  brings the running total to the total, hence up to the target: the scan
  cannot begin a second lap.

**`DriverProofs`**, for every number of requests up to `MaxReq`, every set of
durations and any sharing of the latencies:

- `DriverTypeCorrect`, `PercentileIsRight`, `DriverScansRight`, from `DriverInv`. It
  joins `LapInv` with what the phases of `warm` and `baseline_performance` have
  done so far; that the bag of latencies holds as many as were recorded is what
  makes the index of the percentile one of the vector. The latencies are
  counted by sets with one element per request (`Requests`). The entry at a
  position of the sorted vector is the least duration up to which enough
  requests are counted (`LeastNatural` again), and the two halves of
  `PercentileRight` are that it reaches the position and that no smaller one
  does.

Assumptions, beside those on the constants (each module's `...Assumption`):
`SingleCaller` (the default of one thread) and `NoWrap` (`maxmem` plus any size
stays below 2^32). `CacheInvariant` and everything that follows from it need both;
the theorems on types, on the queue and the causes of a stuck `set`, on handlers,
endpoints, connections, requests, the generator and the driver need neither. Both
are needed: `CacheServer_threads` is a counterexample without the first, and
without `NoWrap` a sum `space_used() + size` that wraps passes the test for room
(with `Word` 8, `maxmem` 5 and sizes 2 and 7, TLC finds `Capacity` violated).

Every invariant of a passing run and every action property is stated by a
theorem. Only model-checked: all liveness (`SetReturns`, `EveryRequestServed`,
`UdpKeepsAnswering`, `CallReturns`, `GenReturns`, `BenchmarkReturns`), since the
prover does not handle fairness and `ENABLED`; of the first, second, fourth and
fifth of them the safety halves of section 3 are proved. The properties of the
runs that end in a violation are false. What `Accumulate` returns, a recursive
function over the vector, is known only to be a natural number.

## 5. Plan

Done: all modules of section 2 with their runs, and a proof of every safety
property of a passing run.

Left, in this order:

1. Proofs: what a client's `get` returns in terms of the acknowledged values (with
   the history of the call), and the termination measure of `warm`.
2. `ValueCopy`: the copy loop of `set` and the `strncpy` of GET, for values with
   an inner terminator or a size that differs from their length.
3. What a datagram that is shorter than the one before leaves in the receive
   buffer: requests as sequences of a few symbols in place of whole ones.
4. The JSON text of GET's answer for keys and values with quotes and
   backslashes, as far as `kv_json.hh` and not the library decides it.

Not modelled, and why:

- The bytes of a value and the text of JSON: the models only tell values apart.
  `kv_json` is a pair; the library that writes and reads JSON is not part of the
  repository.
- Blanks and percent signs in targets: the client does not encode them, and
  what happens then is decided by the HTTP library's parser.
- `send_udp` of the client: no method calls it.
- The constructor of the client stops the program if it cannot connect; in the
  model a constructor that returns has connected, which does not mean that it was
  accepted.
- Exceptions out of handlers (they end a worker thread): no modelled operation
  throws one on the server's side.
- Option parsing in `main`, straight-line code before `start`.
- The two forwards of the driver that leave its contents alone, `get_request` and
  `head_request`.
- The test programs, the unbuilt older sources, the vendored framework, the
  makefile and the plots.
