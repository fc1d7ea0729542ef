------------------------------- MODULE Driver -------------------------------
(***************************************************************************)
(* The benchmark driver (driver.cc) on top of the workload generator:      *)
(* warm() fills the cache with generated sets, baseline_latencies() times  *)
(* generated requests one by one, and baseline_performance() computes a    *)
(* percentile and a throughput from them.                                  *)
(*                                                                         *)
(* The cache is any Cache: it may refuse a value or evict others for it,   *)
(* and a networked one may lose a call or throw.  Of it, held is the set   *)
(* of generated keys it holds.  Latencies are whole microseconds (the code *)
(* keeps milliseconds in a double).  They are sorted before they are used, *)
(* so the vector results is kept as a bag; of the time points t1 and t2    *)
(* only the difference is used.                                            *)
(***************************************************************************)
EXTENDS Generator

CONSTANTS
  Durations,    \* how long a call of the cache may take, in microseconds
  WarmSizes,    \* arguments of warm()
  IntMax,       \* the largest int, 2^31 - 1 in the code
  Garbage,      \* what is read outside a vector, if it is no latency
  MaxReq        \* bound: the largest argument of baseline_performance()

ASSUME DriverAssumption ==
  /\ Durations \subseteq Nat /\ 0 \in Durations
  /\ WarmSizes \subseteq Nat
  /\ IntMax \in Nat /\ MaxReq \in Nat \ {0}

VARIABLES
  phase,     \* the method of the driver that is running
  goal,      \* its argument
  sets,      \* warm(): sets made so far
  held,      \* keys of the values in the cache
  t21,       \* t2 - t1
  timed,     \* history: no request was recorded without taking t1 and t2 for it
  results,   \* per latency, how many requests had it; kept until the next call
  perf       \* what baseline_performance() returned last, or NoScan

driverVars == <<phase, goal, sets, held, t21, timed, results, perf>>
allVars == <<genVars, driverVars>>

PERCENTILE_METRIC == 95

\* The requests that had a latency in S, one element for each.
Requests(r, S) == UNION {{d} \X (1 .. r[d]) : d \in S}

Count(r, S) == Cardinality(Requests(r, S))

Recorded(r) == Count(r, Durations)

Below(d) == {e \in Durations : e < d}
UpTo(d) == {e \in Durations : e <= d}

Performance ==
  [percentile : Durations \cup {Garbage}, total : Nat, nreq : 0 .. MaxReq]

DriverTypeOK ==
  /\ phase \in {"idle", "warm", "measure"}
  /\ goal \in WarmSizes \cup 0 .. MaxReq
  /\ sets \in Nat
  /\ held \subseteq {data_[j].key : j \in DOMAIN data_}
  /\ t21 \in Durations
  /\ timed \in BOOLEAN
  /\ results \in [Durations -> 0 .. MaxReq]
  /\ perf \in Performance \cup {NoScan}

NoResults == [d \in Durations |-> 0]

DriverInit ==
  /\ GenInit
  /\ phase = "idle"
  /\ goal = 0
  /\ sets = 0
  /\ held = {}
  /\ t21 = 0
  /\ timed = TRUE
  /\ results = NoResults
  /\ perf = NoScan

-----------------------------------------------------------------------------
(* The generator at work: its constructor, and gen_req() once it is called *)

Generate ==
  /\ \/ \E n \in ValueSizes, p \in Probs : AddEntry(n, p)
     \/ Shuffle
     \/ gen_scan
     \/ gen_return
  /\ UNCHANGED driverVars

\* The driver is between two requests and may ask for the next one.
CanAsk == Ready /\ request = NoScan

\* The request is used up.
Consume ==
  /\ request' = NoScan
  /\ UNCHANGED <<data_, total_prob_, size_used, built, current_locality_, scan>>

-----------------------------------------------------------------------------
(* warm *)

warm(size) ==
  /\ phase = "idle" /\ CanAsk
  /\ phase' = "warm" /\ goal' = size
  /\ results' = NoResults /\ perf' = NoScan
  /\ UNCHANGED <<genVars, sets, held, t21, timed>>

\* Fault: warm() takes requests of any kind.
SetOnly_Any == FALSE

\* What the cache may hold after a set(): it may have evicted other values, or not
\* have stored this one.
AfterSet(k) == SUBSET (held \cup {k})

\* And after a del(), which may not have reached the cache.
AfterDel(k) == {held, held \ {k}}

\* The set_only with which warm() asks.
SetOnly == TRUE

warm_ask ==
  /\ phase = "warm" /\ sets < goal
  /\ CanAsk
  /\ gen_req(SetOnly)
  /\ UNCHANGED driverVars

warm_apply ==
  /\ phase = "warm" /\ request # NoScan
  /\ IF request.method = "set"
     THEN sets' = sets + 1 /\ held' \in AfterSet(request.key)
     ELSE UNCHANGED <<sets, held>>
  /\ Consume
  /\ UNCHANGED <<phase, goal, t21, timed, results, perf>>

warm_return ==
  /\ phase = "warm" /\ sets >= goal
  /\ phase' = "idle" /\ goal' = 0 /\ sets' = 0
  /\ UNCHANGED <<genVars, held, t21, timed, results, perf>>

-----------------------------------------------------------------------------
(* baseline_performance, with baseline_latencies inside *)

baseline_performance(nreq) ==
  /\ phase = "idle" /\ CanAsk
  /\ phase' = "measure" /\ goal' = nreq
  /\ results' = NoResults /\ perf' = NoScan
  /\ UNCHANGED <<genVars, sets, held, t21, timed>>

\* Fault: the loop runs once too often.
MoreToMeasure_OneMore == Recorded(results) <= goal

\* i < nreq
MoreToMeasure == Recorded(results) < goal

latencies_ask ==
  /\ phase = "measure" /\ MoreToMeasure
  /\ CanAsk
  /\ gen_req(FALSE)
  /\ timed' = TRUE
  /\ UNCHANGED <<phase, goal, sets, held, t21, results, perf>>

Record(latency) ==
  /\ results' = [results EXCEPT ![latency] = @ + 1]
  /\ Consume
  /\ UNCHANGED <<phase, goal, sets, perf>>

\* The methods baseline_latencies() has a branch for.
Branches == {"get", "set", "del"}

latencies_timed(d) ==
  /\ phase = "measure" /\ request # NoScan
  /\ request.method \in Branches
  /\ held' \in CASE request.method = "set" -> AfterSet(request.key)
                [] request.method = "del" -> AfterDel(request.key)
                [] OTHER -> {held}
  /\ t21' = d
  /\ UNCHANGED timed
  /\ Record(d)

\* No branch: no call is made, and the old time points are used again.
latencies_untimed ==
  /\ phase = "measure" /\ request # NoScan
  /\ request.method \notin Branches
  /\ timed' = FALSE
  /\ UNCHANGED <<held, t21>>
  /\ Record(t21)

\* The get() of a networked cache throws when its exchange failed.  Nothing here
\* catches it: the vector is lost and nothing is returned.
latencies_throw ==
  /\ phase = "measure" /\ request # NoScan
  /\ request.method = "get"
  /\ phase' = "idle" /\ goal' = 0 /\ t21' = 0 /\ timed' = TRUE
  /\ results' = NoResults
  /\ Consume
  /\ UNCHANGED <<sets, held, perf>>

\* The sorted vector.
Sorted(r) ==
  [j \in 1 .. Recorded(r) |->
     CHOOSE d \in Durations :
       /\ Count(r, Below(d)) < j
       /\ j <= Count(r, UpTo(d))]

\* accumulate() starts from the int 0, so every partial sum is cut to whole
\* milliseconds.
Accumulate(s) ==
  LET sum[j \in 0 .. Len(s)] ==
        IF j = 0 THEN 0 ELSE (1000 * sum[j - 1] + s[j]) \div 1000
  IN  sum[Len(s)]

\* index, which is 95 * nreq / 100, is a position of s (counted from 0).
IndexDefined(s, nreq) ==
  /\ PERCENTILE_METRIC * nreq <= IntMax
  /\ (PERCENTILE_METRIC * nreq) \div 100 < Len(s)

\* Fault: the position is counted from one.
Percentile_FromOne(s, nreq) ==
  LET index == (PERCENTILE_METRIC * nreq) \div 100
  IN  IF IndexDefined(s, nreq) THEN {s[IF index = 0 THEN 1 ELSE index]}
      ELSE Durations \cup {Garbage}

\* What the percentile of a sorted vector of nreq latencies may be: a product that
\* overflows and a place outside the vector are undefined.
Percentile(s, nreq) ==
  IF IndexDefined(s, nreq) THEN {s[((PERCENTILE_METRIC * nreq) \div 100) + 1]}
  ELSE Durations \cup {Garbage}

performance_return ==
  /\ phase = "measure" /\ request = NoScan /\ Ready /\ ~MoreToMeasure
  /\ \E p \in Percentile(Sorted(results), goal) :
       perf' = [percentile |-> p, total |-> Accumulate(Sorted(results)), nreq |-> goal]
  /\ phase' = "idle" /\ goal' = 0 /\ t21' = 0 /\ timed' = TRUE
  /\ UNCHANGED <<genVars, sets, held, results>>

\* set_request(), del_request() and reset() forward to the cache; so do
\* get_request() and head_request(), which leave held as it is.
forward ==
  /\ phase = "idle"
  /\ \/ \E k \in {data_[j].key : j \in DOMAIN data_} :
          held' \in AfterSet(k) \/ held' \in AfterDel(k)
     \/ held' = {}
  /\ UNCHANGED <<genVars, phase, goal, sets, t21, timed, results, perf>>

-----------------------------------------------------------------------------
Work ==
  \/ Generate
  \/ warm_ask
  \/ warm_apply
  \/ warm_return
  \/ latencies_ask
  \/ \E d \in Durations : latencies_timed(d)
  \/ latencies_untimed
  \/ latencies_throw
  \/ performance_return

DriverNext ==
  \/ Work
  \/ \E size \in WarmSizes : warm(size)
  \/ \E nreq \in 0 .. MaxReq : baseline_performance(nreq)
  \/ forward

DriverSpec == DriverInit /\ [][DriverNext]_allVars

\* A method of the driver runs on once it is called, and the calls it makes of the
\* cache return.
DriverFairSpec == DriverSpec /\ WF_allVars(Work)

-----------------------------------------------------------------------------
(* Properties *)

\* The percentile returned is one: it is a recorded latency's value, no more than 95
\* of 100 latencies are below it and at least that many are not above it.  Of no
\* latencies there is none, nor when the product overflows.
PercentileRight ==
  perf # NoScan /\ perf.nreq > 0 /\ PERCENTILE_METRIC * perf.nreq <= IntMax =>
    /\ perf.percentile \in Durations
    /\ 100 * Count(results, Below(perf.percentile)) <= PERCENTILE_METRIC * perf.nreq
    /\ 100 * Count(results, UpTo(perf.percentile)) >= PERCENTILE_METRIC * perf.nreq

\* Every call of warm() and of baseline_performance() returns or throws, as long as
\* the calls of the cache return: warm() too when the cache stores nothing.
BenchmarkReturns == phase # "idle" ~> phase = "idle"

\* Each recorded latency is that of the request it is recorded for (README.md:
\* "timing the latency of that request to the cache and recording it in the
\* vector").
LatencyIsMeasured == timed

=============================================================================
