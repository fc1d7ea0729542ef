------------------------------ MODULE Generator ------------------------------
(***************************************************************************)
(* The workload generator (gen.cc).  The constructor fills data_ with      *)
(* entries (key, value size, probability) until their sizes add up to more *)
(* than size * size_factor, and shuffles it.  gen_req() then picks an      *)
(* entry: it starts at a place that moves through data_ from call to call  *)
(* (the temporal locality) and scans forward, around the end if need be,   *)
(* until the probabilities it passed add up to a random target.            *)
(*                                                                         *)
(* Every random draw is a nondeterministic choice.  Vector positions count *)
(* from 0 as in the code.  locality_shift_ is the fraction ShiftNum /      *)
(* ShiftDen, computed with exactly instead of in floating point.           *)
(***************************************************************************)
EXTENDS Integers, Sequences, FiniteSets, Functions

CONSTANTS
  LowDraws,        \* what val_dist_low may draw, without its sign
  OtherSizes,      \* the sizes drawn from the other two distributions
  Probs,           \* what prob may be drawn as
  Wanted,          \* size * size_factor
  locality_range_, \* data_ is used in blocks of 1 / locality_range_
  ShiftNum, ShiftDen,
  NoScan,          \* no call of gen_req() in progress
  DummyKey         \* a key of filler characters, never used by a set

ASSUME GeneratorAssumption ==
  /\ LowDraws \subseteq Nat
  /\ OtherSizes \subseteq Nat \ {0}
  /\ Probs \subseteq Nat
  /\ Wanted \in Nat
  /\ locality_range_ \in Nat \ {0}
  /\ ShiftNum \in Nat \ {0} /\ ShiftDen \in Nat \ {0}
  /\ DummyKey \notin Nat

VARIABLES
  data_,              \* the entries
  total_prob_,
  size_used,          \* the constructor's running total
  built,              \* the constructor has returned
  current_locality_,
  scan,               \* the locals of gen_req() while it scans, or NoScan
  request             \* the request gen_req() returned, until it is called again

genVars == <<data_, total_prob_, size_used, built, current_locality_, scan, request>>

Entry == [key : Nat, size : Nat \ {0}, prob : Probs]
Scan == [method : {"get", "delete", "set"}, target : Nat, current : Nat, i : Nat]
Request == [key : Nat \cup {DummyKey}, size : Nat, method : {"get", "delete", "set"}]

GenTypeOK ==
  /\ data_ \in Seq(Entry)
  /\ total_prob_ \in Nat
  /\ size_used \in Nat
  /\ built \in BOOLEAN
  /\ current_locality_ \in Nat
  /\ scan \in Scan \cup {NoScan}
  /\ request \in Request \cup {NoScan}

GenInit ==
  /\ data_ = <<>>
  /\ total_prob_ = 0
  /\ size_used = 0
  /\ built = FALSE
  /\ current_locality_ = 0
  /\ scan = NoScan
  /\ request = NoScan

-----------------------------------------------------------------------------
(* The constructor *)

\* Fault: the value size is not kept positive.
LowSize_NoClamp(x) == x

\* std::clamp(x, 2, 10)
LowSize(x) == IF x < 2 THEN 2 ELSE IF x > 10 THEN 10 ELSE x

\* What val_size may be.
ValueSizes == {LowSize(x) : x \in LowDraws} \cup OtherSizes

AddEntry(n, p) ==
  /\ ~built
  /\ size_used <= Wanted
  /\ data_' = Append(data_, [key |-> Len(data_), size |-> n, prob |-> p])
  /\ total_prob_' = total_prob_ + p
  /\ size_used' = size_used + n
  /\ UNCHANGED <<built, current_locality_, scan, request>>

Shuffle ==
  /\ ~built
  /\ size_used > Wanted
  /\ \E f \in Bijection(DOMAIN data_, DOMAIN data_) :
       data_' = [j \in DOMAIN data_ |-> data_[f[j]]]
  /\ built' = TRUE
  /\ UNCHANGED <<total_prob_, size_used, current_locality_, scan, request>>

-----------------------------------------------------------------------------
(* gen_req *)

Ready == built /\ scan = NoScan

\* The entry at vector position i.
At(i) == data_[i + 1]

\* Fault: a block per locality step, without the shift.
Start_NoShift(cl) == (cl * Len(data_)) \div locality_range_

\* Where the scan starts when current_locality_ is cl.
Start(cl) ==
  (cl * ShiftNum * (Len(data_) - 1)) \div (ShiftDen * locality_range_)

\* A delete is mostly one of a key that does not exist; it returns early and
\* leaves the locality as it is.
gen_dummy ==
  /\ Ready
  /\ request' = [key |-> DummyKey, size |-> 1, method |-> "delete"]
  /\ UNCHANGED <<data_, total_prob_, size_used, built, current_locality_, scan>>

gen_start(method, target) ==
  /\ Ready
  /\ target <= total_prob_ \div locality_range_
  /\ scan' = [method |-> method, target |-> target, current |-> 0,
              i |-> Start(current_locality_)]
  /\ request' = NoScan
  /\ UNCHANGED <<data_, total_prob_, size_used, built, current_locality_>>

\* The loop condition.
Short == scan.current + At(scan.i).prob < scan.target

\* Faults: the scan stays on an entry of probability 0; it wraps one entry early.
NextIndex_StaysAtZero(i) ==
  IF At(i).prob = 0 THEN i ELSE IF i + 1 >= Len(data_) THEN 0 ELSE i + 1
NextIndex_WrapEarly(i) == IF i + 1 >= Len(data_) - 1 THEN 0 ELSE i + 1

NextIndex(i) == IF i + 1 >= Len(data_) THEN 0 ELSE i + 1

gen_scan ==
  /\ scan # NoScan
  /\ Short
  /\ scan' = [scan EXCEPT !.current = @ + At(scan.i).prob, !.i = NextIndex(@)]
  /\ UNCHANGED <<data_, total_prob_, size_used, built, current_locality_, request>>

\* current_locality_ after a call: back to 0 at locality_range_ / locality_shift_.
NextLocality(cl) ==
  IF (cl + 1) * ShiftNum >= locality_range_ * ShiftDen THEN 0 ELSE cl + 1

gen_return ==
  /\ scan # NoScan
  /\ ~Short
  /\ current_locality_' = NextLocality(current_locality_)
  /\ request' = [key |-> At(scan.i).key, size |-> At(scan.i).size,
                 method |-> scan.method]
  /\ scan' = NoScan
  /\ UNCHANGED <<data_, total_prob_, size_used, built>>

\* gen_req(), with set_only or without.
gen_req(set_only) ==
  \/ /\ ~set_only
     /\ gen_dummy
  \/ \E method \in (IF set_only THEN {"set"} ELSE {"get", "delete", "set"}),
        target \in 0 .. (total_prob_ \div locality_range_) :
       gen_start(method, target)

GenNext ==
  \/ \E n \in ValueSizes, p \in Probs : AddEntry(n, p)
  \/ Shuffle
  \/ \E set_only \in BOOLEAN : gen_req(set_only)
  \/ gen_scan
  \/ gen_return

GenSpec == GenInit /\ [][GenNext]_genVars

\* The scan is a plain loop: it runs on once it is entered.
GenFairSpec == GenSpec /\ WF_genVars(gen_scan \/ gen_return)

-----------------------------------------------------------------------------
(* Properties *)

\* Every access data_[i] is within the vector: where the scan starts, for every
\* locality it can reach, and where it goes from there.
IndexInBounds == scan # NoScan => scan.i < Len(data_)

\* The entries of d at the vector positions in P, one element per unit of
\* their probabilities.
ProbUnits(d, P) == UNION {{i} \X (1 .. d[i + 1].prob) : i \in P}

\* The m positions from start on, around the end if need be.
Passed(start, m) == {(start + j) % Len(data_) : j \in 0 .. (m - 1)}

\* The sum of the probabilities of the m entries from the start of the block on.
SumFrom(start, m) == Cardinality(ProbUnits(data_, Passed(start, m)))

\* The running total is the sum of the entries passed since the start, each of
\* them once: the scan never laps the vector, and the entry it stops at is the
\* first one, from the start on, that brings the total up to the target.
ScanIsOneLap ==
  scan # NoScan =>
    LET start == Start(current_locality_)
        m == (scan.i - start) % Len(data_)
    IN  /\ scan.current = SumFrom(start, m)
        /\ m > 0 => scan.current < scan.target
        /\ scan.target <= SumFrom(start, Len(data_))

\* The entries passed since the start of the scan under way.
Turns == (scan.i - Start(current_locality_)) % Len(data_)

\* A call that scans is on its way out: a turn of the loop never stays where it is,
\* and whatever the call does next, it returns or passes one more entry, never all
\* of them, also when probabilities are 0.
ScanAdvances ==
  /\ [](scan # NoScan /\ Short => NextIndex(scan.i) # scan.i)
  /\ [][scan # NoScan =>
          scan' = NoScan \/ (Turns' = Turns + 1 /\ Turns' < Len(data_))]_genVars

\* Every call of gen_req() returns, whatever the probabilities drawn (all of
\* them may be 0) and the target.
GenReturns == scan # NoScan ~> scan = NoScan

==============================================================================
