-------------------------- MODULE GeneratorProofs --------------------------
(***************************************************************************)
(* Proofs about the workload generator: whatever it draws, and for every   *)
(* locality range and shift, gen_req() reads data_ only where there is     *)
(* data, its running total is the sum of the entries it passed, and its    *)
(* scan takes at most one turn per entry.  A sum over entries is the size  *)
(* of a set with one element per unit (ProbUnits), so that the facts about *)
(* finite sets stand in for an induction over the vector.                  *)
(***************************************************************************)
EXTENDS Generator, FiniteSetTheorems, TLAPS

\* A fraction a / b below one of a number n is below or at n.
LEMMA FractionOf ==
  ASSUME NEW a \in Nat, NEW b \in Nat, NEW n \in Nat, a < b
  PROVE  (a * n) \div b \in 0 .. n
<1>1. a * n \in Nat /\ b * n \in Nat
  OBVIOUS
<1>2. a * n <= b * n
  OBVIOUS
<1> DEFINE m == a * n
<1>3. b * n = n * b
  OBVIOUS
<1> HIDE DEF m
<1>4. m \in Nat /\ m <= n * b /\ b > 0
  BY <1>1, <1>2, <1>3 DEF m
<1>5. m \div b \in Nat /\ (m \div b) * b <= m
  BY <1>4
<1>6. m \div b <= n
  <2> DEFINE q == m \div b
  <2>1. q \in Nat /\ q * b <= n * b
    BY <1>4, <1>5
  <2> HIDE DEF q
  <2>2. q > n => q * b > n * b
    BY <1>4, <2>1
  <2>3. q * b \in Nat /\ n * b \in Nat
    BY <2>1
  <2> QED
    BY <2>1, <2>2, <2>3 DEF q
<1> QED
  BY <1>5, <1>6 DEF m

\* The sizes the constructor gives its entries are positive.
LEMMA SizesPositive == ValueSizes \subseteq Nat \ {0}
<1>1. \A x \in Nat : LowSize(x) \in Nat \ {0}
  BY DEF LowSize
<1> QED
  BY <1>1, GeneratorAssumption DEF GeneratorAssumption, ValueSizes

\* There is data once the constructor is done, the locality stays within its
\* range, and so does the scan.
GenInv ==
  /\ GenTypeOK
  /\ data_ = <<>> => size_used = 0 /\ ~built
  /\ current_locality_ * ShiftNum < locality_range_ * ShiftDen
  /\ scan # NoScan => built /\ scan.i < Len(data_)

\* Where a scan may start.
LEMMA StartInBounds ==
  ASSUME GenInv, built
  PROVE  Start(current_locality_) \in 0 .. (Len(data_) - 1)
<1>1. Len(data_) \in Nat /\ Len(data_) > 0
  BY DEF GenInv, GenTypeOK
<1> DEFINE a == current_locality_ * ShiftNum
           b == ShiftDen * locality_range_
           n == Len(data_) - 1
<1>2. a \in Nat /\ b \in Nat /\ n \in Nat /\ a < b
  BY <1>1, GeneratorAssumption DEF GeneratorAssumption, GenInv, GenTypeOK
<1>3. Start(current_locality_) = (a * n) \div b
  BY DEF Start
<1> HIDE DEF a, b, n
<1>4. (a * n) \div b \in 0 .. n
  BY <1>2, FractionOf
<1> QED
  BY <1>3, <1>4 DEF n

\* What the scan reads where it is within the vector.
LEMMA AtType ==
  ASSUME GenTypeOK, NEW i \in Nat, i < Len(data_)
  PROVE  At(i) \in Entry /\ At(i).key \in Nat /\ At(i).size \in Nat /\ At(i).prob \in Nat
<1>1. i + 1 \in 1 .. Len(data_)
  BY DEF GenTypeOK
<1>2. At(i) \in Entry
  BY <1>1 DEF GenTypeOK, At
<1> QED
  BY <1>2, GeneratorAssumption DEF GeneratorAssumption, Entry

\* The locality returns to 0 before it leaves its range.
LEMMA LocalityStays ==
  ASSUME NEW cl \in Nat
  PROVE  /\ NextLocality(cl) \in Nat
         /\ NextLocality(cl) * ShiftNum < locality_range_ * ShiftDen
<1>1. /\ (cl + 1) * ShiftNum \in Nat
      /\ locality_range_ * ShiftDen \in Nat /\ locality_range_ * ShiftDen > 0
  BY GeneratorAssumption DEF GeneratorAssumption
<1>2. CASE (cl + 1) * ShiftNum >= locality_range_ * ShiftDen
  BY <1>1, <1>2, GeneratorAssumption DEF GeneratorAssumption, NextLocality
<1>3. CASE ~ (cl + 1) * ShiftNum >= locality_range_ * ShiftDen
  BY <1>1, <1>3, GeneratorAssumption DEF GeneratorAssumption, NextLocality
<1> QED
  BY <1>2, <1>3

\* One turn of the loop of gen_req gives a scan again.
LEMMA ScanMoves ==
  ASSUME NEW s \in Scan, NEW sum \in Nat, NEW n \in Nat
  PROVE  /\ [s EXCEPT !.current = sum, !.i = n] \in Scan
         /\ [s EXCEPT !.current = sum, !.i = n].i = n
BY DEF Scan

\* GenInv is inductive.
LEMMA GenInductive ==
  ASSUME GenInv, [GenNext]_genVars
  PROVE  GenInv'
<1> USE DEF GenInv, GenTypeOK
<1>1. ASSUME NEW n \in ValueSizes, NEW p \in Probs, AddEntry(n, p) PROVE GenInv'
  <2>1. n \in Nat \ {0} /\ p \in Nat
    BY SizesPositive, GeneratorAssumption DEF GeneratorAssumption
  <2> DEFINE e == [key |-> Len(data_), size |-> n, prob |-> p]
  <2>2. e \in Entry
    BY <2>1 DEF Entry
  <2>3. data_' = Append(data_, e) /\ built' = built /\ ~built
    BY <1>1 DEF AddEntry
  <2> HIDE DEF e
  <2>4. data_' \in Seq(Entry) /\ data_' # <<>>
    BY <2>2, <2>3
  <2>5. total_prob_' \in Nat /\ size_used' \in Nat
    BY <1>1, <2>1 DEF AddEntry
  <2> QED
    BY <1>1, <2>3, <2>4, <2>5 DEF AddEntry
<1>2. CASE Shuffle
  <2>1. PICK f \in Bijection(DOMAIN data_, DOMAIN data_) :
          data_' = [j \in DOMAIN data_ |-> data_[f[j]]]
    BY <1>2 DEF Shuffle
  <2>2. f \in [DOMAIN data_ -> DOMAIN data_]
    BY <2>1 DEF Bijection, Injection
  <2>3. data_' \in Seq(Entry) /\ Len(data_') = Len(data_)
    <3>1. data_' = [j \in 1 .. Len(data_) |-> data_[f[j]]]
      BY <2>1
    <3>2. \A j \in 1 .. Len(data_) : data_[f[j]] \in Entry
      BY <2>2
    <3> QED
      BY <3>1, <3>2
  <2>4. data_ # <<>>
    BY <1>2, GeneratorAssumption DEF GeneratorAssumption, Shuffle
  <2>5. data_' # <<>>
    BY <2>3, <2>4
  <2> QED
    BY <1>2, <2>3, <2>5 DEF Shuffle
<1>3. CASE gen_dummy
  BY <1>3 DEF gen_dummy, Request
<1>4. ASSUME NEW method \in {"get", "delete", "set"}, NEW target \in Nat,
             gen_start(method, target)
      PROVE  GenInv'
  <2> DEFINE s == [method |-> method, target |-> target, current |-> 0,
                   i |-> Start(current_locality_)]
  <2>1. Start(current_locality_) \in 0 .. (Len(data_) - 1) /\ built
    BY <1>4, StartInBounds DEF gen_start, Ready
  <2>2. s \in Scan /\ s.i < Len(data_)
    BY <2>1 DEF Scan
  <2>3. scan' = s
    BY <1>4 DEF gen_start
  <2> HIDE DEF s
  <2> QED
    BY <1>4, <2>1, <2>2, <2>3 DEF gen_start
<1>5. CASE gen_scan
  <2>1. scan \in Scan /\ scan.i \in Nat /\ scan.i < Len(data_) /\ built
    BY <1>5 DEF gen_scan, Scan
  <2>2. At(scan.i).prob \in Nat
    BY <2>1, AtType
  <2>3. NextIndex(scan.i) \in Nat /\ NextIndex(scan.i) < Len(data_)
    BY <2>1 DEF NextIndex
  <2> DEFINE p == At(scan.i).prob
             n == NextIndex(scan.i)
             s == [scan EXCEPT !.current = @ + p, !.i = n]
  <2>4. scan' = s
    BY <1>5 DEF gen_scan
  <2>5. s \in Scan /\ s.i < Len(data_)
    <3> HIDE DEF p, n
    <3>1. p \in Nat /\ n \in Nat /\ n < Len(data_) /\ scan.current + p \in Nat
      BY <2>1, <2>2, <2>3 DEF p, n, Scan
    <3> QED
      BY <2>1, <3>1, ScanMoves DEF Scan
  <2> HIDE DEF s
  <2> QED
    BY <1>5, <2>1, <2>4, <2>5 DEF gen_scan
<1>6. CASE gen_return
  <2>1. scan \in Scan /\ scan.i \in Nat /\ scan.i < Len(data_)
    BY <1>6 DEF gen_return, Scan
  <2>2. /\ At(scan.i).key \in Nat /\ At(scan.i).size \in Nat
        /\ scan.method \in {"get", "delete", "set"}
    BY <2>1, AtType DEF Scan
  <2>3. request' \in Request
    BY <1>6, <2>2 DEF gen_return, Request
  <2>4. /\ current_locality_' \in Nat
        /\ current_locality_' * ShiftNum < locality_range_ * ShiftDen
    BY <1>6, LocalityStays DEF gen_return
  <2> QED
    BY <1>6, <2>3, <2>4 DEF gen_return
<1>7. CASE UNCHANGED genVars
  BY <1>7 DEF genVars
<1>8. ASSUME NEW set_only \in BOOLEAN, gen_req(set_only) PROVE GenInv'
  <2>1. 0 .. (total_prob_ \div locality_range_) \subseteq Nat
    OBVIOUS
  <2>2. {"set"} \subseteq {"get", "delete", "set"}
    OBVIOUS
  <2>3. \/ gen_dummy
        \/ \E method \in {"get", "delete", "set"},
              target \in 0 .. (total_prob_ \div locality_range_) :
             gen_start(method, target)
    BY <1>8, <2>2, Zenon DEF gen_req
  <2> QED
    BY <1>3, <1>4, <2>1, <2>3
<1> QED
  BY <1>1, <1>2, <1>5, <1>6, <1>7, <1>8 DEF GenNext

\* The generator starts in GenInv.
LEMMA GenInitInv ==
  ASSUME GenInit
  PROVE  GenInv
<1>1. /\ 0 * ShiftNum = 0
      /\ locality_range_ * ShiftDen \in Nat /\ locality_range_ * ShiftDen > 0
  BY GeneratorAssumption DEF GeneratorAssumption
<1>2. GenTypeOK
  <2>1. built \in BOOLEAN
    BY Zenon DEF GenInit
  <2>2. data_ \in Seq(Entry)
    BY DEF GenInit
  <2>3. total_prob_ \in Nat /\ size_used \in Nat /\ current_locality_ \in Nat
    BY DEF GenInit
  <2> QED
    BY <2>1, <2>2, <2>3, Zenon DEF GenInit, GenTypeOK
<1>3. current_locality_ * ShiftNum < locality_range_ * ShiftDen
  <2>1. current_locality_ = 0
    BY DEF GenInit
  <2>2. 0 * ShiftNum < locality_range_ * ShiftDen
    BY <1>1
  <2> QED
    BY <2>1, <2>2
<1> QED
  BY <1>2, <1>3 DEF GenInit, GenInv

\* In every reachable state of the generator the locality is below its limit
\* and a scan under way is inside data_ (GenInv).
THEOREM GenInvariant == GenSpec => []GenInv
<1>1. GenInit => GenInv
  BY GenInitInv
<1> QED
  BY <1>1, GenInductive, PTL DEF GenSpec

\* Every entry has a positive size, and every request is one the cache accepts.
THEOREM GenTypeCorrect == GenSpec => []GenTypeOK
<1>1. GenInv => GenTypeOK
  BY DEF GenInv
<1> QED
  BY <1>1, GenInvariant, PTL

\* gen_req() never reads past data_, for any locality range, shift, sizes and
\* probabilities.
THEOREM ScanStaysInBounds == GenSpec => []IndexInBounds
<1>1. GenInv => IndexInBounds
  BY DEF GenInv, IndexInBounds
<1> QED
  BY <1>1, GenInvariant, PTL

-----------------------------------------------------------------------------
(* Sums of probabilities *)

\* What a unit of probability is.
LEMMA UnitsMember ==
  ASSUME NEW d, NEW P
  PROVE  /\ \A i, u : <<i, u>> \in ProbUnits(d, P) <=> i \in P /\ u \in 1 .. d[i + 1].prob
         /\ \A x \in ProbUnits(d, P) : x = <<x[1], x[2]>> /\ x[1] \in P
                                       /\ x[2] \in 1 .. d[x[1] + 1].prob
<1>1. \A i, u : <<i, u>> \in ProbUnits(d, P) <=> i \in P /\ u \in 1 .. d[i + 1].prob
  <2> TAKE i, u
  <2>1. <<i, u>> \in ProbUnits(d, P) <=> \E j \in P : <<i, u>> \in {j} \X (1 .. d[j + 1].prob)
    BY DEF ProbUnits
  <2>2. \A j : <<i, u>> \in {j} \X (1 .. d[j + 1].prob) <=> i = j /\ u \in 1 .. d[j + 1].prob
    OBVIOUS
  <2> QED
    BY <2>1, <2>2, Zenon
<1>2. ASSUME NEW x \in ProbUnits(d, P)
      PROVE  x = <<x[1], x[2]>> /\ x[1] \in P /\ x[2] \in 1 .. d[x[1] + 1].prob
  <2>1. PICK i \in P : x \in {i} \X (1 .. d[i + 1].prob)
    BY DEF ProbUnits
  <2> QED
    BY <2>1
<1> QED
  BY <1>1, <1>2

\* The sum over one more position is the sum and that position's probability.
LEMMA UnitsAdd ==
  ASSUME NEW d, NEW P, NEW i, i \notin P, d[i + 1].prob \in Nat,
         IsFiniteSet(ProbUnits(d, P))
  PROVE  /\ IsFiniteSet(ProbUnits(d, P \cup {i}))
         /\ Cardinality(ProbUnits(d, P \cup {i}))
              = Cardinality(ProbUnits(d, P)) + d[i + 1].prob
<1> DEFINE p == d[i + 1].prob
           new == {i} \X (1 .. p)
           U == ProbUnits(d, P)
<1>1. ProbUnits(d, P \cup {i}) = U \cup new
  BY DEF ProbUnits
<1>2. U \cap new = {}
  <2>1. \A x \in U : x[1] \in P
    BY UnitsMember
  <2>2. \A x \in new : x[1] = i
    OBVIOUS
  <2> HIDE DEF U, new
  <2> QED
    BY <2>1, <2>2
<1>3. IsFiniteSet(new) /\ Cardinality(new) = p
  <2>0. p \in Nat
    OBVIOUS
  <2> HIDE DEF p
  <2>1. IsFiniteSet({i}) /\ Cardinality({i}) = 1
    BY FS_Singleton
  <2>2. IsFiniteSet(1 .. p) /\ Cardinality(1 .. p) = p
    BY <2>0, FS_Interval
  <2>3. IsFiniteSet(new) /\ Cardinality(new) = Cardinality({i}) * Cardinality(1 .. p)
    BY <2>1, <2>2, FS_Product, Zenon
  <2> QED
    BY <2>0, <2>1, <2>2, <2>3
<1>4. Cardinality(U) \in Nat
  BY FS_CardinalityType
<1>5. Cardinality(U \cap new) = 0
  BY <1>2, FS_EmptySet
<1>6. /\ IsFiniteSet(U \cup new)
      /\ Cardinality(U \cup new) = Cardinality(U) + Cardinality(new) - Cardinality(U \cap new)
  BY <1>3, FS_Union
<1>7. p \in Nat
  OBVIOUS
<1> HIDE DEF p, new, U
<1>8. Cardinality(U \cup new) = Cardinality(U) + p
  BY <1>3, <1>4, <1>5, <1>6, <1>7
<1> QED
  BY <1>1, <1>6, <1>8 DEF p, U

\* Appending an entry leaves the sum over the old ones alone.
LEMMA UnitsAppend ==
  ASSUME NEW d \in Seq(Entry), NEW e \in Entry
  PROVE  ProbUnits(Append(d, e), 0 .. (Len(d) - 1)) = ProbUnits(d, 0 .. (Len(d) - 1))
<1> DEFINE P == 0 .. (Len(d) - 1)
           d1 == Append(d, e)
<1>1. \A i \in P : d1[i + 1] = d[i + 1]
  OBVIOUS
<1> HIDE DEF P, d1
<1>2. ASSUME NEW i \in P PROVE {i} \X (1 .. d1[i + 1].prob) = {i} \X (1 .. d[i + 1].prob)
  BY <1>1
<1> QED
  BY <1>2, Zenon DEF ProbUnits, P, d1

\* Shuffling the entries leaves their sum alone.
LEMMA UnitsShuffle ==
  ASSUME NEW d \in Seq(Entry), NEW f \in Bijection(DOMAIN d, DOMAIN d),
         NEW d1, d1 = [j \in DOMAIN d |-> d[f[j]]],
         IsFiniteSet(ProbUnits(d, 0 .. (Len(d) - 1)))
  PROVE  /\ IsFiniteSet(ProbUnits(d1, 0 .. (Len(d) - 1)))
         /\ Cardinality(ProbUnits(d1, 0 .. (Len(d) - 1)))
              = Cardinality(ProbUnits(d, 0 .. (Len(d) - 1)))
<1> DEFINE P == 0 .. (Len(d) - 1)
           S == ProbUnits(d1, P)
           T == ProbUnits(d, P)
           g == [x \in S |-> <<f[x[1] + 1] - 1, x[2]>>]
<1>0. Len(d) \in Nat
  OBVIOUS
<1>1. /\ f \in [1 .. Len(d) -> 1 .. Len(d)]
      /\ \A j, k \in 1 .. Len(d) : f[j] = f[k] => j = k
      /\ \A j \in 1 .. Len(d) : \E k \in 1 .. Len(d) : f[k] = j
  <2>1. DOMAIN d = 1 .. Len(d)
    OBVIOUS
  <2> QED
    BY <2>1 DEF Bijection, Injection, Surjection, IsInjective
<1>2. \A i \in P : /\ i + 1 \in 1 .. Len(d) /\ f[i + 1] - 1 \in P
                   /\ f[i + 1] \in Int /\ d1[i + 1] = d[(f[i + 1] - 1) + 1]
  <2> TAKE i \in P
  <2>0. i + 1 \in 1 .. Len(d)
    BY <1>0
  <2>1. i + 1 \in 1 .. Len(d) /\ f[i + 1] \in 1 .. Len(d)
    BY <1>1, <2>0, Zenon
  <2>2. (f[i + 1] - 1) + 1 = f[i + 1] /\ f[i + 1] - 1 \in P /\ f[i + 1] \in Int
    <3> DEFINE j == f[i + 1]
    <3>1. j \in 1 .. Len(d)
      BY <2>1
    <3> HIDE DEF j
    <3>2. (j - 1) + 1 = j /\ j - 1 \in P /\ j \in Int
      BY <1>0, <3>1
    <3> QED
      BY <3>2 DEF j
  <2>3. d1[i + 1] = d[f[i + 1]]
    BY <2>1
  <2> QED
    BY <2>1, <2>2, <2>3
<1>3. /\ \A x \in S : x = <<x[1], x[2]>> /\ x[1] \in P /\ x[2] \in 1 .. d1[x[1] + 1].prob
      /\ \A x \in T : x = <<x[1], x[2]>> /\ x[1] \in P /\ x[2] \in 1 .. d[x[1] + 1].prob
      /\ \A i, u : <<i, u>> \in S <=> i \in P /\ u \in 1 .. d1[i + 1].prob
      /\ \A i, u : <<i, u>> \in T <=> i \in P /\ u \in 1 .. d[i + 1].prob
  BY UnitsMember
<1>4. \A i \in P : \E k \in P : f[k + 1] - 1 = i
  <2> TAKE i \in P
  <2>1. PICK k \in 1 .. Len(d) : f[k] = i + 1
    BY <1>1
  <2> WITNESS k - 1 \in P
  <2> QED
    BY <2>1
<1>5. \A i, k \in P : f[i + 1] - 1 = f[k + 1] - 1 => i = k
  <2> TAKE i, k \in P
  <2>1. f[i + 1] - 1 = f[k + 1] - 1 => f[i + 1] = f[k + 1]
    <3>1. f[i + 1] \in Int /\ f[k + 1] \in Int
      BY <1>2
    <3> QED
      BY <3>1
  <2>2. f[i + 1] = f[k + 1] => i + 1 = k + 1
    BY <1>1, <1>2
  <2> QED
    BY <2>1, <2>2
<1>6. P \subseteq Int
  OBVIOUS
<1> HIDE DEF P, S, T
<1>7. \A x \in S : g[x] = <<f[x[1] + 1] - 1, x[2]>> /\ g[x] \in T
  <2> TAKE x \in S
  <2>1. x[1] \in P /\ x[2] \in 1 .. d[(f[x[1] + 1] - 1) + 1].prob
    BY <1>2, <1>3
  <2>2. f[x[1] + 1] - 1 \in P
    BY <1>2, <2>1
  <2> QED
    BY <1>3, <2>1, <2>2
<1>8. g \in [S -> T]
  BY <1>7
<1>9. ASSUME NEW x \in S, NEW y \in S, g[x] = g[y] PROVE x = y
  <2>1. <<f[x[1] + 1] - 1, x[2]>> = <<f[y[1] + 1] - 1, y[2]>>
    BY <1>7, <1>9
  <2>2. f[x[1] + 1] - 1 = f[y[1] + 1] - 1 /\ x[2] = y[2]
    BY <2>1
  <2>3. x[1] = y[1]
    BY <1>3, <1>5, <2>2
  <2> QED
    BY <1>3, <2>2, <2>3
<1>10. ASSUME NEW y \in T PROVE \E x \in S : g[x] = y
  <2>1. y = <<y[1], y[2]>> /\ y[1] \in P /\ y[2] \in 1 .. d[y[1] + 1].prob
    BY <1>3
  <2>2. PICK k \in P : f[k + 1] - 1 = y[1]
    BY <1>4, <2>1
  <2>3. y[2] \in 1 .. d1[k + 1].prob
    BY <1>2, <2>1, <2>2
  <2>4. <<k, y[2]>> \in S
    BY <1>3, <2>2, <2>3
  <2>5. g[<<k, y[2]>>] = <<f[k + 1] - 1, y[2]>>
    BY <1>7, <2>4
  <2> QED
    BY <2>1, <2>2, <2>4, <2>5
<1> HIDE DEF g
<1>11. g \in Injection(S, T) /\ g \in Surjection(S, T)
  BY <1>8, <1>9, <1>10, Zenon DEF Injection, Surjection, IsInjective
<1>12. IsFiniteSet(T)
  BY DEF T, P
<1>13. IsFiniteSet(S) /\ Cardinality(S) = Cardinality(T)
  BY <1>11, <1>12, FS_Injection
<1> QED
  BY <1>13 DEF S, T, P

-----------------------------------------------------------------------------
(* Going round the vector *)

\* The remainder where it wraps at most once.
LEMMA WrapOnce ==
  ASSUME NEW n \in Nat, n > 0
  PROVE  /\ \A x \in 0 .. (n - 1) : x % n = x
         /\ \A x \in n .. (2 * n - 1) : x % n = x - n
         /\ \A x \in (1 - n) .. (-1) : x % n = x + n
OBVIOUS

\* Going round a vector of n entries from s on: after m < n steps the position
\* is one not passed yet, and the number of steps can be told from it.
LEMMA GoingRound ==
  ASSUME NEW n \in Nat, n > 0, NEW s \in 0 .. (n - 1)
  PROVE  /\ \A m \in 0 .. (n - 1) : /\ (s + m) % n \in 0 .. (n - 1)
                                    /\ (((s + m) % n) - s) % n = m
         /\ \A i \in 0 .. (n - 1) : /\ (i - s) % n \in 0 .. (n - 1)
                                    /\ (s + ((i - s) % n)) % n = i
<1>1. ASSUME NEW m \in 0 .. (n - 1)
      PROVE  (s + m) % n \in 0 .. (n - 1) /\ (((s + m) % n) - s) % n = m
  <2>1. CASE s + m < n
    <3>1. s + m \in 0 .. (n - 1) /\ (s + m) - s = m
      BY <2>1
    <3> QED
      BY <3>1, WrapOnce
  <2>2. CASE s + m >= n
    <3>1. s + m \in n .. (2 * n - 1)
      BY <2>2
    <3>2. (s + m) % n = s + m - n
      BY <3>1, WrapOnce
    <3>3. s + m - n \in 0 .. (n - 1) /\ (s + m - n) - s = m - n
      BY <2>2
    <3>4. CASE m = 0
      BY <2>2, <3>4
    <3>5. CASE m # 0
      <4>1. m - n \in (1 - n) .. (-1)
        BY <3>5
      <4>2. (m - n) % n = (m - n) + n
        BY <4>1, WrapOnce
      <4> QED
        BY <3>2, <3>3, <4>2
    <3> QED
      BY <3>4, <3>5
  <2> QED
    BY <2>1, <2>2
<1>2. ASSUME NEW i \in 0 .. (n - 1)
      PROVE  (i - s) % n \in 0 .. (n - 1) /\ (s + ((i - s) % n)) % n = i
  <2>1. CASE i >= s
    <3>1. i - s \in 0 .. (n - 1) /\ s + (i - s) = i
      BY <2>1
    <3> QED
      BY <3>1, WrapOnce
  <2>2. CASE i < s
    <3>1. i - s \in (1 - n) .. (-1)
      BY <2>2
    <3>2. (i - s) % n = (i - s) + n
      BY <3>1, WrapOnce
    <3>3. /\ (i - s) + n \in 0 .. (n - 1)
          /\ s + ((i - s) + n) = i + n
          /\ i + n \in n .. (2 * n - 1)
      BY <2>2
    <3>4. (i + n) % n = (i + n) - n
      BY <3>3, WrapOnce
    <3> QED
      BY <3>2, <3>3, <3>4
  <2> QED
    BY <2>1, <2>2
<1> QED
  BY <1>1, <1>2

\* The m positions from s on.
From(s, m, n) == {(s + j) % n : j \in 0 .. (m - 1)}

\* None to begin with, one more with every step, all of them after a lap.
LEMMA FromSteps ==
  ASSUME NEW n \in Nat, n > 0, NEW s \in 0 .. (n - 1)
  PROVE  /\ From(s, 0, n) = {}
         /\ From(s, n, n) = 0 .. (n - 1)
         /\ \A m \in 0 .. (n - 1) :
              /\ From(s, m, n) \subseteq 0 .. (n - 1)
              /\ (s + m) % n \notin From(s, m, n)
              /\ From(s, m + 1, n) = From(s, m, n) \cup {(s + m) % n}
<1>0. \A m \in 0 .. (n - 1) : /\ (s + m) % n \in 0 .. (n - 1)
                              /\ (((s + m) % n) - s) % n = m
  BY GoingRound
<1>1. From(s, 0, n) = {}
  BY DEF From
<1>2. From(s, n, n) = 0 .. (n - 1)
  <2>1. ASSUME NEW i \in 0 .. (n - 1) PROVE i \in From(s, n, n)
    <3>1. (i - s) % n \in 0 .. (n - 1) /\ (s + ((i - s) % n)) % n = i
      BY GoingRound
    <3> DEFINE j == (i - s) % n
    <3>2. j \in 0 .. (n - 1) /\ (s + j) % n = i
      BY <3>1
    <3> HIDE DEF j
    <3> QED
      BY <3>2, Zenon DEF From
  <2>2. From(s, n, n) \subseteq 0 .. (n - 1)
    BY <1>0, Zenon DEF From
  <2> QED
    BY <2>1, <2>2
<1>3. ASSUME NEW m \in 0 .. (n - 1)
      PROVE  /\ From(s, m, n) \subseteq 0 .. (n - 1)
             /\ (s + m) % n \notin From(s, m, n)
             /\ From(s, m + 1, n) = From(s, m, n) \cup {(s + m) % n}
  <2>1. 0 .. (m - 1) \subseteq 0 .. (n - 1) /\ m \notin 0 .. (m - 1)
    OBVIOUS
  <2>2. 0 .. ((m + 1) - 1) = (0 .. (m - 1)) \cup {m}
    OBVIOUS
  <2>3. From(s, m, n) \subseteq 0 .. (n - 1)
    BY <1>0, <2>1, Zenon DEF From
  <2>4. \A j \in 0 .. (m - 1) : (s + j) % n # (s + m) % n
    BY <1>0, <2>1, Zenon
  <2>5. (s + m) % n \notin From(s, m, n)
    BY <2>4, Zenon DEF From
  <2>6. From(s, m + 1, n) = From(s, m, n) \cup {(s + m) % n}
    BY <2>2, Zenon DEF From
  <2> QED
    BY <2>3, <2>5, <2>6
<1> QED
  BY <1>1, <1>2, <1>3

\* The scan t of the entries d from s on is within its first lap.
OneLap(d, s, t) ==
  LET n == Len(d)
      m == (t.i - s) % n
  IN  /\ t.current = Cardinality(ProbUnits(d, From(s, m, n)))
      /\ m > 0 => t.current < t.target
      /\ t.target <= Cardinality(ProbUnits(d, From(s, n, n)))

\* Positions among others have units among theirs.
LEMMA UnitsSubset ==
  ASSUME NEW d, NEW P, NEW Q, P \subseteq Q, IsFiniteSet(ProbUnits(d, Q))
  PROVE  IsFiniteSet(ProbUnits(d, P)) /\ Cardinality(ProbUnits(d, P)) \in Nat
<1>1. ProbUnits(d, P) \subseteq ProbUnits(d, Q)
  BY DEF ProbUnits
<1>2. IsFiniteSet(ProbUnits(d, P))
  BY <1>1, FS_Subset
<1> QED
  BY <1>2, FS_CardinalityType

\* One more turn of the loop, as long as the target is not reached, stays in
\* the first lap.
LEMMA LapStep ==
  ASSUME NEW d \in Seq(Entry), Len(d) > 0, NEW s \in 0 .. (Len(d) - 1),
         NEW t \in Scan, t.i < Len(d), OneLap(d, s, t),
         IsFiniteSet(ProbUnits(d, 0 .. (Len(d) - 1))),
         NEW p \in Nat, p = d[t.i + 1].prob, t.current + p < t.target,
         NEW u \in Scan, u.target = t.target, u.current = t.current + p,
         u.i = IF t.i + 1 >= Len(d) THEN 0 ELSE t.i + 1
  PROVE  /\ OneLap(d, s, u)
         /\ (u.i - s) % Len(d) = ((t.i - s) % Len(d)) + 1
         /\ (u.i - s) % Len(d) < Len(d)
<1> DEFINE n == Len(d)
           i == t.i
           m == (i - s) % n
           Sum(k) == Cardinality(ProbUnits(d, From(s, k, n)))
<1>1. n \in Nat /\ n > 0 /\ s \in 0 .. (n - 1) /\ i \in 0 .. (n - 1)
  BY DEF Scan
<1>2. t.current = Sum(m) /\ t.target <= Sum(n)
  BY DEF OneLap
<1>3. m \in 0 .. (n - 1) /\ (s + m) % n = i
  <2> HIDE DEF n, i
  <2> QED
    BY <1>1, GoingRound
<1>4. Sum(m + 1) = Sum(m) + p
  <2>1. /\ From(s, m, n) \subseteq 0 .. (n - 1)
        /\ i \notin From(s, m, n)
        /\ From(s, m + 1, n) = From(s, m, n) \cup {i}
    <3> HIDE DEF n, i, m
    <3> QED
      BY <1>1, <1>3, FromSteps
  <2>2. IsFiniteSet(ProbUnits(d, From(s, m, n)))
    <3> HIDE DEF m
    <3> QED
      BY <2>1, UnitsSubset
  <2>3. d[i + 1].prob \in Nat
    OBVIOUS
  <2> DEFINE F == From(s, m, n)
  <2> HIDE DEF F, m, i
  <2>4. Cardinality(ProbUnits(d, F \cup {i})) = Cardinality(ProbUnits(d, F)) + d[i + 1].prob
    BY <2>1, <2>2, <2>3, UnitsAdd DEF F
  <2> QED
    BY <2>1, <2>4 DEF F, i
<1>5. Sum(m + 1) < t.target
  BY <1>2, <1>4
<1>6. m + 1 \in 0 .. (n - 1)
  <2> HIDE DEF n, m, Sum
  <2>1. ~ t.target < t.target
    BY DEF Scan
  <2>2. ASSUME m + 1 = n PROVE FALSE
    <3>1. Sum(n) < t.target /\ t.target <= Sum(n) /\ t.target \in Nat /\ Sum(n) \in Nat
      <4>1. Sum(n) = t.current + p
        BY <1>2, <1>4, <2>2
      <4>2. t.current + p \in Nat /\ t.target \in Nat
        BY DEF Scan
      <4> QED
        BY <1>2, <1>5, <2>2, <4>1, <4>2
    <3> QED
      BY <3>1
  <2> QED
    BY <1>1, <1>3, <2>2
<1>7. (u.i - s) % n = m + 1
  <2>1. u.i = (s + (m + 1)) % n
    <3> DEFINE k == m + 1
    <3>1. u.i = IF i + 1 >= n THEN 0 ELSE i + 1
      OBVIOUS
    <3> HIDE DEF n, i, m
    <3>2. CASE s + m < n
      <4>1. s + m \in 0 .. (n - 1)
        BY <1>1, <1>3, <3>2
      <4>2. i = s + m
        BY <1>1, <1>3, <4>1, WrapOnce
      <4>3. CASE s + m + 1 < n
        <5>1. s + (m + 1) \in 0 .. (n - 1)
          BY <1>1, <1>3, <4>3
        <5>2. (s + (m + 1)) % n = s + (m + 1)
          BY <1>1, <5>1, WrapOnce
        <5> QED
          BY <1>1, <1>3, <3>1, <4>2, <4>3, <5>2
      <4>4. CASE s + m + 1 >= n
        <5>1. s + (m + 1) = n /\ n \in n .. (2 * n - 1)
          BY <1>1, <1>3, <3>2, <4>4
        <5>2. n % n = n - n
          BY <1>1, <5>1, WrapOnce
        <5> QED
          BY <1>1, <1>3, <3>1, <4>2, <4>4, <5>1, <5>2
      <4> QED
        BY <1>1, <1>3, <4>3, <4>4
    <3>3. CASE s + m >= n
      <4>1. s + m \in n .. (2 * n - 1) /\ s + (m + 1) \in n .. (2 * n - 1)
        BY <1>1, <1>3, <1>6, <3>3
      <4>2. i = s + m - n /\ (s + (m + 1)) % n = s + (m + 1) - n
        BY <1>1, <1>3, <4>1, WrapOnce
      <4> QED
        BY <1>1, <1>3, <1>6, <3>1, <4>1, <4>2
    <3> QED
      BY <1>1, <1>3, <3>2, <3>3
  <2> HIDE DEF n, m
  <2>2. \A k \in 0 .. (n - 1) : (((s + k) % n) - s) % n = k
    BY <1>1, GoingRound
  <2> QED
    BY <1>6, <2>1, <2>2, Zenon
<1>8. (u.i - s) % n < n
  <2> HIDE DEF n, m
  <2> QED
    BY <1>1, <1>6, <1>7
<1>9. (u.i - s) % n = ((i - s) % n) + 1
  BY <1>7
<1> HIDE DEF m
<1>10. OneLap(d, s, u)
  BY <1>2, <1>4, <1>5, <1>7 DEF OneLap
<1> QED
  BY <1>8, <1>9, <1>10

\* A scan that starts, with a target that the vector adds up to, is in its
\* first lap.
LEMMA LapStart ==
  ASSUME NEW d \in Seq(Entry), Len(d) > 0, NEW s \in 0 .. (Len(d) - 1),
         NEW t \in Scan, t.i = s, t.current = 0,
         t.target <= Cardinality(ProbUnits(d, 0 .. (Len(d) - 1)))
  PROVE  OneLap(d, s, t)
<1> DEFINE n == Len(d)
<1>1. n \in Nat /\ n > 0 /\ s \in 0 .. (n - 1)
  OBVIOUS
<1>2. (t.i - s) % n = 0
  <2>1. t.i - s = 0
    OBVIOUS
  <2> HIDE DEF n
  <2> QED
    BY <1>1, <2>1
<1>3. From(s, 0, n) = {} /\ From(s, n, n) = 0 .. (n - 1)
  <2> HIDE DEF n
  <2> QED
    BY <1>1, FromSteps
<1>4. Cardinality(ProbUnits(d, {})) = 0
  <2>1. ProbUnits(d, {}) = {}
    BY DEF ProbUnits
  <2> QED
    BY <2>1, FS_EmptySet
<1>5. /\ t.current = Cardinality(ProbUnits(d, From(s, (t.i - s) % n, n)))
      /\ t.target <= Cardinality(ProbUnits(d, From(s, n, n)))
  BY <1>2, <1>3, <1>4
<1>6. ~ (t.i - s) % n > 0
  BY <1>2
<1> QED
  BY <1>5, <1>6, Zenon DEF OneLap

-----------------------------------------------------------------------------
(* The scan *)

\* The total is the sum of all probabilities, a scan's target is within it, and
\* the scan is in its first lap.
LapInv ==
  /\ GenInv
  /\ IsFiniteSet(ProbUnits(data_, 0 .. (Len(data_) - 1)))
  /\ total_prob_ = Cardinality(ProbUnits(data_, 0 .. (Len(data_) - 1)))
  /\ ScanIsOneLap

\* ScanIsOneLap in terms of the sums proved about here.
LEMMA LapMeaning ==
  ScanIsOneLap <=> (scan # NoScan => OneLap(data_, Start(current_locality_), scan))
BY Zenon DEF ScanIsOneLap, SumFrom, Passed, OneLap, From

\* The total is right from the empty vector on.
LEMMA TotalInit ==
  ASSUME GenInit
  PROVE  LapInv
<1>1. GenInv
  BY GenInitInv
<1>2. 0 .. (Len(data_) - 1) = {}
  BY DEF GenInit
<1>3. ProbUnits(data_, {}) = {}
  BY DEF ProbUnits
<1>4. ScanIsOneLap
  BY DEF GenInit, ScanIsOneLap
<1>5. total_prob_ = 0
  BY DEF GenInit
<1> QED
  BY <1>1, <1>2, <1>3, <1>4, <1>5, FS_EmptySet DEF LapInv

\* The total with one entry more.
LEMMA TotalAdd ==
  ASSUME LapInv, NEW n \in ValueSizes, NEW p \in Probs, AddEntry(n, p)
  PROVE  /\ IsFiniteSet(ProbUnits(data_', 0 .. (Len(data_') - 1)))
         /\ total_prob_' = Cardinality(ProbUnits(data_', 0 .. (Len(data_') - 1)))
<1> DEFINE e == [key |-> Len(data_), size |-> n, prob |-> p]
           len == Len(data_)
           P == 0 .. (len - 1)
           d1 == Append(data_, e)
<1>1. data_ \in Seq(Entry) /\ p \in Nat /\ len \in Nat
  BY GeneratorAssumption DEF GeneratorAssumption, LapInv, GenInv, GenTypeOK
<1>2. e \in Entry
  BY <1>1, SizesPositive DEF Entry
<1>3. data_' = d1 /\ total_prob_' = total_prob_ + p
  BY DEF AddEntry
<1>4. /\ Len(d1) = len + 1 /\ d1[len + 1] = e /\ e.prob = p
      /\ ProbUnits(d1, P) = ProbUnits(data_, P)
  <2> HIDE DEF e
  <2>1. Len(d1) = len + 1 /\ d1[len + 1] = e
    BY <1>1, <1>2
  <2>2. ProbUnits(d1, P) = ProbUnits(data_, P)
    BY <1>1, <1>2, UnitsAppend
  <2>3. e.prob = p
    BY DEF e
  <2> QED
    BY <2>1, <2>2, <2>3
<1>5. 0 .. (Len(d1) - 1) = P \cup {len} /\ len \notin P
  BY <1>1, <1>4
<1>6. IsFiniteSet(ProbUnits(data_, P)) /\ total_prob_ = Cardinality(ProbUnits(data_, P))
  BY DEF LapInv
<1> HIDE DEF d1, P, len, e
<1>7. /\ IsFiniteSet(ProbUnits(d1, P \cup {len}))
      /\ Cardinality(ProbUnits(d1, P \cup {len})) = Cardinality(ProbUnits(d1, P)) + p
  BY <1>1, <1>4, <1>5, <1>6, UnitsAdd
<1> QED
  BY <1>3, <1>4, <1>5, <1>6, <1>7

\* The total of the entries shuffled.
LEMMA TotalShuffle ==
  ASSUME LapInv, Shuffle
  PROVE  /\ IsFiniteSet(ProbUnits(data_', 0 .. (Len(data_') - 1)))
         /\ total_prob_' = Cardinality(ProbUnits(data_', 0 .. (Len(data_') - 1)))
<1>1. PICK f \in Bijection(DOMAIN data_, DOMAIN data_) :
        data_' = [j \in DOMAIN data_ |-> data_[f[j]]]
  BY DEF Shuffle
<1>2. data_ \in Seq(Entry) /\ Len(data_) \in Nat /\ DOMAIN data_ = 1 .. Len(data_)
  BY DEF LapInv, GenInv, GenTypeOK
<1>3. data_' = [j \in 1 .. Len(data_) |-> data_[f[j]]]
  BY <1>1, <1>2
<1>4. Len(data_') = Len(data_)
  <2>1. f \in [1 .. Len(data_) -> 1 .. Len(data_)]
    BY <1>1, <1>2 DEF Bijection, Injection
  <2>2. \A j \in 1 .. Len(data_) : data_[f[j]] \in Entry
    BY <1>2, <2>1
  <2> QED
    BY <1>2, <1>3, <2>2
<1>5. /\ IsFiniteSet(ProbUnits(data_', 0 .. (Len(data_) - 1)))
      /\ Cardinality(ProbUnits(data_', 0 .. (Len(data_) - 1)))
           = Cardinality(ProbUnits(data_, 0 .. (Len(data_) - 1)))
  BY <1>1, <1>2, UnitsShuffle DEF LapInv
<1>6. total_prob_' = total_prob_
  BY DEF Shuffle
<1> QED
  BY <1>4, <1>5, <1>6 DEF LapInv

\* A share of a number is at most the number.
LEMMA ShareOf ==
  ASSUME NEW n \in Nat, NEW b \in Nat, b > 0
  PROVE  n \div b <= n
<1> DEFINE q == n \div b
<1>1. q \in Nat /\ q * b <= n
  OBVIOUS
<1> HIDE DEF q
<1>2. q <= q * b
  BY <1>1
<1>3. q * b \in Nat
  BY <1>1
<1> QED
  BY <1>1, <1>2, <1>3 DEF q

\* LapInv is inductive.
LEMMA LapInductive ==
  ASSUME LapInv, [GenNext]_genVars
  PROVE  LapInv'
<1>1. GenInv /\ GenInv'
  BY GenInductive DEF LapInv
<1> DEFINE Total(d, n) == /\ IsFiniteSet(ProbUnits(d, 0 .. (Len(d) - 1)))
                          /\ n = Cardinality(ProbUnits(d, 0 .. (Len(d) - 1)))
           s == Start(current_locality_)
<1>2. Total(data_, total_prob_)
  BY DEF LapInv
<1>3. scan # NoScan => OneLap(data_, s, scan)
  BY LapMeaning DEF LapInv
<1>0. ScanIsOneLap' <=> (scan' # NoScan => OneLap(data_', s', scan'))
  BY Zenon DEF ScanIsOneLap, SumFrom, Passed, OneLap, From, Start
<1>4. SUFFICES /\ Total(data_', total_prob_')
               /\ scan' # NoScan => OneLap(data_', s', scan')
  BY <1>0, <1>1, <1>4 DEF LapInv
<1>5. built => /\ s \in 0 .. (Len(data_) - 1) /\ Len(data_) > 0
               /\ data_ \in Seq(Entry)
  BY <1>1, StartInBounds DEF GenInv, GenTypeOK
<1>6. scan # NoScan => scan \in Scan /\ scan.i < Len(data_) /\ built
  BY <1>1 DEF GenInv, GenTypeOK
<1>7. scan' # NoScan => scan' \in Scan
  BY <1>1 DEF GenInv, GenTypeOK
<1> HIDE DEF Total
<1>8. ASSUME NEW n \in ValueSizes, NEW p \in Probs, AddEntry(n, p)
      PROVE  Total(data_', total_prob_') /\ scan' = NoScan
  BY <1>6, <1>8, TotalAdd DEF AddEntry, Total
<1>9. CASE Shuffle
  BY <1>6, <1>9, TotalShuffle DEF Shuffle, Total
<1>10. ASSUME UNCHANGED <<data_, total_prob_, current_locality_>>,
              scan' = scan \/ scan' = NoScan
       PROVE  /\ Total(data_', total_prob_')
              /\ scan' # NoScan => OneLap(data_', s', scan')
  <2>1. s' = s
    BY <1>10 DEF Start
  <2> HIDE DEF s
  <2> QED
    BY <1>2, <1>3, <1>10, <2>1
<1>11. ASSUME UNCHANGED <<data_, total_prob_>>, scan' = NoScan
       PROVE  /\ Total(data_', total_prob_')
              /\ scan' # NoScan => OneLap(data_', s', scan')
  BY <1>2, <1>11
<1>12. ASSUME NEW method \in {"get", "delete", "set"}, NEW target \in Nat,
              target <= total_prob_ \div locality_range_,
              gen_start(method, target)
       PROVE  /\ Total(data_', total_prob_')
              /\ scan' # NoScan => OneLap(data_', s', scan')
  <2>1. /\ UNCHANGED <<data_, total_prob_, current_locality_>> /\ built
        /\ scan' = [method |-> method, target |-> target, current |-> 0, i |-> s]
    BY <1>12 DEF gen_start, Ready
  <2>2. s' = s
    BY <2>1 DEF Start
  <2> DEFINE t == [method |-> method, target |-> target, current |-> 0, i |-> s]
  <2>3. s \in Nat /\ s \in 0 .. (Len(data_) - 1)
    BY <1>5, <2>1
  <2> HIDE DEF s
  <2>4. t \in Scan /\ t.i = s /\ t.current = 0 /\ t.target = target
    BY <2>3 DEF Scan
  <2>5. target <= total_prob_
    <3>1. total_prob_ \in Nat /\ locality_range_ \in Nat /\ locality_range_ > 0
      BY <1>1, GeneratorAssumption DEF GeneratorAssumption, GenInv, GenTypeOK
    <3>2. total_prob_ \div locality_range_ <= total_prob_
      BY <3>1, ShareOf
    <3>3. total_prob_ \div locality_range_ \in Int
      BY <3>1
    <3> QED
      BY <1>12, <3>1, <3>2, <3>3
  <2>6. OneLap(data_, s, t)
    <3> HIDE DEF t
    <3>1. target <= Cardinality(ProbUnits(data_, 0 .. (Len(data_) - 1)))
      BY <1>2, <2>5 DEF Total
    <3> QED
      BY <1>5, <2>1, <2>3, <2>4, <3>1, LapStart
  <2> QED
    BY <1>2, <2>1, <2>2, <2>6
<1>13. CASE gen_scan
  <2> DEFINE t == scan
             p == At(t.i).prob
             u == [t EXCEPT !.current = @ + p, !.i = NextIndex(@)]
  <2>1. /\ UNCHANGED <<data_, total_prob_, current_locality_>>
        /\ t # NoScan /\ t.current + p < t.target /\ scan' = u
    BY <1>13 DEF gen_scan, Short
  <2>2. s' = s
    BY <2>1 DEF Start
  <2>3. t \in Scan /\ t.i \in Nat /\ t.i < Len(data_) /\ built
    BY <1>6, <2>1 DEF Scan
  <2>4. p \in Nat /\ p = data_[t.i + 1].prob
    BY <1>1, <2>3, AtType DEF At, GenInv
  <2>5. /\ u.target = t.target /\ u.current = t.current + p
        /\ u.i = IF t.i + 1 >= Len(data_) THEN 0 ELSE t.i + 1
    BY <2>3 DEF Scan, NextIndex
  <2>6. u \in Scan \/ u = NoScan
    BY <1>7, <2>1, Zenon
  <2>7. CASE u = NoScan
    <3> HIDE DEF s, u
    <3> QED
      BY <1>2, <2>1, <2>7
  <2>8. CASE u \in Scan
    <3>1. OneLap(data_, s, t)
      BY <1>3, <2>1
    <3>2. IsFiniteSet(ProbUnits(data_, 0 .. (Len(data_) - 1)))
      BY <1>2 DEF Total
    <3> HIDE DEF s, u, p
    <3>3. OneLap(data_, s, u)
      BY <1>5, <2>1, <2>3, <2>4, <2>5, <2>8, <3>1, <3>2, LapStep
    <3> QED
      BY <1>2, <2>1, <2>2, <3>3
  <2> QED
    BY <2>6, <2>7, <2>8
<1>14. CASE gen_return
  BY <1>11, <1>14 DEF gen_return
<1>15. CASE gen_dummy
  BY <1>10, <1>15 DEF gen_dummy
<1>16. CASE UNCHANGED genVars
  BY <1>10, <1>16 DEF genVars
<1>17. ASSUME NEW set_only \in BOOLEAN, gen_req(set_only)
       PROVE  /\ Total(data_', total_prob_')
              /\ scan' # NoScan => OneLap(data_', s', scan')
  <2>1. 0 .. (total_prob_ \div locality_range_) \subseteq Nat
    OBVIOUS
  <2>2. \A k \in 0 .. (total_prob_ \div locality_range_) :
           k <= total_prob_ \div locality_range_
    OBVIOUS
  <2>3. {"set"} \subseteq {"get", "delete", "set"}
    OBVIOUS
  <2>4. \/ gen_dummy
        \/ \E method \in {"get", "delete", "set"},
              target \in 0 .. (total_prob_ \div locality_range_) :
             gen_start(method, target)
    BY <1>17, <2>3, Zenon DEF gen_req
  <2> HIDE DEF s
  <2> QED
    BY <1>12, <1>15, <2>1, <2>2, <2>4, Zenon
<1> HIDE DEF s
<1> QED
  BY <1>8, <1>9, <1>13, <1>14, <1>16, <1>17, Zenon DEF GenNext

\* In every reachable state total_prob_ is the sum over data_ and the scan is in
\* its first lap (LapInv).
THEOREM LapInvariant == GenSpec => []LapInv
<1>1. GenInit => LapInv
  BY TotalInit
<1> QED
  BY <1>1, LapInductive, PTL DEF GenSpec

\* gen_req() adds up every entry it passes once, stops at the first one that
\* reaches the target, and its target is one the vector reaches.
THEOREM ScanLapsOnce == GenSpec => []ScanIsOneLap
<1>1. LapInv => ScanIsOneLap
  BY DEF LapInv
<1> QED
  BY <1>1, LapInvariant, PTL

\* A call that scans returns or passes one more entry, and never all of them: it
\* returns within Len(data_) turns, whatever the probabilities.  (That the loop
\* does take turns is fairness.)
THEOREM ScanTurnsBounded == GenSpec => ScanAdvances
<1> DEFINE Advances == scan # NoScan =>
                         scan' = NoScan \/ (Turns' = Turns + 1 /\ Turns' < Len(data_))
           Moves == scan # NoScan /\ Short => NextIndex(scan.i) # scan.i
<1>1. ASSUME LapInv, scan # NoScan, Short
      PROVE  LET s == Start(current_locality_)
                 j == NextIndex(scan.i)
             IN  /\ (j - s) % Len(data_) = Turns + 1
                 /\ (j - s) % Len(data_) < Len(data_)
  <2> DEFINE s == Start(current_locality_)
             t == scan
             p == At(t.i).prob
             u == [t EXCEPT !.current = @ + p, !.i = NextIndex(@)]
  <2>1. t # NoScan /\ t.current + p < t.target
    BY <1>1 DEF Short
  <2>2. t \in Scan /\ t.i \in Nat /\ t.i < Len(data_) /\ built /\ GenTypeOK
    BY <1>1, <2>1 DEF LapInv, GenInv, GenTypeOK, Scan
  <2>3. p \in Nat /\ p = data_[t.i + 1].prob
    BY <2>2, AtType DEF At
  <2>4. /\ u.target = t.target /\ u.current = t.current + p
        /\ u.i = IF t.i + 1 >= Len(data_) THEN 0 ELSE t.i + 1
        /\ u.i \in Nat /\ u.i = NextIndex(t.i)
    BY <2>2 DEF Scan, NextIndex
  <2>5. u \in Scan
    <3>1. NextIndex(t.i) \in Nat /\ t.current + p \in Nat
      BY <2>2, <2>3 DEF NextIndex, Scan
    <3> HIDE DEF p
    <3> QED
      BY <2>2, <3>1, ScanMoves
  <2>6. OneLap(data_, s, t)
    BY <1>1, <2>1, LapMeaning DEF LapInv
  <2>7. s \in 0 .. (Len(data_) - 1) /\ Len(data_) > 0 /\ data_ \in Seq(Entry)
    BY <1>1, <2>2, StartInBounds DEF LapInv, GenInv, GenTypeOK
  <2>8. IsFiniteSet(ProbUnits(data_, 0 .. (Len(data_) - 1)))
    BY <1>1 DEF LapInv
  <2> HIDE DEF s, u, p
  <2>9. (u.i - s) % Len(data_) = ((t.i - s) % Len(data_)) + 1 /\ (u.i - s) % Len(data_) < Len(data_)
    BY <2>1, <2>2, <2>3, <2>4, <2>5, <2>6, <2>7, <2>8, LapStep
  <2>10. Turns = (t.i - s) % Len(data_) /\ u.i = NextIndex(scan.i)
    BY <2>4 DEF Turns, s
  <2> QED
    BY <2>9, <2>10 DEF s
<1>2. ASSUME LapInv, gen_scan PROVE Turns' = Turns + 1 /\ Turns' < Len(data_)
  <2>1. scan # NoScan /\ Short /\ UNCHANGED <<data_, current_locality_>>
    BY <1>2 DEF gen_scan
  <2>2. scan \in Scan
    BY <1>2, <2>1 DEF LapInv, GenInv, GenTypeOK
  <2>3. scan'.i = NextIndex(scan.i)
    BY <1>2, <2>2 DEF gen_scan, Scan
  <2>4. Turns' = (NextIndex(scan.i) - Start(current_locality_)) % Len(data_)
    BY <2>1, <2>3 DEF Turns, Start
  <2> QED
    BY <1>1, <1>2, <2>1, <2>4
<1>3. LapInv => Moves
  <2> SUFFICES ASSUME LapInv, scan # NoScan, Short, NextIndex(scan.i) = scan.i
               PROVE  FALSE
    OBVIOUS
  <2>1. Turns = Turns + 1
    BY <1>1 DEF Turns
  <2>2. Turns \in Int
    <3>1. Start(current_locality_) \in 0 .. (Len(data_) - 1) /\ Len(data_) > 0
      BY StartInBounds DEF LapInv, GenInv, GenTypeOK
    <3>2. scan.i \in Nat /\ data_ \in Seq(Entry)
      BY DEF LapInv, GenInv, GenTypeOK, Scan
    <3> HIDE DEF Turns
    <3> QED
      BY <3>1, <3>2 DEF Turns
  <2> QED
    BY <2>1, <2>2
<1>4. ASSUME LapInv, GenNext PROVE Advances
  <2>1. scan # NoScan => built
    BY <1>4 DEF LapInv, GenInv
  <2>2. scan # NoScan => gen_scan \/ gen_return
    BY <1>4, <2>1 DEF GenNext, AddEntry, Shuffle, gen_req, gen_dummy, gen_start, Ready
  <2>3. gen_return => scan' = NoScan
    BY DEF gen_return
  <2> QED
    BY <1>4, <1>2, <2>2, <2>3
<1>5. LapInv /\ [GenNext]_genVars => [Advances]_genVars
  BY <1>4
<1>6. GenSpec => [][Advances]_genVars
  BY <1>5, LapInvariant, PTL DEF GenSpec
<1>7. GenSpec => []Moves
  BY <1>3, LapInvariant, PTL
<1> QED
  BY <1>6, <1>7 DEF ScanAdvances

=============================================================================
