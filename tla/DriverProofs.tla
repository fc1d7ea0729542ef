---------------------------- MODULE DriverProofs ----------------------------
(***************************************************************************)
(* Proofs about the benchmark driver: for any number of requests and any   *)
(* latencies, the percentile it returns is one of them, its vector has as  *)
(* many entries as it was asked for, and the generator it draws from keeps *)
(* its invariant.  The sorted vector is the bag of latencies put in order, *)
(* so its entries are found by counting: a least element of a set of       *)
(* numbers (LeastNatural) takes the place of an induction.                 *)
(***************************************************************************)
EXTENDS Driver, GeneratorProofs

-----------------------------------------------------------------------------
(* Counting latencies *)

\* What is counted.
LEMMA RequestsMember ==
  ASSUME NEW r, NEW S
  PROVE  /\ \A d, j : <<d, j>> \in Requests(r, S) <=> d \in S /\ j \in 1 .. r[d]
         /\ \A x \in Requests(r, S) : x = <<x[1], x[2]>> /\ x[1] \in S
                                      /\ x[2] \in 1 .. r[x[1]]
<1>1. ASSUME NEW d, NEW j
      PROVE  <<d, j>> \in Requests(r, S) <=> d \in S /\ j \in 1 .. r[d]
  <2>1. <<d, j>> \in Requests(r, S) <=> \E e \in S : <<d, j>> \in {e} \X (1 .. r[e])
    BY DEF Requests
  <2>2. \A e : <<d, j>> \in {e} \X (1 .. r[e]) <=> d = e /\ j \in 1 .. r[e]
    OBVIOUS
  <2> QED
    BY <2>1, <2>2, Zenon
<1>2. ASSUME NEW x \in Requests(r, S)
      PROVE  x = <<x[1], x[2]>> /\ x[1] \in S /\ x[2] \in 1 .. r[x[1]]
  <2>1. PICK d \in S : x \in {d} \X (1 .. r[d])
    BY DEF Requests
  <2> QED
    BY <2>1
<1> QED
  BY <1>1, <1>2

\* A part of the latencies is at most all of them.
LEMMA CountPart ==
  ASSUME NEW r, NEW S, NEW T, S \subseteq T, IsFiniteSet(Requests(r, T))
  PROVE  /\ Requests(r, S) \subseteq Requests(r, T)
         /\ IsFiniteSet(Requests(r, S))
         /\ Count(r, S) \in Nat /\ Count(r, T) \in Nat
         /\ Count(r, S) <= Count(r, T)
<1>1. Requests(r, S) \subseteq Requests(r, T)
  BY DEF Requests
<1>2. IsFiniteSet(Requests(r, S)) /\ Cardinality(Requests(r, S)) <= Cardinality(Requests(r, T))
  BY <1>1, FS_Subset
<1>3. Cardinality(Requests(r, S)) \in Nat /\ Cardinality(Requests(r, T)) \in Nat
  BY <1>2, FS_CardinalityType
<1> QED
  BY <1>1, <1>2, <1>3 DEF Count

\* No latency was had more often than there are requests.
LEMMA CountOne ==
  ASSUME NEW r \in [Durations -> Nat], IsFiniteSet(Requests(r, Durations)),
         NEW d \in Durations
  PROVE  r[d] <= Recorded(r)
<1>1. Count(r, {d}) <= Recorded(r) /\ Count(r, {d}) \in Nat
  BY CountPart DEF Recorded
<1>2. Requests(r, {d}) = {d} \X (1 .. r[d])
  BY DEF Requests
<1> DEFINE n == r[d]
<1>3. n \in Nat
  OBVIOUS
<1> HIDE DEF n
<1>4. IsFiniteSet({d}) /\ Cardinality({d}) = 1
  BY FS_Singleton
<1>5. IsFiniteSet(1 .. n) /\ Cardinality(1 .. n) = n
  BY <1>3, FS_Interval
<1>6. Cardinality({d} \X (1 .. n)) = Cardinality({d}) * Cardinality(1 .. n)
  BY <1>4, <1>5, FS_Product, Zenon
<1>7. Cardinality({d} \X (1 .. n)) = n
  BY <1>3, <1>4, <1>5, <1>6
<1>8. Count(r, {d}) = n
  BY <1>2, <1>7 DEF Count, n
<1> QED
  BY <1>1, <1>8 DEF n

\* Recording a latency counts one request more.
LEMMA CountRecord ==
  ASSUME NEW r \in [Durations -> Nat], IsFiniteSet(Requests(r, Durations)),
         NEW d \in Durations
  PROVE  LET r1 == [r EXCEPT ![d] = @ + 1]
         IN  /\ r1 \in [Durations -> Nat]
             /\ IsFiniteSet(Requests(r1, Durations))
             /\ Recorded(r1) = Recorded(r) + 1
<1> DEFINE r1 == [r EXCEPT ![d] = @ + 1]
           x == <<d, r[d] + 1>>
           R == Requests(r, Durations)
<1>1. /\ r1 \in [Durations -> Nat] /\ r1[d] = r[d] + 1
      /\ \A e \in Durations : e # d => r1[e] = r[e]
  OBVIOUS
<1>2. Requests(r1, Durations) = R \cup {x}
  <2> HIDE DEF r1
  <2>1. ASSUME NEW e \in Durations
        PROVE  {e} \X (1 .. r1[e]) = IF e = d THEN ({e} \X (1 .. r[e])) \cup {x}
                                              ELSE {e} \X (1 .. r[e])
    <3>1. CASE e = d
      <4>1. 1 .. r1[e] = (1 .. r[e]) \cup {r[e] + 1}
        BY <1>1, <3>1
      <4> QED
        BY <3>1, <4>1
    <3>2. CASE e # d
      BY <1>1, <3>2
    <3> QED
      BY <3>1, <3>2
  <2> HIDE DEF x
  <2>2. Requests(r1, Durations) \subseteq R \cup {x}
    <3> SUFFICES ASSUME NEW y \in Requests(r1, Durations) PROVE y \in R \cup {x}
      OBVIOUS
    <3>1. PICK e \in Durations : y \in {e} \X (1 .. r1[e])
      BY Zenon DEF Requests
    <3>2. y \in {e} \X (1 .. r[e]) \/ y = x
      BY <2>1, <3>1
    <3> QED
      BY <3>2, Zenon DEF Requests
  <2>3. R \subseteq Requests(r1, Durations)
    <3> SUFFICES ASSUME NEW y \in R PROVE y \in Requests(r1, Durations)
      OBVIOUS
    <3>1. PICK e \in Durations : y \in {e} \X (1 .. r[e])
      BY Zenon DEF Requests
    <3>2. y \in {e} \X (1 .. r1[e])
      BY <2>1, <3>1
    <3> QED
      BY <3>2, Zenon DEF Requests
  <2>4. x \in Requests(r1, Durations)
    <3>1. x \in {d} \X (1 .. r1[d])
      BY <2>1
    <3> QED
      BY <3>1, Zenon DEF Requests
  <2> QED
    BY <2>2, <2>3, <2>4
<1>3. x \notin R
  <2>1. r[d] + 1 \notin 1 .. r[d]
    OBVIOUS
  <2> QED
    BY <2>1, RequestsMember, Zenon
<1> HIDE DEF r1, x, R
<1>4. IsFiniteSet(R)
  BY DEF R
<1>5. IsFiniteSet(R \cup {x}) /\ Cardinality(R \cup {x}) = Cardinality(R) + 1
  BY <1>3, <1>4, FS_AddElement
<1>6. IsFiniteSet(Requests(r1, Durations)) /\ Recorded(r1) = Recorded(r) + 1
  BY <1>2, <1>5 DEF Recorded, Count, R
<1> QED
  BY <1>1, <1>6 DEF r1

\* Nothing is counted to begin with.
LEMMA CountNone ==
  /\ NoResults \in [Durations -> Nat]
  /\ IsFiniteSet(Requests(NoResults, Durations))
  /\ Recorded(NoResults) = 0
<1>1. \A d \in Durations : 1 .. NoResults[d] = {}
  BY DEF NoResults
<1>2. Requests(NoResults, Durations) = {}
  BY <1>1 DEF Requests
<1> QED
  BY <1>2, FS_EmptySet DEF NoResults, Recorded, Count

-----------------------------------------------------------------------------
(* The sorted vector *)

\* A set of natural numbers that is not empty has a least element.
LEMMA LeastNatural ==
  ASSUME NEW T \in SUBSET Nat, T # {}
  PROVE  \E x \in T : \A y \in T : x <= y
<1>1. PICK x \in T : \A y \in T : ~ (<<y, x>> \in OpToRel(<, Nat))
  BY NatLessThanWellFounded, WFMin
<1>2. \A y \in T : <<y, x>> \in OpToRel(<, Nat) \/ x <= y
  <2>1. x \in Nat
    OBVIOUS
  <2> QED
    BY <2>1, SMT DEF OpToRel
<1> QED
  BY <1>1, <1>2, Zenon

\* One of the latencies in S is as high as all that were had.
LEMMA CountAttained ==
  ASSUME NEW r \in [Durations -> Nat], IsFiniteSet(Requests(r, Durations)),
         NEW S \in SUBSET Durations, S # {}
  PROVE  \E d \in S : Count(r, UpTo(d) \cap S) = Count(r, S)
<1> DEFINE Rest(d) == Count(r, S) - Count(r, UpTo(d) \cap S)
           N == {Rest(d) : d \in S}
<1>0. IsFiniteSet(Requests(r, S))
  BY CountPart
<1>1. \A d \in S : /\ Count(r, UpTo(d) \cap S) \in Nat /\ Count(r, S) \in Nat
                   /\ Count(r, UpTo(d) \cap S) <= Count(r, S)
  <2> TAKE d \in S
  <2>1. UpTo(d) \cap S \subseteq S
    OBVIOUS
  <2> DEFINE P == UpTo(d) \cap S
  <2> HIDE DEF P
  <2>2. Count(r, P) \in Nat /\ Count(r, S) \in Nat /\ Count(r, P) <= Count(r, S)
    BY <1>0, <2>1, CountPart DEF P
  <2> QED
    BY <2>2 DEF P
<1>2. \A d \in S : Rest(d) \in Nat
  BY <1>1
<1>3. N \in SUBSET Nat /\ N # {}
  <2> HIDE DEF Rest
  <2> QED
    BY <1>2
<1>4. PICK x \in N : \A y \in N : x <= y
  <2> HIDE DEF N
  <2> QED
    BY <1>3, LeastNatural
<1>5. PICK d \in S : x = Rest(d)
  OBVIOUS
<1>6. ASSUME Count(r, UpTo(d) \cap S) # Count(r, S) PROVE FALSE
  <2>1. Requests(r, UpTo(d) \cap S) # Requests(r, S)
    BY <1>6 DEF Count
  <2>2. UpTo(d) \cap S \subseteq S
    OBVIOUS
  <2>3. Requests(r, UpTo(d) \cap S) \subseteq Requests(r, S)
    BY <1>0, <2>2, CountPart
  <2>4. PICK y \in Requests(r, S) : y \notin Requests(r, UpTo(d) \cap S)
    BY <2>1, <2>3
  <2> DEFINE e == y[1]
             u == y[2]
  <2>5. y = <<e, u>> /\ e \in S /\ u \in 1 .. r[e]
    BY RequestsMember
  <2> HIDE DEF e, u
  <2>6. e \notin UpTo(d) \cap S
    <3> SUFFICES ASSUME e \in UpTo(d) \cap S PROVE FALSE
      OBVIOUS
    <3>1. <<e, u>> \in Requests(r, UpTo(d) \cap S)
      BY <2>5, RequestsMember, Zenon
    <3> QED
      BY <2>4, <2>5, <3>1
  <2>7. d < e /\ UpTo(d) \cap S \subseteq UpTo(e) \cap S
    <3>1. d \in Nat /\ e \in Nat /\ d \in Durations /\ e \in Durations /\ Durations \subseteq Nat
      BY <2>5, DriverAssumption DEF DriverAssumption
    <3>2. d < e
      BY <2>5, <2>6, <3>1 DEF UpTo
    <3>3. \A x1 \in Durations : x1 <= d => x1 <= e
      BY <3>1, <3>2
    <3> QED
      BY <3>2, <3>3 DEF UpTo
  <2>8. e \in UpTo(e) \cap S
    <3>1. e \in Durations /\ e \in Nat
      BY <2>5, DriverAssumption DEF DriverAssumption
    <3> QED
      BY <2>5, <3>1 DEF UpTo
  <2>9. y \in Requests(r, UpTo(e) \cap S)
    <3>1. <<e, u>> \in Requests(r, UpTo(e) \cap S)
      BY <2>5, <2>8, RequestsMember, Zenon
    <3> QED
      BY <2>5, <3>1
  <2> DEFINE A == UpTo(d) \cap S
             B == UpTo(e) \cap S
  <2>10. B \subseteq S
    OBVIOUS
  <2> HIDE DEF A, B
  <2>11. IsFiniteSet(Requests(r, B))
    BY <1>0, <2>10, CountPart
  <2>12. /\ Requests(r, A) \subseteq Requests(r, B) /\ Count(r, A) <= Count(r, B)
         /\ Count(r, A) \in Nat /\ Count(r, B) \in Nat
    BY <2>7, <2>11, CountPart DEF A, B
  <2>13. Cardinality(Requests(r, B)) = Cardinality(Requests(r, A)) => Requests(r, B) = Requests(r, A)
    BY <2>11, <2>12, FS_Subset
  <2>14. Count(r, A) # Count(r, B)
    BY <2>4, <2>9, <2>13 DEF Count, A, B
  <2>15. Rest(e) < Rest(d)
    <3>1. Count(r, A) < Count(r, B)
      BY <2>12, <2>14
    <3>2. Count(r, S) \in Nat
      BY <1>1
    <3>3. Count(r, S) - Count(r, B) < Count(r, S) - Count(r, A)
      BY <2>12, <3>1, <3>2
    <3> QED
      BY <3>3 DEF A, B
  <2>16. Rest(e) \in N
    BY <2>5
  <2>17. Rest(d) <= Rest(e)
    BY <1>4, <1>5, <2>16
  <2> HIDE DEF Rest
  <2> QED
    BY <1>2, <2>5, <2>15, <2>17
<1> QED
  BY <1>6

\* Each place of the sorted vector holds the latency that as many are not above,
\* and fewer are below.
LEMMA SortedAt ==
  ASSUME NEW r \in [Durations -> Nat], IsFiniteSet(Requests(r, Durations)),
         NEW k \in 1 .. Recorded(r)
  PROVE  /\ Sorted(r)[k] \in Durations
         /\ Count(r, Below(Sorted(r)[k])) < k
         /\ k <= Count(r, UpTo(Sorted(r)[k]))
<1>0. Recorded(r) \in Nat /\ k \in Nat /\ k > 0 /\ k <= Recorded(r)
  <2>1. Recorded(r) \in Nat
    BY CountPart DEF Recorded
  <2> QED
    BY <2>1
<1> DEFINE T == {d \in Durations : k <= Count(r, UpTo(d))}
<1>1. \A d : UpTo(d) \subseteq Durations /\ Below(d) \subseteq Durations
  BY DEF UpTo, Below
<1>2. \A d : Count(r, UpTo(d)) \in Nat /\ Count(r, Below(d)) \in Nat
  <2> TAKE d
  <2> QED
    BY <1>1, CountPart
<1>3. T # {}
  <2>1. Durations # {}
    BY DriverAssumption DEF DriverAssumption
  <2>2. PICK d \in Durations : Count(r, UpTo(d) \cap Durations) = Count(r, Durations)
    BY <2>1, CountAttained
  <2>3. UpTo(d) \cap Durations = UpTo(d)
    BY <1>1
  <2>4. d \in T
    BY <1>0, <2>2, <2>3 DEF Recorded
  <2> QED
    BY <2>4
<1>4. T \in SUBSET Nat
  BY DriverAssumption DEF DriverAssumption
<1>5. PICK d \in T : \A e \in T : d <= e
  <2> HIDE DEF T
  <2> QED
    BY <1>3, <1>4, LeastNatural
<1>6. d \in Durations /\ k <= Count(r, UpTo(d)) /\ d \in Nat
  BY <1>4
<1>7. Count(r, Below(d)) < k
  <2> SUFFICES ASSUME k <= Count(r, Below(d)) PROVE FALSE
    BY <1>0, <1>2
  <2>1. CASE Below(d) = {}
    <3>1. Requests(r, Below(d)) = {}
      BY <2>1 DEF Requests
    <3>2. Count(r, Below(d)) = 0
      BY <3>1, FS_EmptySet DEF Count
    <3> QED
      BY <1>0, <3>2
  <2>2. CASE Below(d) # {}
    <3>1. PICK e \in Below(d) : Count(r, UpTo(e) \cap Below(d)) = Count(r, Below(d))
      BY <1>1, <2>2, CountAttained
    <3>2. e \in Durations /\ e < d /\ e \in Nat
      BY DriverAssumption DEF DriverAssumption, Below
    <3>3. UpTo(e) \cap Below(d) = UpTo(e)
      <4>1. \A x \in Durations : x <= e => x < d
        BY <1>6, <3>2, DriverAssumption DEF DriverAssumption
      <4> QED
        BY <4>1 DEF Below, UpTo
    <3>4. e \in T
      BY <3>1, <3>2, <3>3
    <3>5. d <= e
      BY <1>5, <3>4
    <3> QED
      BY <1>6, <3>2, <3>5
  <2> QED
    BY <2>1, <2>2
<1> DEFINE Q(e) == Count(r, Below(e)) < k /\ k <= Count(r, UpTo(e))
<1>8. Sorted(r)[k] = CHOOSE e \in Durations : Q(e)
  BY DEF Sorted
<1>9. \E e \in Durations : Q(e)
  BY <1>6, <1>7
<1> HIDE DEF Q
<1>10. Sorted(r)[k] \in Durations /\ Q(Sorted(r)[k])
  BY <1>8, <1>9, Zenon
<1> QED
  BY <1>10 DEF Q

-----------------------------------------------------------------------------
(* The sum *)

\* What accumulate() returns for whole numbers of microseconds is one of
\* milliseconds: the sum over a vector is defined, and a natural number.
LEMMA AccumulateType ==
  ASSUME NEW s \in Seq(Nat)
  PROVE  Accumulate(s) \in Nat
<1> DEFINE n == Len(s)
           Step(f, j) == IF j = 0 THEN 0 ELSE (1000 * f[j - 1] + s[j]) \div 1000
           Sums(f, k) == f = [j \in 0 .. k |-> Step(f, j)]
<1>1. n \in Nat /\ \A j \in 1 .. n : s[j] \in Nat
  OBVIOUS
<1>2. ASSUME NEW k \in 1 .. n, NEW g, Sums(g, k - 1) PROVE \E f : Sums(f, k)
  <2> DEFINE f == [j \in 0 .. k |-> IF j = k THEN (1000 * g[k - 1] + s[k]) \div 1000 ELSE g[j]]
  <2>1. ASSUME NEW j \in 0 .. k PROVE f[j] = Step(f, j)
    <3>1. CASE j = 0
      <4>1. f[j] = g[0] /\ 0 \in 0 .. (k - 1)
        BY <1>1, <3>1
      <4>2. g[0] = Step(g, 0)
        BY <1>2, <4>1
      <4> QED
        BY <3>1, <4>1, <4>2
    <3>2. CASE j = k
      <4>1. f[j - 1] = g[k - 1] /\ j # 0
        BY <3>2
      <4>2. f[j] = (1000 * g[k - 1] + s[k]) \div 1000
        BY <3>2
      <4> HIDE DEF f
      <4> QED
        BY <3>2, <4>1, <4>2
    <3>3. CASE j # 0 /\ j # k
      <4>1. j \in 0 .. (k - 1) /\ j - 1 \in 0 .. (k - 1) /\ j - 1 # k /\ j - 1 \in 0 .. k
        BY <3>3
      <4>2. f[j] = g[j] /\ f[j - 1] = g[j - 1]
        BY <3>3, <4>1
      <4>3. g[j] = Step(g, j)
        BY <1>2, <4>1
      <4> HIDE DEF f
      <4> QED
        BY <3>3, <4>2, <4>3
    <3> QED
      BY <3>1, <3>2, <3>3
  <2>2. f = [j \in 0 .. k |-> f[j]]
    OBVIOUS
  <2> HIDE DEF f, Step
  <2>3. f = [j \in 0 .. k |-> Step(f, j)]
    BY <2>1, <2>2
  <2> QED
    BY <2>3
<1>3. \E f : Sums(f, 0)
  <2> DEFINE f == [j \in 0 .. 0 |-> 0]
  <2>1. \A j \in 0 .. 0 : Step(f, j) = 0
    OBVIOUS
  <2>2. f = [j \in 0 .. 0 |-> Step(f, j)]
    BY <2>1
  <2> HIDE DEF f, Step
  <2> QED
    BY <2>2
<1> DEFINE Bad == {k \in 0 .. n : ~ \E f : Sums(f, k)}
<1>4. Bad = {}
  <2> HIDE DEF Sums
  <2> SUFFICES ASSUME Bad # {} PROVE FALSE
    OBVIOUS
  <2>1. Bad \in SUBSET Nat
    OBVIOUS
  <2>2. PICK k \in Bad : \A j \in Bad : k <= j
    <3> HIDE DEF Bad
    <3> QED
      BY <2>1, LeastNatural
  <2>3. k \in 0 .. n /\ ~ \E f : Sums(f, k)
    OBVIOUS
  <2>4. k # 0
    BY <1>3, <2>3
  <2>5. k \in 1 .. n /\ k - 1 \in 0 .. n /\ ~ k <= k - 1
    BY <1>1, <2>3, <2>4
  <2>6. k - 1 \notin Bad
    BY <2>2, <2>5
  <2>7. \E g : Sums(g, k - 1)
    BY <2>5, <2>6
  <2> HIDE DEF Bad
  <2> QED
    BY <1>2, <2>3, <2>5, <2>7, Zenon
<1>5. n \in 0 .. n
  BY <1>1
<1>6. \E f : Sums(f, n)
  <2> HIDE DEF Sums
  <2> QED
    BY <1>4, <1>5
<1> DEFINE sum == CHOOSE f : Sums(f, n)
<1>7. Sums(sum, n)
  <2> HIDE DEF Sums
  <2> QED
    BY <1>6, Zenon
<1>8. Accumulate(s) = sum[n]
  BY Zenon DEF Accumulate
<1> HIDE DEF sum
<1>9. \A j \in 0 .. n : sum[j] = Step(sum, j)
  <2> HIDE DEF Step
  <2> QED
    BY <1>7
<1> DEFINE Wrong == {k \in 0 .. n : sum[k] \notin Nat}
<1>10. Wrong = {}
  <2> HIDE DEF Sums
  <2> SUFFICES ASSUME Wrong # {} PROVE FALSE
    OBVIOUS
  <2>1. Wrong \in SUBSET Nat
    OBVIOUS
  <2>2. PICK k \in Wrong : \A j \in Wrong : k <= j
    <3> HIDE DEF Wrong
    <3> QED
      BY <2>1, LeastNatural
  <2>3. k \in 0 .. n /\ sum[k] \notin Nat
    OBVIOUS
  <2>4. k # 0
    BY <1>9, <2>3
  <2>5. k \in 1 .. n /\ k - 1 \in 0 .. n /\ ~ k <= k - 1
    BY <1>1, <2>3, <2>4
  <2>6. k - 1 \notin Wrong
    BY <2>2, <2>5
  <2>7. sum[k - 1] \in Nat /\ s[k] \in Nat
    BY <1>1, <2>5, <2>6
  <2>8. sum[k] = (1000 * sum[k - 1] + s[k]) \div 1000
    BY <1>9, <2>3, <2>4
  <2> QED
    BY <2>3, <2>7, <2>8
<1> QED
  BY <1>5, <1>8, <1>10

\* The sorted vector has a place for each latency.
LEMMA SortedType ==
  ASSUME NEW r \in [Durations -> Nat], IsFiniteSet(Requests(r, Durations)),
         NEW g \in Nat, Recorded(r) = g
  PROVE  Sorted(r) \in Seq(Nat) /\ Len(Sorted(r)) = g
<1> DEFINE s == Sorted(r)
<1>1. \A k \in 1 .. g : s[k] \in Nat
  BY SortedAt, DriverAssumption DEF DriverAssumption
<1>2. s = [k \in 1 .. g |-> s[k]]
  BY DEF Sorted
<1> HIDE DEF s
<1>3. s \in Seq(Nat) /\ Len(s) = g
  BY <1>1, <1>2
<1> QED
  BY <1>3 DEF s

\* The place of the percentile among the g latencies, if there is one.
LEMMA PlaceRight ==
  ASSUME NEW r \in [Durations -> Nat], IsFiniteSet(Requests(r, Durations)),
         NEW g \in Nat \ {0}, Recorded(r) = g, NEW q \in Nat,
         100 * q <= 95 * g, 95 * g < 100 * (q + 1), q < g
  PROVE  LET p == Sorted(r)[q + 1]
         IN  /\ p \in Durations
             /\ 100 * Count(r, Below(p)) <= PERCENTILE_METRIC * g
             /\ 100 * Count(r, UpTo(p)) >= PERCENTILE_METRIC * g
<1> DEFINE p == Sorted(r)[q + 1]
<1>1. g \in Nat /\ g > 0
  OBVIOUS
<1>2. q \in Nat /\ 100 * q <= 95 * g /\ 95 * g < 100 * (q + 1) /\ q + 1 \in 1 .. g
  OBVIOUS
<1>4. \A d : Count(r, UpTo(d)) \in Nat /\ Count(r, Below(d)) \in Nat
  <2> TAKE d
  <2>1. UpTo(d) \subseteq Durations /\ Below(d) \subseteq Durations
    BY DEF UpTo, Below
  <2> QED
    BY <2>1, CountPart
<1>5. p \in Durations /\ Count(r, Below(p)) < q + 1 /\ q + 1 <= Count(r, UpTo(p))
  BY <1>2, SortedAt
<1> HIDE DEF p
<1>6. 100 * Count(r, Below(p)) <= 95 * g /\ 100 * Count(r, UpTo(p)) >= 95 * g
  <2> DEFINE x == Count(r, Below(p))
             y == Count(r, UpTo(p))
  <2>1. x \in Nat /\ y \in Nat /\ x < q + 1 /\ q + 1 <= y
    BY <1>4, <1>5
  <2> HIDE DEF x, y
  <2>2. 100 * x <= 95 * g /\ 100 * y >= 95 * g
    BY <1>1, <1>2, <2>1
  <2> QED
    BY <2>2 DEF x, y
<1> QED
  BY <1>5, <1>6 DEF PERCENTILE_METRIC, p

\* What baseline_performance() returns of as many latencies as it was asked for.
LEMMA PerformanceRight ==
  ASSUME NEW r \in [Durations -> Nat], IsFiniteSet(Requests(r, Durations)),
         NEW g \in 0 .. MaxReq, Recorded(r) = g, NEW p \in Percentile(Sorted(r), g)
  PROVE  /\ p \in Durations \cup {Garbage}
         /\ g > 0 /\ PERCENTILE_METRIC * g <= IntMax =>
              /\ p \in Durations
              /\ 100 * Count(r, Below(p)) <= PERCENTILE_METRIC * g
              /\ 100 * Count(r, UpTo(p)) >= PERCENTILE_METRIC * g
         /\ Accumulate(Sorted(r)) \in Nat
<1> DEFINE q == (95 * g) \div 100
<1>1. g \in Nat
  BY DriverAssumption DEF DriverAssumption
<1>2. Sorted(r) \in Seq(Nat) /\ Len(Sorted(r)) = g
  BY <1>1, SortedType
<1>3. Accumulate(Sorted(r)) \in Nat
  BY <1>2, AccumulateType
<1>4. /\ q \in Nat /\ 100 * q <= 95 * g /\ 95 * g < 100 * (q + 1)
      /\ g > 0 => q < g
      /\ q < g => g > 0
  BY <1>1
<1>5. CASE ~ IndexDefined(Sorted(r), g)
  <2>1. p \in Durations \cup {Garbage}
    BY <1>5 DEF Percentile
  <2>2. ~ (g > 0 /\ PERCENTILE_METRIC * g <= IntMax)
    BY <1>2, <1>4, <1>5 DEF IndexDefined, PERCENTILE_METRIC
  <2> QED
    BY <1>3, <2>1, <2>2
<1>6. CASE IndexDefined(Sorted(r), g)
  <2>1. q < g
    BY <1>2, <1>6 DEF IndexDefined, PERCENTILE_METRIC
  <2>2. p = Sorted(r)[q + 1]
    BY <1>6 DEF Percentile, PERCENTILE_METRIC
  <2>3. g \in Nat \ {0}
    BY <1>1, <1>4, <2>1
  <2> HIDE DEF q
  <2>4. /\ p \in Durations
        /\ 100 * Count(r, Below(p)) <= PERCENTILE_METRIC * g
        /\ 100 * Count(r, UpTo(p)) >= PERCENTILE_METRIC * g
    BY <1>4, <2>1, <2>2, <2>3, PlaceRight
  <2> QED
    BY <1>3, <2>4
<1> QED
  BY <1>5, <1>6

-----------------------------------------------------------------------------
(* The generator in the hands of the driver *)

\* The keys that have data.
KeysOf(d) == {d[j].key : j \in DOMAIN d}

\* Taking the request away changes nothing the generator relies on.
LEMMA ConsumeKeepsLap ==
  ASSUME LapInv, Consume
  PROVE  LapInv'
<1>1. /\ UNCHANGED <<data_, total_prob_, size_used, built, current_locality_, scan>>
      /\ request' = NoScan
  BY DEF Consume
<1>2. GenTypeOK'
  BY <1>1 DEF LapInv, GenInv, GenTypeOK
<1>3. GenInv'
  BY <1>1, <1>2 DEF LapInv, GenInv
<1>4. ScanIsOneLap'
  <2>1. Start(current_locality_)' = Start(current_locality_)
    BY <1>1 DEF Start
  <2>2. ScanIsOneLap' <=> (scan' # NoScan => OneLap(data_', Start(current_locality_)', scan'))
    BY Zenon DEF ScanIsOneLap, SumFrom, Passed, OneLap, From, Start
  <2>3. scan # NoScan => OneLap(data_, Start(current_locality_), scan)
    BY LapMeaning DEF LapInv
  <2> QED
    BY <1>1, <2>1, <2>2, <2>3
<1> QED
  BY <1>1, <1>3, <1>4 DEF LapInv

\* What the driver does to the generator is a step of the generator, or takes
\* its request away.
LEMMA DriverDrives ==
  ASSUME [DriverNext]_allVars
  PROVE  [GenNext]_genVars \/ Consume
<1>1. CASE Generate
  BY <1>1 DEF Generate, GenNext
<1>2. CASE warm_ask \/ latencies_ask
  BY <1>2 DEF warm_ask, latencies_ask, GenNext, SetOnly
<1>3. CASE warm_apply \/ latencies_untimed \/ \E d \in Durations : latencies_timed(d)
  BY <1>3 DEF warm_apply, latencies_untimed, latencies_timed, Record
<1>4. CASE warm_return \/ performance_return \/ forward
  BY <1>4 DEF warm_return, performance_return, forward
<1>5. ASSUME NEW size \in WarmSizes, warm(size) PROVE UNCHANGED genVars
  BY <1>5 DEF warm
<1>6. ASSUME NEW nreq \in 0 .. MaxReq, baseline_performance(nreq) PROVE UNCHANGED genVars
  BY <1>6 DEF baseline_performance
<1>7. CASE UNCHANGED allVars
  BY <1>7 DEF allVars
<1>8. CASE latencies_throw
  BY <1>8 DEF latencies_throw
<1> QED
  BY <1>1, <1>2, <1>3, <1>4, <1>5, <1>6, <1>7, <1>8 DEF DriverNext, Work

\* So the generator's invariant holds in its hands.
LEMMA DriverKeepsLap ==
  ASSUME LapInv, [DriverNext]_allVars
  PROVE  LapInv'
BY DriverDrives, LapInductive, ConsumeKeepsLap

\* A key that has data keeps having it.
LEMMA KeysKept ==
  ASSUME LapInv, [GenNext]_genVars \/ Consume
  PROVE  KeysOf(data_) \subseteq KeysOf(data_')
<1>0. data_ \in Seq(Entry) /\ DOMAIN data_ = 1 .. Len(data_) /\ Len(data_) \in Nat
  BY DEF LapInv, GenInv, GenTypeOK
<1>1. ASSUME NEW n \in ValueSizes, NEW p \in Probs, AddEntry(n, p)
      PROVE  KeysOf(data_) \subseteq KeysOf(data_')
  <2> DEFINE e == [key |-> Len(data_), size |-> n, prob |-> p]
  <2>1. data_' = Append(data_, e)
    BY <1>1 DEF AddEntry
  <2>2. e \in Entry
    BY <1>0, SizesPositive DEF Entry
  <2> HIDE DEF e
  <2>3. \A j \in DOMAIN data_ : j \in DOMAIN data_' /\ data_'[j] = data_[j]
    BY <1>0, <2>1, <2>2
  <2> QED
    BY <2>3 DEF KeysOf
<1>2. CASE Shuffle
  <2>1. PICK f \in Bijection(DOMAIN data_, DOMAIN data_) :
          data_' = [j \in DOMAIN data_ |-> data_[f[j]]]
    BY <1>2 DEF Shuffle
  <2>2. \A j \in DOMAIN data_ : \E k \in DOMAIN data_ : f[k] = j
    BY <2>1 DEF Bijection, Surjection
  <2>3. \A j \in DOMAIN data_ : \E k \in DOMAIN data_' : data_'[k] = data_[j]
    BY <2>1, <2>2
  <2> QED
    BY <2>3 DEF KeysOf
<1>3. CASE data_' = data_
  BY <1>3
<1>4. CASE GenNext
  <2>1. ASSUME NEW set_only \in BOOLEAN, gen_req(set_only) PROVE data_' = data_
    BY <2>1, Zenon DEF gen_req, gen_dummy, gen_start
  <2>2. gen_scan \/ gen_return => data_' = data_
    BY DEF gen_scan, gen_return
  <2> QED
    BY <1>1, <1>2, <1>3, <1>4, <2>1, <2>2, Zenon DEF GenNext
<1>5. CASE UNCHANGED genVars \/ Consume
  BY <1>3, <1>5 DEF genVars, Consume
<1> QED
  BY <1>4, <1>5

\* When a request can be under way, and what a request to set asks for.
AskOK ==
  /\ request # NoScan => scan = NoScan
  /\ phase = "idle" => scan = NoScan /\ request = NoScan
  /\ phase = "warm" /\ (scan # NoScan \/ request # NoScan) => sets < goal
  /\ phase = "measure" /\ (scan # NoScan \/ request # NoScan) => Recorded(results) < goal
  /\ request # NoScan /\ request.method = "set" => request.key \in KeysOf(data_)

\* What the latencies recorded so far add up to.
ResultsOK ==
  /\ results \in [Durations -> Nat]
  /\ IsFiniteSet(Requests(results, Durations))
  /\ Recorded(results) \in 0 .. MaxReq
  /\ phase = "measure" => /\ goal \in 0 .. MaxReq
                          /\ Recorded(results) <= goal
                          /\ perf = NoScan

\* The variables that are not about latencies.
PlainOK ==
  /\ phase \in {"idle", "warm", "measure"}
  /\ goal \in WarmSizes \cup 0 .. MaxReq
  /\ sets \in Nat
  /\ held \subseteq KeysOf(data_)
  /\ t21 \in Durations

PerfOK == perf \in Performance \cup {NoScan}

\* The inductive invariant of the driver.
DriverInv ==
  /\ LapInv
  /\ PlainOK
  /\ timed \in BOOLEAN
  /\ AskOK
  /\ ResultsOK
  /\ PerfOK
  /\ PercentileRight

\* The driver starts in it.
LEMMA DriverInitInv ==
  ASSUME DriverInit
  PROVE  DriverInv
<1>1. LapInv
  BY TotalInit DEF DriverInit
<1>2. PlainOK
  BY DriverAssumption DEF DriverAssumption, DriverInit, PlainOK
<1>3. timed \in BOOLEAN
  BY Zenon DEF DriverInit
<1>4. AskOK
  BY DEF DriverInit, GenInit, AskOK
<1>5. ResultsOK
  BY CountNone, DriverAssumption DEF DriverAssumption, DriverInit, ResultsOK
<1>6. PerfOK /\ PercentileRight
  BY DEF DriverInit, PerfOK, PercentileRight
<1> QED
  BY <1>1, <1>2, <1>3, <1>4, <1>5, <1>6 DEF DriverInv

\* The parts of gen_req() that matter to the driver: either the request is the
\* dummy delete, or the scan starts.
LEMMA AskedFor ==
  ASSUME NEW set_only \in BOOLEAN, gen_req(set_only)
  PROVE  /\ data_' = data_
         /\ \/ request' = [key |-> DummyKey, size |-> 1, method |-> "delete"] /\ scan' = NoScan
            \/ request' = NoScan
<1>1. gen_dummy => /\ data_' = data_ /\ scan' = NoScan
                   /\ request' = [key |-> DummyKey, size |-> 1, method |-> "delete"]
  BY DEF gen_dummy, Ready
<1>2. \A method, target : gen_start(method, target) => data_' = data_ /\ request' = NoScan
  BY DEF gen_start
<1> QED
  BY <1>1, <1>2, Zenon DEF gen_req

\* Generate: the driver's own variables stay.
LEMMA GenerateStep ==
  ASSUME DriverInv, Generate
  PROVE  PlainOK' /\ AskOK' /\ ResultsOK' /\ PerfOK' /\ PercentileRight'
<1>0. LapInv /\ PlainOK /\ AskOK /\ ResultsOK /\ PerfOK /\ PercentileRight
  BY DEF DriverInv
<1>1. UNCHANGED <<phase, goal, sets, held, t21, timed, results, perf>>
  BY DEF Generate, driverVars
<1>2. KeysOf(data_) \subseteq KeysOf(data_')
  <2>1. [GenNext]_genVars
    BY DEF Generate, GenNext
  <2> QED
    BY <1>0, <2>1, KeysKept
<1>3. PlainOK' /\ ResultsOK' /\ PerfOK' /\ PercentileRight'
  <2>1. PlainOK'
    BY <1>0, <1>1, <1>2 DEF PlainOK
  <2>2. ResultsOK'
    BY <1>0, <1>1 DEF ResultsOK
  <2>3. PerfOK' /\ PercentileRight'
    BY <1>0, <1>1 DEF PerfOK, PercentileRight
  <2> QED
    BY <2>1, <2>2, <2>3
<1>4. AskOK'
  <2>1. ASSUME NEW n \in ValueSizes, NEW p \in Probs, AddEntry(n, p) PROVE AskOK'
    BY <1>0, <1>1, <1>2, <2>1 DEF AddEntry, AskOK
  <2>2. CASE Shuffle
    BY <1>0, <1>1, <1>2, <2>2 DEF Shuffle, AskOK
  <2>3. CASE gen_scan
    BY <1>0, <1>1, <2>3 DEF gen_scan, AskOK
  <2>4. CASE gen_return
    <3>1. scan # NoScan /\ scan' = NoScan /\ data_' = data_
      BY <2>4 DEF gen_return
    <3>2. request'.key \in KeysOf(data_)
      <4>1. /\ data_ \in Seq(Entry)
            /\ scan \in Scan /\ scan.i < Len(data_)
        BY <1>0, <3>1 DEF LapInv, GenInv, GenTypeOK
      <4>2. scan.i + 1 \in DOMAIN data_
        BY <4>1 DEF Scan
      <4>3. request'.key = data_[scan.i + 1].key
        BY <2>4 DEF gen_return, At
      <4> QED
        BY <4>2, <4>3 DEF KeysOf
    <3> QED
      BY <1>0, <1>1, <3>1, <3>2 DEF AskOK
  <2> QED
    BY <2>1, <2>2, <2>3, <2>4 DEF Generate
<1> QED
  BY <1>3, <1>4

\* warm() and its loop.
LEMMA WarmStep ==
  ASSUME DriverInv,
         \/ \E size \in WarmSizes : warm(size)
         \/ warm_ask \/ warm_apply \/ warm_return
  PROVE  PlainOK' /\ AskOK' /\ ResultsOK' /\ PerfOK' /\ PercentileRight'
<1>0. LapInv /\ PlainOK /\ AskOK /\ ResultsOK /\ PerfOK /\ PercentileRight
  BY DEF DriverInv
<1>1. ASSUME NEW size \in WarmSizes, warm(size)
      PROVE  PlainOK' /\ AskOK' /\ ResultsOK' /\ PerfOK' /\ PercentileRight'
  <2>1. /\ UNCHANGED <<data_, scan, request, sets, held, t21>>
        /\ scan = NoScan /\ request = NoScan
        /\ phase' = "warm" /\ goal' = size /\ results' = NoResults /\ perf' = NoScan
    BY <1>1 DEF warm, CanAsk, Ready, genVars
  <2>2. PlainOK'
    BY <1>0, <2>1 DEF PlainOK
  <2>3. AskOK'
    BY <2>1 DEF AskOK
  <2>4. ResultsOK'
    BY <2>1, CountNone, DriverAssumption DEF DriverAssumption, ResultsOK
  <2>5. PerfOK' /\ PercentileRight'
    BY <2>1 DEF PerfOK, PercentileRight
  <2> QED
    BY <2>2, <2>3, <2>4, <2>5
<1>2. CASE warm_ask
  <2>1. /\ phase = "warm" /\ sets < goal /\ scan = NoScan
        /\ UNCHANGED <<phase, goal, sets, held, t21, timed, results, perf>>
    BY <1>2 DEF warm_ask, CanAsk, Ready, driverVars
  <2>2. /\ data_' = data_
        /\ \/ request' = [key |-> DummyKey, size |-> 1, method |-> "delete"] /\ scan' = NoScan
           \/ request' = NoScan
    BY <1>2, AskedFor DEF warm_ask, SetOnly
  <2>3. PlainOK'
    BY <1>0, <2>1, <2>2 DEF PlainOK
  <2>4. AskOK'
    BY <2>1, <2>2 DEF AskOK
  <2>5. ResultsOK'
    BY <1>0, <2>1 DEF ResultsOK
  <2>6. PerfOK' /\ PercentileRight'
    BY <1>0, <2>1 DEF PerfOK, PercentileRight
  <2> QED
    BY <2>3, <2>4, <2>5, <2>6
<1>3. CASE warm_apply
  <2>1. /\ phase = "warm" /\ request # NoScan /\ scan = NoScan /\ scan' = NoScan
        /\ request' = NoScan
        /\ UNCHANGED <<data_, phase, goal, t21, timed, results, perf>>
    BY <1>0, <1>3 DEF warm_apply, Consume, AskOK
  <2>2. /\ sets' \in Nat
        /\ held' \subseteq KeysOf(data_)
    <3>1. CASE request.method = "set"
      BY <1>0, <1>3, <2>1, <3>1 DEF warm_apply, AfterSet, AskOK, PlainOK
    <3>2. CASE request.method # "set"
      BY <1>0, <1>3, <3>2 DEF warm_apply, PlainOK
    <3> QED
      BY <3>1, <3>2
  <2>3. PlainOK'
    BY <1>0, <2>1, <2>2 DEF PlainOK
  <2>4. AskOK'
    BY <2>1 DEF AskOK
  <2>5. ResultsOK'
    BY <1>0, <2>1 DEF ResultsOK
  <2>6. PerfOK' /\ PercentileRight'
    BY <1>0, <2>1 DEF PerfOK, PercentileRight
  <2> QED
    BY <2>3, <2>4, <2>5, <2>6
<1>4. CASE warm_return
  <2>1. /\ phase = "warm" /\ sets >= goal
        /\ phase' = "idle" /\ goal' = 0 /\ sets' = 0
        /\ UNCHANGED <<data_, scan, request, held, t21, timed, results, perf>>
    BY <1>4 DEF warm_return, genVars
  <2>2. scan = NoScan /\ request = NoScan
    <3>1. sets \in Nat /\ goal \in Nat
      BY <1>0, DriverAssumption DEF DriverAssumption, PlainOK
    <3>2. ~ sets < goal
      BY <2>1, <3>1
    <3> QED
      BY <1>0, <2>1, <3>2 DEF AskOK
  <2>3. PlainOK'
    BY <1>0, <2>1, DriverAssumption DEF DriverAssumption, PlainOK
  <2>4. AskOK'
    BY <2>1, <2>2 DEF AskOK
  <2>5. ResultsOK'
    BY <1>0, <2>1 DEF ResultsOK
  <2>6. PerfOK' /\ PercentileRight'
    BY <1>0, <2>1 DEF PerfOK, PercentileRight
  <2> QED
    BY <2>3, <2>4, <2>5, <2>6
<1> QED
  BY <1>1, <1>2, <1>3, <1>4

\* Recording a latency while there are requests left to make.
LEMMA RecordStep ==
  ASSUME DriverInv, NEW d \in Durations, phase = "measure", request # NoScan,
         Record(d), held' \subseteq KeysOf(data_), t21' \in Durations
  PROVE  PlainOK' /\ AskOK' /\ ResultsOK' /\ PerfOK' /\ PercentileRight'
<1>0. PlainOK /\ AskOK /\ ResultsOK /\ PerfOK /\ PercentileRight
  BY DEF DriverInv
<1>1. /\ results' = [results EXCEPT ![d] = @ + 1]
      /\ scan = NoScan /\ scan' = NoScan /\ request' = NoScan
      /\ UNCHANGED <<data_, phase, goal, sets, perf>>
  BY <1>0 DEF Record, Consume, AskOK
<1>2. /\ goal \in 0 .. MaxReq /\ perf = NoScan /\ Recorded(results) \in Nat
      /\ Recorded(results) < goal
  BY <1>0 DEF AskOK, ResultsOK
<1>3. /\ results' \in [Durations -> Nat]
      /\ IsFiniteSet(Requests(results', Durations))
      /\ Recorded(results') = Recorded(results) + 1
  BY <1>0, <1>1, CountRecord DEF ResultsOK
<1>4. ResultsOK'
  <2>1. Recorded(results') \in 0 .. MaxReq /\ Recorded(results') <= goal
    BY <1>2, <1>3, DriverAssumption DEF DriverAssumption
  <2> QED
    BY <1>1, <1>2, <1>3, <2>1 DEF ResultsOK
<1>5. PlainOK'
  BY <1>0, <1>1 DEF PlainOK
<1>6. AskOK'
  BY <1>1 DEF AskOK
<1>7. PerfOK' /\ PercentileRight'
  BY <1>1, <1>2 DEF PerfOK, PercentileRight
<1> QED
  BY <1>4, <1>5, <1>6, <1>7

\* baseline_performance() and the loop of baseline_latencies().
LEMMA MeasureStep ==
  ASSUME DriverInv,
         \/ \E nreq \in 0 .. MaxReq : baseline_performance(nreq)
         \/ latencies_ask
         \/ \E d \in Durations : latencies_timed(d)
         \/ latencies_untimed
         \/ latencies_throw
         \/ performance_return
  PROVE  PlainOK' /\ AskOK' /\ ResultsOK' /\ PerfOK' /\ PercentileRight'
<1>0. LapInv /\ PlainOK /\ AskOK /\ ResultsOK /\ PerfOK /\ PercentileRight
  BY DEF DriverInv
<1>1. ASSUME NEW nreq \in 0 .. MaxReq, baseline_performance(nreq)
      PROVE  PlainOK' /\ AskOK' /\ ResultsOK' /\ PerfOK' /\ PercentileRight'
  <2>1. /\ UNCHANGED <<data_, scan, request, sets, held, t21>>
        /\ scan = NoScan /\ request = NoScan
        /\ phase' = "measure" /\ goal' = nreq /\ results' = NoResults /\ perf' = NoScan
    BY <1>1 DEF baseline_performance, CanAsk, Ready, genVars
  <2>2. PlainOK'
    BY <1>0, <2>1 DEF PlainOK
  <2>3. AskOK'
    BY <2>1 DEF AskOK
  <2>4. ResultsOK'
    BY <2>1, CountNone, DriverAssumption DEF DriverAssumption, ResultsOK
  <2>5. PerfOK' /\ PercentileRight'
    BY <2>1 DEF PerfOK, PercentileRight
  <2> QED
    BY <2>2, <2>3, <2>4, <2>5
<1>2. CASE latencies_ask
  <2>1. /\ phase = "measure" /\ Recorded(results) < goal /\ scan = NoScan
        /\ UNCHANGED <<phase, goal, sets, held, t21, results, perf>>
    BY <1>2 DEF latencies_ask, CanAsk, Ready, MoreToMeasure
  <2>2. /\ data_' = data_
        /\ \/ request' = [key |-> DummyKey, size |-> 1, method |-> "delete"] /\ scan' = NoScan
           \/ request' = NoScan
    BY <1>2, AskedFor DEF latencies_ask
  <2>3. PlainOK'
    BY <1>0, <2>1, <2>2 DEF PlainOK
  <2>4. AskOK'
    BY <2>1, <2>2 DEF AskOK
  <2>5. ResultsOK'
    BY <1>0, <2>1 DEF ResultsOK
  <2>6. PerfOK' /\ PercentileRight'
    BY <1>0, <2>1 DEF PerfOK, PercentileRight
  <2> QED
    BY <2>3, <2>4, <2>5, <2>6
<1>3. ASSUME NEW d \in Durations, latencies_timed(d)
      PROVE  PlainOK' /\ AskOK' /\ ResultsOK' /\ PerfOK' /\ PercentileRight'
  <2>1. phase = "measure" /\ request # NoScan /\ Record(d) /\ t21' = d
    BY <1>3 DEF latencies_timed
  <2>2. held' \subseteq KeysOf(data_)
    <3>1. CASE request.method = "set"
      BY <1>0, <1>3, <3>1 DEF latencies_timed, AfterSet, AskOK, PlainOK
    <3>2. CASE request.method = "del"
      BY <1>0, <1>3, <3>2 DEF latencies_timed, AfterDel, PlainOK
    <3>3. CASE request.method = "get"
      BY <1>0, <1>3, <3>3 DEF latencies_timed, PlainOK
    <3> QED
      BY <1>3, <3>1, <3>2, <3>3 DEF latencies_timed, Branches
  <2> QED
    BY <2>1, <2>2, RecordStep
<1>4. CASE latencies_untimed
  <2>1. /\ phase = "measure" /\ request # NoScan /\ Record(t21)
        /\ held' = held /\ t21' = t21 /\ t21 \in Durations
    BY <1>0, <1>4 DEF latencies_untimed, PlainOK
  <2>2. held' \subseteq KeysOf(data_)
    BY <1>0, <2>1 DEF PlainOK
  <2> QED
    BY <2>1, <2>2, RecordStep
<1>5. CASE performance_return
  <2>1. /\ phase = "measure" /\ request = NoScan /\ scan = NoScan
        /\ ~ Recorded(results) < goal
        /\ phase' = "idle" /\ goal' = 0 /\ t21' = 0
        /\ UNCHANGED <<data_, scan, request, sets, held, results>>
    BY <1>5 DEF performance_return, Ready, MoreToMeasure, genVars
  <2> DEFINE a == Accumulate(Sorted(results))
  <2>2. PICK p \in Percentile(Sorted(results), goal) :
          perf' = [percentile |-> p, total |-> a, nreq |-> goal]
    BY <1>5 DEF performance_return
  <2>3. goal \in 0 .. MaxReq /\ Recorded(results) = goal
    BY <1>0, <2>1 DEF ResultsOK
  <2>4. /\ p \in Durations \cup {Garbage} /\ a \in Nat
        /\ goal > 0 /\ PERCENTILE_METRIC * goal <= IntMax =>
             /\ p \in Durations
             /\ 100 * Count(results, Below(p)) <= PERCENTILE_METRIC * goal
             /\ 100 * Count(results, UpTo(p)) >= PERCENTILE_METRIC * goal
    BY <1>0, <2>3, PerformanceRight DEF ResultsOK
  <2> HIDE DEF a
  <2>5. perf' \in Performance
    BY <2>2, <2>3, <2>4 DEF Performance
  <2>6. perf'.percentile = p /\ perf'.nreq = goal
    BY <2>2
  <2>7. PercentileRight'
    BY <2>1, <2>4, <2>6 DEF PercentileRight
  <2>8. PlainOK'
    BY <1>0, <2>1, DriverAssumption DEF DriverAssumption, PlainOK
  <2>9. AskOK'
    BY <2>1 DEF AskOK
  <2>10. ResultsOK'
    BY <1>0, <2>1 DEF ResultsOK
  <2> QED
    BY <2>5, <2>7, <2>8, <2>9, <2>10 DEF PerfOK
<1>6. CASE latencies_throw
  <2>1. /\ phase = "measure" /\ request # NoScan /\ request' = NoScan
        /\ phase' = "idle" /\ goal' = 0 /\ t21' = 0 /\ results' = NoResults
        /\ UNCHANGED <<data_, scan, sets, held, perf>>
    BY <1>6 DEF latencies_throw, Consume
  <2>2. scan = NoScan /\ perf = NoScan
    BY <1>0, <2>1 DEF AskOK, ResultsOK
  <2>3. PlainOK'
    BY <1>0, <2>1, DriverAssumption DEF DriverAssumption, PlainOK
  <2>4. AskOK'
    BY <2>1, <2>2 DEF AskOK
  <2>5. ResultsOK'
    BY <2>1, CountNone, DriverAssumption DEF DriverAssumption, ResultsOK
  <2>6. PerfOK' /\ PercentileRight'
    BY <2>1, <2>2 DEF PerfOK, PercentileRight
  <2> QED
    BY <2>3, <2>4, <2>5, <2>6
<1> QED
  BY <1>1, <1>2, <1>3, <1>4, <1>5, <1>6

\* The calls that are passed on to the cache.
LEMMA ForwardStep ==
  ASSUME DriverInv, forward
  PROVE  PlainOK' /\ AskOK' /\ ResultsOK' /\ PerfOK' /\ PercentileRight'
<1>0. PlainOK /\ AskOK /\ ResultsOK /\ PerfOK /\ PercentileRight
  BY DEF DriverInv
<1>1. UNCHANGED <<data_, scan, request, phase, goal, sets, t21, results, perf>>
  BY DEF forward, genVars
<1>2. held' \subseteq KeysOf(data_)
  BY <1>0 DEF forward, AfterSet, AfterDel, PlainOK, KeysOf
<1>3. PlainOK'
  BY <1>0, <1>1, <1>2 DEF PlainOK
<1>4. AskOK'
  BY <1>0, <1>1 DEF AskOK
<1>5. ResultsOK' /\ PerfOK' /\ PercentileRight'
  BY <1>0, <1>1 DEF ResultsOK, PerfOK, PercentileRight
<1> QED
  BY <1>3, <1>4, <1>5

\* Every step keeps timed a truth value.
LEMMA TimedStep ==
  ASSUME timed \in BOOLEAN, [DriverNext]_allVars
  PROVE  timed' \in BOOLEAN
<1>1. Work => timed' \in BOOLEAN
  <2>1. Generate \/ warm_ask \/ warm_apply \/ warm_return => timed' = timed
    BY Zenon DEF Generate, driverVars, warm_ask, warm_apply, warm_return
  <2>2. latencies_ask \/ performance_return => timed' = TRUE
    BY Zenon DEF latencies_ask, performance_return
  <2>3. \A d \in Durations : latencies_timed(d) => timed' = timed
    BY Zenon DEF latencies_timed
  <2>4. latencies_untimed => timed' = FALSE
    BY Zenon DEF latencies_untimed
  <2>5. latencies_throw => timed' = TRUE
    BY Zenon DEF latencies_throw
  <2> QED
    BY <2>1, <2>2, <2>3, <2>4, <2>5, Zenon DEF Work
<1>2. \A n : warm(n) \/ baseline_performance(n) => timed' = timed
  BY Zenon DEF warm, baseline_performance
<1>3. forward \/ UNCHANGED allVars => timed' = timed
  BY Zenon DEF forward, allVars, driverVars
<1> QED
  BY <1>1, <1>2, <1>3, Zenon DEF DriverNext

\* DriverInv is inductive.
LEMMA DriverInductive ==
  ASSUME DriverInv, [DriverNext]_allVars
  PROVE  DriverInv'
<1>1. LapInv' /\ timed' \in BOOLEAN
  <2>1. LapInv /\ timed \in BOOLEAN
    BY Zenon DEF DriverInv
  <2> QED
    BY <2>1, DriverKeepsLap, TimedStep, Zenon
<1>2. PlainOK' /\ AskOK' /\ ResultsOK' /\ PerfOK' /\ PercentileRight'
  <2>1. CASE UNCHANGED allVars
    <3>1. /\ PlainOK /\ AskOK /\ ResultsOK /\ PerfOK /\ PercentileRight
          /\ UNCHANGED <<data_, scan, request, phase, goal, sets, held, t21, results, perf>>
      BY <2>1, Zenon DEF DriverInv, allVars, genVars, driverVars
    <3>2. PlainOK' /\ AskOK'
      BY <3>1 DEF PlainOK, AskOK
    <3>3. ResultsOK' /\ PerfOK' /\ PercentileRight'
      BY <3>1 DEF ResultsOK, PerfOK, PercentileRight
    <3> QED
      BY <3>2, <3>3
  <2>2. CASE DriverNext
    BY <2>2, GenerateStep, WarmStep, MeasureStep, ForwardStep, Zenon DEF DriverNext, Work
  <2> QED
    BY <2>1, <2>2
<1> QED
  BY <1>1, <1>2, Zenon DEF DriverInv

-----------------------------------------------------------------------------
(* What it says of the driver *)

\* In every reachable state of the driver and its generator DriverInv holds.
THEOREM DriverInvariant == DriverSpec => []DriverInv
<1>1. DriverInit => DriverInv
  BY DriverInitInv
<1> QED
  BY <1>1, DriverInductive, PTL DEF DriverSpec

\* The driver keeps no key in the cache that has no data, and never records
\* more latencies than it was asked for.
THEOREM DriverTypeCorrect == DriverSpec => []DriverTypeOK
<1>1. ASSUME DriverInv PROVE DriverTypeOK
  <2>1. \A d \in Durations : results[d] \in 0 .. MaxReq
    <3> TAKE d \in Durations
    <3>1. /\ results[d] <= Recorded(results) /\ results[d] \in Nat
          /\ Recorded(results) \in 0 .. MaxReq
      BY <1>1, CountOne DEF DriverInv, ResultsOK
    <3> QED
      BY <3>1, DriverAssumption DEF DriverAssumption
  <2>2. results \in [Durations -> 0 .. MaxReq]
    BY <1>1, <2>1 DEF DriverInv, ResultsOK
  <2>3. PlainOK /\ PerfOK /\ timed \in BOOLEAN
    BY <1>1, Zenon DEF DriverInv
  <2> QED
    BY <2>2, <2>3, Zenon DEF DriverTypeOK, PlainOK, PerfOK, KeysOf
<1> QED
  BY <1>1, DriverInvariant, PTL

\* The percentile baseline_performance() returns is one of the latencies it
\* recorded, for every number of requests, neither 0 nor so many that 95 times
\* their number overflows.
THEOREM PercentileIsRight == DriverSpec => []PercentileRight
<1>1. DriverInv => PercentileRight
  BY DEF DriverInv
<1> QED
  BY <1>1, DriverInvariant, PTL

\* The generator's scan stays in data_ and in one lap in the driver's hands too.
THEOREM DriverScansRight == DriverSpec => [](IndexInBounds /\ ScanIsOneLap)
<1>1. DriverInv => IndexInBounds /\ ScanIsOneLap
  BY DEF DriverInv, LapInv, GenInv, IndexInBounds
<1> QED
  BY <1>1, DriverInvariant, PTL

=============================================================================
