------------------------------- MODULE MainProofs -------------------------------
(***************************************************************************)
(* The exit code of main, for every command line and every outcome of      *)
(* every step, and what the lines of the benchmark say, the deviation too, *)
(* for every number of tests and all durations.                            *)
(***************************************************************************)
EXTENDS Main, TLAPS, WellFoundedInduction, FiniteSetTheorems

\* ret is -1 until the step that ends main; nothing has failed before then.
Outcome ==
  /\ command \in Commands
  /\ pc # "done" => ret = -1 /\ ~failed
  /\ ExitCode

LEMMA OutcomeInit == Init => Outcome
BY SMT DEF Init, Outcome, ExitCode

LEMMA FirstStep ==
  ASSUME command \in Commands, ~Usage
  PROVE  First # "done"
BY SMT DEF Usage, First, Commands

LEMMA OutcomeStep == Outcome /\ [Next]_vars => Outcome'
<1> SUFFICES ASSUME Outcome, [Next]_vars PROVE Outcome'
  OBVIOUS
<1> USE DEF Outcome, ExitCode, arguments, counters
<1>1. CASE Start
  <2>1. CASE Usage
    BY <1>1, <2>1, SMT DEF Start
  <2>2. CASE ~Usage
    <3>1. pc' = First /\ First # "done" /\ pc # "done"
      BY <1>1, <2>2, FirstStep, SMT DEF Start
    <3>2. /\ command' = command /\ ret' = ret /\ failed' = failed
          /\ total_time' = total_time
      BY <1>1, <2>2, SMT DEF Start
    <3> QED
      BY <3>1, <3>2, Zenon
  <2> QED
    BY <2>1, <2>2, Zenon
<1>2. CASE Fail
  BY <1>2, SMT DEF Fail
<1>3. CASE WarmUp
  BY <1>3, SMT DEF WarmUp
<1>4. CASE Summarise
  BY <1>4, SMT DEF Summarise
<1>5. CASE Encode
  BY <1>5, SMT DEF Encode
<1>6. CASE Exchange
  BY <1>6, SMT DEF Exchange, AfterExchange
<1>7. CASE Decode
  BY <1>7, SMT DEF Decode
<1>8. ASSUME NEW t \in Times(test_number), Measure(t) PROVE Outcome'
  BY <1>8, SMT DEF Measure
<1>9. ASSUME NEW t \in Times(test_number), Test(t) PROVE Outcome'
  BY <1>9, SMT DEF Test
<1>10. CASE UNCHANGED vars
  BY <1>10, SMT DEF vars
<1> QED
  BY <1>1, <1>2, <1>3, <1>4, <1>5, <1>6, <1>7, <1>8, <1>9, <1>10, Zenon DEF Next

\* For every command line: main returns 0 exactly when nothing it had to do failed,
\* and a total time is printed only then.
THEOREM ExitCodeHonest == Spec => []ExitCode
<1>1. Outcome => ExitCode
  BY Zenon DEF Outcome
<1> QED
  BY OutcomeInit, OutcomeStep, <1>1, PTL DEF Spec

(***************************************************************************)
(* The statistics: what is true of sorted durations.  A least number       *)
(* exists, so that a longest duration does, so that each place of the      *)
(* sorted array has a duration of its rank.                                *)
(***************************************************************************)
LEMMA Least ==
  ASSUME NEW T \in SUBSET Nat, T # {}
  PROVE  \E m \in T : \A k \in T : m <= k
<1> DEFINE R == {ss \in Nat \X Nat : ss[1] < ss[2]}
<1>1. R = OpToRel(<, Nat)
  BY DEF OpToRel
<1>2. IsWellFoundedOn(R, Nat)
  BY <1>1, NatLessThanWellFounded, Zenon
<1>3. PICK x \in T : \A y \in T : ~ (<<y, x>> \in R)
  BY <1>2, WFMin, Zenon
<1>4. ASSUME NEW y \in T PROVE x <= y
  <2>1. x \in Nat /\ y \in Nat
    OBVIOUS
  <2>2. ~(y < x)
    BY <1>3, <2>1
  <2> QED
    BY <2>1, <2>2, SMT
<1> QED
  BY <1>3, <1>4, Zenon

(***************************************************************************)
(* The durations of a loop, and how many are below one of them.            *)
(***************************************************************************)
Durations(x, n) == x \in Seq(Nat) /\ Len(x) = n /\ n \in Nat /\ n > 0
Below(x, d) == {k \in DOMAIN x : x[k] < d}
UpTo(x, d) == {k \in DOMAIN x : x[k] <= d}

LEMMA DurationFacts ==
  ASSUME NEW x, NEW n, Durations(x, n)
  PROVE  /\ DOMAIN x = 1..n /\ \A k \in 1..n : x[k] \in Nat
         /\ IsFiniteSet(1..n) /\ Cardinality(1..n) = n /\ n \in Nat /\ n > 0
         /\ 1 \in 1..n /\ n \in 1..n
<1>1. DOMAIN x = 1..n /\ (\A k \in 1..n : x[k] \in Nat) /\ n \in Nat /\ n > 0
  BY SMT DEF Durations
<1>2. IsFiniteSet(1..n) /\ Cardinality(1..n) = n
  <2>1. 1 \in Int /\ n \in Int
    BY <1>1, SMT
  <2>2. (IF 1 > n THEN 0 ELSE n - 1 + 1) = n
    BY <1>1, SMT
  <2> QED
    BY <2>1, <2>2, FS_Interval, Zenon
<1>3. 1 \in 1..n /\ n \in 1..n
  BY <1>1, SMT
<1> QED
  BY <1>1, <1>2, <1>3

\* Counting some of the tests.
LEMMA Counted ==
  ASSUME NEW n \in Nat, n > 0, NEW S \in SUBSET (1..n)
  PROVE  /\ IsFiniteSet(S) /\ Cardinality(S) \in Nat /\ Cardinality(S) <= n
         /\ Cardinality((1..n) \ S) = n - Cardinality(S)
         /\ \A T \in SUBSET S : /\ Cardinality(T) <= Cardinality(S)
                                /\ Cardinality(T) = Cardinality(S) => T = S
<1>1. IsFiniteSet(1..n) /\ Cardinality(1..n) = n
  <2>1. 1 \in Int /\ n \in Int
    BY SMT
  <2>2. (IF 1 > n THEN 0 ELSE n - 1 + 1) = n
    BY SMT
  <2> QED
    BY <2>1, <2>2, FS_Interval, Zenon
<1>2. IsFiniteSet(S) /\ Cardinality(S) <= n
  BY <1>1, FS_Subset, Zenon
<1>3. Cardinality(S) \in Nat
  BY <1>2, FS_CardinalityType, Zenon
<1>4. (1..n) \cap S = S
  OBVIOUS
<1>5. Cardinality((1..n) \ S) = n - Cardinality(S)
  <2>1. Cardinality((1..n) \ S) = Cardinality(1..n) - Cardinality((1..n) \cap S)
    <3> DEFINE U == 1..n
    <3>1. IsFiniteSet(U)
      BY <1>1, Zenon
    <3> HIDE DEF U
    <3>2. Cardinality(U \ S) = Cardinality(U) - Cardinality(U \cap S)
      BY <3>1, FS_Difference, Zenon
    <3> QED
      BY <3>2, Zenon DEF U
  <2> QED
    BY <1>1, <1>4, <2>1, Zenon
<1>6. \A T \in SUBSET S : /\ Cardinality(T) <= Cardinality(S)
                          /\ Cardinality(T) = Cardinality(S) => T = S
  <2> TAKE T \in SUBSET S
  <2> QED
    BY <1>2, FS_Subset, Zenon
<1> QED
  BY <1>2, <1>3, <1>5, <1>6, Zenon

\* One of the tests of S took longest.
LEMMA Longest ==
  ASSUME NEW x, NEW n, Durations(x, n), NEW S \in SUBSET (1..n), S # {}
  PROVE  \E k \in S : \A h \in S : x[h] <= x[k]
<1>1. /\ DOMAIN x = 1..n /\ \A k \in 1..n : x[k] \in Nat
      /\ n \in Nat /\ n > 0
  BY DurationFacts, Zenon
<1> DEFINE Rest(k) == n - Cardinality(UpTo(x, x[k]))
           T == {Rest(k) : k \in S}
<1>2. \A k \in 1..n : UpTo(x, x[k]) \in SUBSET (1..n)
  BY <1>1, Zenon DEF UpTo
<1>3. \A k \in 1..n : Cardinality(UpTo(x, x[k])) \in Nat /\ Cardinality(UpTo(x, x[k])) <= n
  BY <1>1, <1>2, Counted, Zenon
<1>4. \A k \in 1..n : Rest(k) \in Nat
  <2> TAKE k \in 1..n
  <2> DEFINE c == Cardinality(UpTo(x, x[k]))
  <2>1. c \in Nat /\ c <= n
    BY <1>3, Zenon
  <2> HIDE DEF c
  <2>2. n - c \in Nat
    BY <1>1, <2>1, SMT
  <2> QED
    BY <2>2, Zenon DEF c
<1>5. T \in SUBSET Nat /\ T # {}
  BY <1>4, Zenon
<1>6. PICK m \in T : \A t \in T : m <= t
  <2> HIDE DEF T
  <2> QED
    BY <1>5, Least, Zenon
<1>7. PICK k \in S : m = Rest(k)
  BY <1>6, Zenon
<1>8. \A h \in S : Rest(k) <= Rest(h)
  BY <1>6, <1>7, Zenon
<1>9. ASSUME NEW h \in S, ~(x[h] <= x[k])
      PROVE  FALSE
  <2> DEFINE a == x[h]
             b == x[k]
             p == Cardinality(UpTo(x, a))
             q == Cardinality(UpTo(x, b))
  <2>1. a \in Nat /\ b \in Nat /\ h \in 1..n /\ k \in 1..n
    BY <1>1, Zenon
  <2>2. b < a /\ a <= a
    BY <1>9, <2>1, SMT
  <2> HIDE DEF a, b
  <2>3. \A c \in Nat : c <= b => c <= a
    BY <2>1, <2>2, SMT
  <2>4. UpTo(x, b) \in SUBSET UpTo(x, a)
    BY <1>1, <2>3, Zenon DEF UpTo
  <2>5. h \in UpTo(x, a) /\ h \notin UpTo(x, b)
    BY <1>1, <1>9, <2>1, <2>2, Zenon DEF UpTo, a, b
  <2>6. q <= p /\ q # p
    <3>1. UpTo(x, a) \in SUBSET (1..n)
      BY <1>2, <2>1, Zenon DEF a
    <3> QED
      BY <1>1, <2>4, <2>5, <3>1, Counted, Zenon
  <2>7. p \in Nat /\ q \in Nat /\ p <= n
    BY <1>3, <2>1, Zenon DEF a, b
  <2>8. n - q <= n - p
    BY <1>8, Zenon DEF a, b
  <2> HIDE DEF p, q
  <2> QED
    BY <1>1, <2>6, <2>7, <2>8, SMT
<1> QED
  BY <1>9, Zenon

\* The j-th smallest duration exists.
LEMMA Rank ==
  ASSUME NEW x, NEW n, Durations(x, n), NEW j \in 1..n
  PROVE  \E d \in Range(x) : Cardinality(Below(x, d)) < j /\ j <= Cardinality(UpTo(x, d))
<1>1. /\ DOMAIN x = 1..n /\ \A k \in 1..n : x[k] \in Nat
      /\ Cardinality(1..n) = n /\ n \in Nat /\ n > 0 /\ 1 \in 1..n
  BY DurationFacts, Zenon
<1>2. j \in Nat /\ j > 0 /\ j <= n
  BY <1>1, SMT
<1> DEFINE T == {d \in Range(x) : j <= Cardinality(UpTo(x, d))}
<1>3. T \in SUBSET Nat
  BY <1>1, Zenon DEF Range
<1>4. T # {}
  <2>1. PICK k \in 1..n : \A h \in 1..n : x[h] <= x[k]
    BY <1>1, Longest, Zenon
  <2>2. UpTo(x, x[k]) = 1..n
    BY <1>1, <2>1, Zenon DEF UpTo
  <2> QED
    BY <1>1, <1>2, <2>1, <2>2, Zenon DEF Range
<1>5. PICK d \in T : \A e \in T : d <= e
  <2> HIDE DEF T
  <2> QED
    BY <1>3, <1>4, Least, Zenon
<1>6. d \in Range(x) /\ d \in Nat /\ j <= Cardinality(UpTo(x, d))
  BY <1>3, <1>5, Zenon
<1>7. ASSUME ~(Cardinality(Below(x, d)) < j)
      PROVE  FALSE
  <2>1. Below(x, d) \in SUBSET (1..n)
    BY <1>1, Zenon DEF Below
  <2>2. Below(x, d) # {}
    <3>1. Cardinality({}) = 0
      BY FS_EmptySet, Zenon
    <3> QED
      BY <1>2, <1>7, <3>1, SMT
  <2>3. PICK k \in Below(x, d) : \A h \in Below(x, d) : x[h] <= x[k]
    BY <2>1, <2>2, Longest, Zenon
  <2>4. k \in 1..n /\ x[k] \in Nat /\ x[k] < d
    BY <1>1, <2>1, <2>3, Zenon DEF Below
  <2>5. UpTo(x, x[k]) = Below(x, d)
    <3> DEFINE b == x[k]
    <3>1. b \in Nat /\ b < d
      BY <2>4, Zenon
    <3> HIDE DEF b
    <3>2. \A c \in Nat : c <= b => c < d
      BY <1>6, <3>1, SMT
    <3>3. UpTo(x, b) \subseteq Below(x, d)
      BY <1>1, <3>2, Zenon DEF UpTo, Below
    <3>4. Below(x, d) \subseteq UpTo(x, b)
      BY <1>1, <2>3, Zenon DEF UpTo, Below, b
    <3> QED
      BY <3>3, <3>4, Zenon DEF b
  <2>6. Cardinality(Below(x, d)) \in Nat
    BY <1>1, <2>1, Counted, Zenon
  <2>7. j <= Cardinality(UpTo(x, x[k]))
    <3> DEFINE c == Cardinality(Below(x, d))
    <3>1. c \in Nat /\ ~(c < j)
      BY <1>7, <2>6, Zenon
    <3> HIDE DEF c
    <3>2. j <= c
      BY <1>2, <3>1, SMT
    <3> QED
      BY <2>5, <3>2, Zenon DEF c
  <2>8. x[k] \in T
    BY <1>1, <2>4, <2>7, Zenon DEF Range
  <2>9. d <= x[k]
    BY <1>5, <2>8, Zenon
  <2> QED
    BY <1>6, <2>4, <2>9, SMT
<1> QED
  BY <1>6, <1>7, Zenon

\* qsort returns the durations by rank.
Ranked(s, x, n) ==
  /\ s \in Seq(Nat) /\ Len(s) = n /\ DOMAIN s = 1..n
  /\ \A j \in 1..n : /\ s[j] \in Range(x) /\ s[j] \in Nat
                     /\ Cardinality(Below(x, s[j])) < j /\ j <= Cardinality(UpTo(x, s[j]))

LEMMA SortRanks ==
  ASSUME NEW x, NEW n, Durations(x, n)
  PROVE  Ranked(qsort(x), x, n)
<1>1. /\ DOMAIN x = 1..n /\ \A k \in 1..n : x[k] \in Nat
      /\ n \in Nat /\ n > 0
  BY DurationFacts, Zenon
<1> DEFINE s == qsort(x)
           P(j, d) == Cardinality(Below(x, d)) < j /\ j <= Cardinality(UpTo(x, d))
<1>2. s = [j \in 1..n |-> CHOOSE d \in Range(x) : P(j, d)]
  BY <1>1, Zenon DEF qsort, Below, UpTo
<1>3. \A j \in 1..n : s[j] \in Range(x) /\ P(j, s[j])
  <2> TAKE j \in 1..n
  <2>1. \E d \in Range(x) : P(j, d)
    BY Rank, Zenon
  <2>2. s[j] = CHOOSE d \in Range(x) : P(j, d)
    BY <1>2, Zenon
  <2> HIDE DEF P, s
  <2> QED
    BY <2>1, <2>2, Zenon
<1>4. \A j \in 1..n : s[j] \in Nat
  <2> HIDE DEF s
  <2> QED
    BY <1>1, <1>3, Zenon DEF Range
<1>5. DOMAIN s = 1..n /\ s = [j \in 1..n |-> s[j]]
  BY <1>2, Zenon
<1> HIDE DEF s
<1>6. s \in Seq(Nat) /\ Len(s) = n
  BY <1>1, <1>4, <1>5, SMT
<1> QED
  BY <1>3, <1>4, <1>5, <1>6, Zenon DEF Ranked, s

\* Ranks are in order, and the first and the last are the ends.
LEMMA InOrder ==
  ASSUME NEW x, NEW n, NEW s, Durations(x, n), Ranked(s, x, n),
         NEW a \in 1..n, NEW b \in 1..n, a <= b
  PROVE  s[a] <= s[b]
<1>1. /\ DOMAIN x = 1..n /\ \A k \in 1..n : x[k] \in Nat
      /\ n \in Nat /\ n > 0
  BY DurationFacts, Zenon
<1> DEFINE p == s[a]
           q == s[b]
           below == Cardinality(Below(x, p))
           upTo == Cardinality(UpTo(x, q))
<1>2. /\ p \in Nat /\ q \in Nat
      /\ below < a /\ b <= upTo
  BY Zenon DEF Ranked
<1>3. Below(x, p) \in SUBSET (1..n) /\ UpTo(x, q) \in SUBSET (1..n)
  BY <1>1, Zenon DEF Below, UpTo
<1>4. below \in Nat /\ upTo \in Nat
  BY <1>1, <1>3, Counted, Zenon
<1> HIDE DEF p, q
<1>5. ASSUME q < p
      PROVE  FALSE
  <2>1. \A c \in Nat : c <= q => c < p
    BY <1>2, <1>5, SMT
  <2>2. UpTo(x, q) \in SUBSET Below(x, p)
    BY <1>1, <2>1, Zenon DEF Below, UpTo
  <2>3. upTo <= below
    BY <1>1, <1>3, <2>2, Counted, Zenon
  <2> HIDE DEF below, upTo
  <2> QED
    BY <1>1, <1>2, <1>4, <2>3, SMT
<1>6. p <= q
  BY <1>2, <1>5, SMT
<1> QED
  BY <1>6, Zenon DEF p, q

LEMMA Ends ==
  ASSUME NEW x, NEW n, NEW s, Durations(x, n), Ranked(s, x, n),
         NEW d \in Range(x)
  PROVE  s[1] <= d /\ d <= s[n]
<1>1. /\ DOMAIN x = 1..n /\ \A k \in 1..n : x[k] \in Nat
      /\ Cardinality(1..n) = n /\ n \in Nat /\ n > 0 /\ 1 \in 1..n /\ n \in 1..n
  BY DurationFacts, Zenon
<1>2. PICK k \in 1..n : d = x[k]
  BY <1>1, Zenon DEF Range
<1> DEFINE p == s[1]
           q == s[n]
           below == Cardinality(Below(x, p))
           upTo == Cardinality(UpTo(x, q))
<1>3. p \in Nat /\ q \in Nat /\ d \in Nat /\ below < 1 /\ n <= upTo
  BY <1>1, <1>2, Zenon DEF Ranked
<1>4. Below(x, p) \in SUBSET (1..n) /\ UpTo(x, q) \in SUBSET (1..n)
  BY <1>1, Zenon DEF Below, UpTo
<1>5. below \in Nat /\ upTo \in Nat /\ upTo <= n
  BY <1>1, <1>4, Counted, Zenon
<1>6. below = 0 /\ upTo = n
  <2> HIDE DEF below, upTo
  <2> QED
    BY <1>1, <1>3, <1>5, SMT
<1>7. Below(x, p) = {}
  <2>1. {} \in SUBSET Below(x, p) /\ Cardinality({}) = 0
    BY FS_EmptySet, Zenon
  <2> QED
    BY <1>1, <1>4, <1>6, <2>1, Counted, Zenon
<1>8. UpTo(x, q) = 1..n
  <2>1. (1..n) \in SUBSET (1..n)
    OBVIOUS
  <2> QED
    BY <1>1, <1>4, <1>6, <2>1, Counted, Zenon
<1>9. ~(d < p) /\ d <= q
  BY <1>1, <1>2, <1>7, <1>8, Zenon DEF Below, UpTo
<1> HIDE DEF p, q
<1>10. p <= d /\ d <= q
  BY <1>3, <1>9, SMT
<1> QED
  BY <1>10, Zenon DEF p, q

\* The middle is the sum of two places, the same one twice when the number is odd, with
\* half of the places up to the first and half from the second on.
LEMMA TwoMiddles ==
  ASSUME NEW x, NEW n, NEW s, Durations(x, n), Ranked(s, x, n)
  PROVE  \E a, b \in 1..n : /\ Middle(s) = s[a] + s[b] /\ s[a] <= s[b]
                            /\ 2 * a >= n /\ 2 * (n - b + 1) >= n
<1>1. n \in Nat /\ n > 0
  BY DurationFacts, Zenon
<1>2. Len(s) = n /\ \A j \in 1..n : s[j] \in Nat
  BY Zenon DEF Ranked
<1>3. CASE n % 2 = 1
  <2> DEFINE h == n \div 2 + 1
  <2>1. h \in 1..n /\ 2 * h >= n /\ 2 * (n - h + 1) >= n
    BY <1>1, <1>3, SMT
  <2>2. Middle(s) = 2 * s[h]
    BY <1>2, <1>3, Zenon DEF Middle
  <2> HIDE DEF h
  <2> DEFINE p == s[h]
  <2>3. p \in Nat
    BY <1>2, <2>1, Zenon
  <2> HIDE DEF p
  <2>4. 2 * p = p + p /\ p <= p
    BY <2>3, SMT
  <2> QED
    BY <2>1, <2>2, <2>4, Zenon DEF p
<1>4. CASE n % 2 # 1
  <2> DEFINE h == n \div 2
  <2>1. h \in 1..n /\ h + 1 \in 1..n /\ h <= h + 1 /\ 2 * h >= n /\ 2 * (n - (h + 1) + 1) >= n
    BY <1>1, <1>4, SMT
  <2>2. Middle(s) = s[h] + s[h + 1]
    BY <1>2, <1>4, Zenon DEF Middle
  <2> HIDE DEF h
  <2>3. s[h] <= s[h + 1]
    BY <2>1, InOrder, Zenon
  <2> QED
    BY <2>1, <2>2, <2>3, Zenon
<1> QED
  BY <1>3, <1>4, Zenon

LEMMA Halves ==
  ASSUME NEW x, NEW n, NEW s, Durations(x, n), Ranked(s, x, n)
  PROVE  /\ 2 * Cardinality({j \in DOMAIN x : 2 * x[j] <= Middle(s)}) >= n
         /\ 2 * Cardinality({j \in DOMAIN x : 2 * x[j] >= Middle(s)}) >= n
<1>1. /\ DOMAIN x = 1..n /\ \A k \in 1..n : x[k] \in Nat
      /\ n \in Nat /\ n > 0
  BY DurationFacts, Zenon
<1>2. PICK a, b \in 1..n : /\ Middle(s) = s[a] + s[b] /\ s[a] <= s[b]
                           /\ 2 * a >= n /\ 2 * (n - b + 1) >= n
  BY TwoMiddles, Zenon
<1> DEFINE p == s[a]
           q == s[b]
           m == Middle(s)
           L == {j \in DOMAIN x : 2 * x[j] <= m}
           H == {j \in DOMAIN x : 2 * x[j] >= m}
           upTo == Cardinality(UpTo(x, p))
           below == Cardinality(Below(x, q))
           from == Cardinality((1..n) \ Below(x, q))
           low == Cardinality(L)
           high == Cardinality(H)
<1>3. p \in Nat /\ q \in Nat /\ p <= q /\ m = p + q
  BY <1>2, Zenon DEF Ranked
<1>4. a <= upTo /\ below < b
  BY Zenon DEF Ranked
<1> HIDE DEF p, q, m
<1>5. /\ \A c \in Nat : c <= p => 2 * c <= m
      /\ \A c \in Nat : ~(c < q) => 2 * c >= m
  BY <1>3, SMT
<1>6. /\ UpTo(x, p) \in SUBSET L /\ ((1..n) \ Below(x, q)) \in SUBSET H
      /\ L \in SUBSET (1..n) /\ H \in SUBSET (1..n)
      /\ UpTo(x, p) \in SUBSET (1..n) /\ Below(x, q) \in SUBSET (1..n)
  BY <1>1, <1>5, Zenon DEF UpTo, Below
<1> HIDE DEF L, H
<1>7. upTo \in Nat /\ below \in Nat /\ low \in Nat /\ high \in Nat
  BY <1>1, <1>6, Counted, Zenon
<1>8. upTo <= low /\ from <= high
  BY <1>1, <1>6, Counted, Zenon
<1>9. from = n - below
  BY <1>1, <1>6, Counted, Zenon
<1> HIDE DEF upTo, below, from, low, high
<1>10. a \in Nat /\ b \in Nat
  BY <1>1, SMT
<1>11. 2 * low >= n
  BY <1>1, <1>2, <1>4, <1>7, <1>8, <1>10, SMT
<1>12. 2 * high >= n
  BY <1>1, <1>2, <1>4, <1>7, <1>8, <1>9, <1>10, SMT
<1> QED
  BY <1>11, <1>12, Zenon DEF low, high, L, H, m

(***************************************************************************)
(* A line of the report.                                                   *)
(***************************************************************************)
\* What LineDescribesLoop says of a line and its loop.
Describes(line, x) ==
  /\ Len(x) = test_number
  /\ line.min \in Range(x) /\ line.max \in Range(x)
  /\ \A d \in Range(x) : line.min <= d /\ d <= line.max
  /\ 2 * Cardinality({j \in DOMAIN x : 2 * x[j] <= line.med}) >= test_number
  /\ 2 * Cardinality({j \in DOMAIN x : 2 * x[j] >= line.med}) >= test_number

LEMMA LineFits ==
  ASSUME NEW x, Durations(x, test_number)
  PROVE  Describes(Line(x), x)
<1> DEFINE s == qsort(x)
<1>1. Ranked(s, x, test_number)
  BY SortRanks, Zenon
<1>2. Line(x) = [avg |-> calculateAverage(x), med |-> Middle(s), sd |-> calculateStdDev(s),
                 min |-> s[1], max |-> s[test_number]]
  BY Zenon DEF Line, calculateMedian
<1> HIDE DEF s
<1>3. Line(x).med = Middle(s) /\ Line(x).min = s[1] /\ Line(x).max = s[test_number]
  BY <1>2, SMT
<1>4. 1 \in 1..test_number /\ test_number \in 1..test_number /\ Len(x) = test_number
  BY DurationFacts, Zenon DEF Durations
<1>5. s[1] \in Range(x) /\ s[test_number] \in Range(x)
  BY <1>1, <1>4, Zenon DEF Ranked
<1>6. \A d \in Range(x) : s[1] <= d /\ d <= s[test_number]
  BY <1>1, Ends, Zenon
<1>7. /\ 2 * Cardinality({j \in DOMAIN x : 2 * x[j] <= Middle(s)}) >= test_number
      /\ 2 * Cardinality({j \in DOMAIN x : 2 * x[j] >= Middle(s)}) >= test_number
  BY <1>1, Halves, Zenon
<1> QED
  BY <1>3, <1>4, <1>5, <1>6, <1>7, Zenon DEF Describes

(***************************************************************************)
(* The benchmark.                                                          *)
(***************************************************************************)
\* The arrays and the history while the tests of loop l are measured, of which j are.
Benching(tt, mm, l, j, n) ==
  /\ l \in Loops /\ j \in Nat /\ j < n
  /\ \A k \in Loops : /\ Durations(tt[k], n)
                      /\ k < l => mm[k] = tt[k]
                      /\ k > l => mm[k] = <<>>
  /\ Len(mm[l]) = j /\ \A h \in 1..j : mm[l][h] = tt[l][h]

\* ... and when the loop's last test is measured.
LoopDone(tt, mm, l, n) ==
  \A k \in Loops : /\ Durations(tt[k], n)
                   /\ k <= l => mm[k] = tt[k]
                   /\ k > l => mm[k] = <<>>

StoreTest(tt, l, j, t) == [tt EXCEPT ![l][j + 1] = t]
NoteTest(mm, l, t) == [mm EXCEPT ![l] = Append(@, t)]

LEMMA NatSequence ==
  ASSUME NEW s, NEW n \in Nat, s = [k \in 1..n |-> s[k]], \A k \in 1..n : s[k] \in Nat
  PROVE  s \in Seq(Nat) /\ Len(s) = n
<1>1. [k \in 1..n |-> s[k]] \in Seq(Nat) /\ Len([k \in 1..n |-> s[k]]) = n
  BY SMT
<1> QED
  BY <1>1, Zenon

LEMMA SequenceIs ==
  ASSUME NEW s \in Seq(Nat)
  PROVE  s = [k \in 1..Len(s) |-> s[k]]
BY SMT

\* One loop of them: b has the first j durations of a, all when there are n.
Noted(a, b, j, n) ==
  /\ Durations(a, n) /\ b \in Seq(Nat) /\ Len(b) = j
  /\ \A h \in 1..j : b[h] = a[h]
  /\ j >= n => b = a

LEMMA StoredOne ==
  ASSUME NEW a, NEW b, NEW n, NEW j \in Nat, NEW t \in Nat, Noted(a, b, j, n), j < n
  PROVE  Noted([a EXCEPT ![j + 1] = t], Append(b, t), j + 1, n)
<1> DEFINE c == [a EXCEPT ![j + 1] = t]
           d == Append(b, t)
<1>1. n \in Nat /\ DOMAIN a = 1..n /\ j + 1 \in 1..n /\ \A k \in 1..n : a[k] \in Nat
  BY SMT DEF Durations, Noted
<1>2. d \in Seq(Nat) /\ Len(d) = j + 1 /\ DOMAIN d = 1..(j + 1)
  BY SMT DEF Noted
<1>3. DOMAIN c = 1..n /\ c[j + 1] = t /\ \A k \in 1..n : k # j + 1 => c[k] = a[k]
  BY <1>1, Zenon
<1>4. c = [k \in 1..n |-> c[k]] /\ \A k \in 1..n : c[k] \in Nat
  <2>1. c = [k \in 1..n |-> c[k]]
    BY <1>1, Zenon
  <2> QED
    BY <1>1, <1>3, <2>1, Zenon
<1>5. d[j + 1] = t /\ \A h \in 1..j : d[h] = b[h] /\ h \in 1..n /\ h # j + 1
  BY <1>1, SMT DEF Noted
<1> HIDE DEF c, d
<1>6. c \in Seq(Nat) /\ Len(c) = n
  BY <1>1, <1>4, NatSequence, Zenon
<1>7. \A h \in 1..(j + 1) : d[h] = c[h]
  <2> TAKE h \in 1..(j + 1)
  <2>1. CASE h = j + 1
    BY <1>3, <1>5, <2>1, Zenon
  <2>2. CASE h # j + 1
    <3>1. h \in 1..j
      BY <1>1, <2>2, SMT
    <3> QED
      BY <1>3, <1>5, <3>1, Zenon DEF Noted
  <2> QED
    BY <2>1, <2>2, Zenon
<1>8. ASSUME j + 1 >= n PROVE d = c
  <2>1. j + 1 = n
    BY <1>1, <1>8, SMT
  <2>2. d = [k \in 1..(j + 1) |-> d[k]]
    BY <1>2, SequenceIs, Zenon
  <2> QED
    BY <1>4, <1>7, <2>1, <2>2, Zenon
<1>9. Durations(c, n)
  BY <1>1, <1>6, SMT DEF Durations
<1> QED
  BY <1>2, <1>7, <1>8, <1>9, Zenon DEF Noted, c, d

LEMMA Stored ==
  ASSUME NEW tt \in [Loops -> Seq(Nat)], NEW mm \in [Loops -> Seq(Nat)], NEW l, NEW j, NEW n,
         Benching(tt, mm, l, j, n), NEW t \in Nat
  PROVE  /\ StoreTest(tt, l, j, t) \in [Loops -> Seq(Nat)]
         /\ NoteTest(mm, l, t) \in [Loops -> Seq(Nat)]
         /\ j + 1 < n => Benching(StoreTest(tt, l, j, t), NoteTest(mm, l, t), l, j + 1, n)
         /\ j + 1 >= n => LoopDone(StoreTest(tt, l, j, t), NoteTest(mm, l, t), l, n)
<1>1. l \in Loops /\ j \in Nat /\ j < n /\ j + 1 \in Nat /\ l <= l
  BY SMT DEF Benching, Loops
<1> DEFINE c == [tt[l] EXCEPT ![j + 1] = t]
           d == Append(mm[l], t)
           t2 == StoreTest(tt, l, j, t)
           m2 == NoteTest(mm, l, t)
<1>2. Noted(c, d, j + 1, n)
  <2>1. /\ Durations(tt[l], n) /\ mm[l] \in Seq(Nat) /\ Len(mm[l]) = j
        /\ \A h \in 1..j : mm[l][h] = tt[l][h]
    BY Zenon DEF Benching
  <2>2. ~(j >= n)
    BY <1>1, <2>1, SMT DEF Durations
  <2>3. Noted(tt[l], mm[l], j, n)
    BY <2>1, <2>2, Zenon DEF Noted
  <2> QED
    BY <1>1, <2>3, StoredOne, Zenon
<1>3. /\ DOMAIN t2 = Loops /\ t2[l] = c /\ \A k \in Loops : k # l => t2[k] = tt[k]
      /\ DOMAIN m2 = Loops /\ m2[l] = d /\ \A k \in Loops : k # l => m2[k] = mm[k]
  BY <1>1, Zenon DEF StoreTest, NoteTest
<1>4. t2 \in [Loops -> Seq(Nat)] /\ m2 \in [Loops -> Seq(Nat)]
  <2>1. c \in Seq(Nat) /\ d \in Seq(Nat)
    BY <1>2, Zenon DEF Noted, Durations
  <2> HIDE DEF c, d
  <2>2. t2 = [tt EXCEPT ![l] = c] /\ m2 = [mm EXCEPT ![l] = d]
    BY Zenon DEF StoreTest, NoteTest, c, d
  <2> QED
    BY <1>1, <2>1, <2>2, Zenon
<1> HIDE DEF c, d, t2, m2
<1>5. \A k \in Loops : k < l => k # l
  BY SMT DEF Loops
<1>6. \A k \in Loops : k > l => k # l
  BY SMT DEF Loops
<1>7. ASSUME j + 1 < n PROVE Benching(t2, m2, l, j + 1, n)
  <2>1. \A k \in Loops : /\ Durations(t2[k], n)
                         /\ k < l => m2[k] = t2[k]
                         /\ k > l => m2[k] = <<>>
    <3> TAKE k \in Loops
    <3>1. CASE k = l
      BY <1>2, <1>3, <1>5, <1>6, <3>1, Zenon DEF Noted
    <3>2. CASE k # l
      BY <1>3, <3>2, Zenon DEF Benching
    <3> QED
      BY <3>1, <3>2, Zenon
  <2> QED
    BY <1>1, <1>2, <1>3, <1>7, <2>1, Zenon DEF Benching, Noted
<1>8. ASSUME j + 1 >= n PROVE LoopDone(t2, m2, l, n)
  <2> SUFFICES ASSUME NEW k \in Loops
               PROVE  /\ Durations(t2[k], n)
                      /\ k <= l => m2[k] = t2[k]
                      /\ k > l => m2[k] = <<>>
    BY Zenon DEF LoopDone
  <2>1. CASE k = l
    BY <1>2, <1>3, <1>6, <1>8, <2>1, Zenon DEF Noted
  <2>2. CASE k # l
    <3>1. k <= l => k < l
      BY <1>1, <2>2, SMT DEF Loops
    <3> QED
      BY <1>3, <2>2, <3>1, Zenon DEF Benching
  <2> QED
    BY <2>1, <2>2, Zenon
<1> QED
  BY <1>4, <1>7, <1>8, Zenon DEF t2, m2

\* After the last loop the statistics, after another one the next.
LEMMA NextLoop ==
  ASSUME NEW tt, NEW mm, NEW l \in Loops, NEW n, LoopDone(tt, mm, l, n)
  PROVE  /\ l < 3 => l + 1 \in Loops /\ Benching(tt, mm, l + 1, 0, n)
         /\ ~(l < 3) => \A k \in Loops : mm[k] = tt[k] /\ Durations(tt[k], n)
<1>1. ASSUME l < 3 PROVE l + 1 \in Loops /\ Benching(tt, mm, l + 1, 0, n)
  <2>1. /\ l + 1 \in Loops /\ l + 1 > l
        /\ \A k \in Loops : /\ k < l + 1 => k <= l
                            /\ k > l + 1 => k > l
    BY <1>1, SMT DEF Loops
  <2>2. mm[l + 1] = <<>> /\ Len(<<>>) = 0 /\ 0 < n /\ 0 \in Nat
    <3>1. mm[l + 1] = <<>> /\ Durations(tt[l + 1], n)
      BY <2>1, Zenon DEF LoopDone
    <3> QED
      BY <3>1, SMT DEF Durations
  <2>3. \A h \in 1..0 : FALSE
    BY SMT
  <2> QED
    BY <2>1, <2>2, <2>3, Zenon DEF Benching, LoopDone
<1>2. ASSUME ~(l < 3) PROVE \A k \in Loops : mm[k] = tt[k] /\ Durations(tt[k], n)
  <2>1. \A k \in Loops : k <= l
    BY <1>2, SMT DEF Loops
  <2> QED
    BY <2>1, Zenon DEF LoopDone
<1> QED
  BY <1>1, <1>2, Zenon

(***************************************************************************)
(* The report, in every state.                                             *)
(***************************************************************************)
\* What Line makes of an array of n.
LineOf(x, n) ==
  LET m == calculateMedian(x)
  IN [avg |-> calculateAverage(x), med |-> m.med, sd |-> calculateStdDev(m.arr),
      min |-> m.arr[1], max |-> m.arr[n]]

\* The lines printed are those of the first loops, in their order.
Reported(r, mm, n) ==
  /\ r \in Seq({LineOf(mm[k], n) : k \in Loops})
  /\ \A k \in 1..Len(r) : k \in Loops /\ r[k] = LineOf(mm[k], n) /\ Durations(mm[k], n)

\* calculateMedian has sorted the arrays before loop l, and no other.
Summarising(tt, mm, l, n) ==
  \A k \in Loops : Durations(mm[k], n) /\ (l <= k => tt[k] = mm[k])

BenchInv ==
  /\ command \in Commands /\ number \in Numbers
  /\ times \in [Loops -> Seq(Nat)] /\ measured \in [Loops -> Seq(Nat)]
  /\ loop \in Loops
  /\ pc = "start" => loop = 1 /\ i = 0 /\ measured = [k \in Loops |-> <<>>]
  /\ pc = "benchmark" => Benching(times, measured, loop, i, test_number)
  /\ pc = "stats" => Summarising(times, measured, loop, test_number) /\ Len(report) = loop - 1
  /\ pc \notin {"stats", "done"} => report = <<>>
  /\ Reported(report, measured, test_number)

LEMMA LineIs == \A x : Line(x) = LineOf(x, test_number)
BY Zenon DEF Line, LineOf

LEMMA NothingReported ==
  ASSUME NEW mm, NEW n
  PROVE  Reported(<<>>, mm, n)
<1>1. <<>> \in Seq({LineOf(mm[k], n) : k \in Loops}) /\ Len(<<>>) = 0
  OBVIOUS
<1>2. \A k \in 1..0 : FALSE
  BY SMT
<1> QED
  BY <1>1, <1>2, Zenon DEF Reported

LEMMA OneMoreLine ==
  ASSUME NEW r, NEW mm, NEW n, NEW l \in Loops, Reported(r, mm, n), Len(r) = l - 1,
         Durations(mm[l], n)
  PROVE  Reported(Append(r, LineOf(mm[l], n)), mm, n) /\ Len(Append(r, LineOf(mm[l], n))) = l
<1> DEFINE S == {LineOf(mm[k], n) : k \in Loops}
           line == LineOf(mm[l], n)
           r2 == Append(r, line)
<1>1. r \in Seq(S) /\ line \in S
  BY Zenon DEF Reported
<1>2. l \in Int /\ 1 <= l
  BY SMT DEF Loops
<1> HIDE DEF S, line
<1>3. /\ r2 \in Seq(S) /\ Len(r2) = l /\ r2[l] = line
      /\ \A k \in 1..l : k # l => k \in 1..Len(r) /\ r2[k] = r[k]
  BY <1>1, <1>2, SMT
<1>4. \A k \in 1..l : k \in Loops /\ r2[k] = LineOf(mm[k], n) /\ Durations(mm[k], n)
  <2> TAKE k \in 1..l
  <2>1. CASE k = l
    BY <1>3, <2>1, Zenon DEF line
  <2>2. CASE k # l
    BY <1>3, <2>2, Zenon DEF Reported
  <2> QED
    BY <2>1, <2>2, Zenon
<1> HIDE DEF r2
<1> QED
  BY <1>3, <1>4, Zenon DEF Reported, S, r2, line

LEMMA BenchInit == Init => BenchInv
<1> SUFFICES ASSUME Init PROVE BenchInv
  OBVIOUS
<1>1. /\ command \in Commands /\ number \in Numbers /\ loop = 1 /\ i = 0 /\ pc = "start"
      /\ times = [k \in Loops |-> <<>>] /\ measured = [k \in Loops |-> <<>>]
      /\ report = <<>>
  BY Zenon DEF Init
<1>2. <<>> \in Seq(Nat) /\ 1 \in Loops
  BY SMT DEF Loops
<1>3. times \in [Loops -> Seq(Nat)] /\ measured \in [Loops -> Seq(Nat)]
  BY <1>1, <1>2, Zenon
<1>4. pc # "benchmark" /\ pc # "stats"
  BY <1>1, Zenon
<1> QED
  BY <1>1, <1>2, <1>3, <1>4, NothingReported, Zenon DEF BenchInv

LEMMA Tests ==
  ASSUME BenchInv
  PROVE  Times(test_number) \subseteq Nat
<1>1. test_number \in Numbers \cup {20}
  BY Zenon DEF BenchInv, test_number
<1> QED
  BY <1>1, TimesAssumption, Zenon

LEMMA NumberStays == UNCHANGED arguments => test_number' = test_number
BY Zenon DEF arguments, test_number

\* A step that leaves the benchmark alone.
LEMMA ElsewhereKeeps ==
  ASSUME BenchInv, UNCHANGED <<arguments, loop, times, report, measured>>,
         pc \notin {"stats", "done"}, pc' \notin {"start", "benchmark", "stats"}
  PROVE  BenchInv'
<1>1. /\ command' = command /\ number' = number /\ loop' = loop /\ times' = times
      /\ report' = report /\ measured' = measured /\ test_number' = test_number
  BY NumberStays, Zenon DEF arguments
<1>2. pc' # "start" /\ pc' # "benchmark" /\ pc' # "stats"
  BY Zenon
<1>3. report' = <<>>
  BY <1>1, Zenon DEF BenchInv
<1> QED
  BY <1>1, <1>2, <1>3, Zenon DEF BenchInv

LEMMA StartKeeps == BenchInv /\ Start => BenchInv'
<1> SUFFICES ASSUME BenchInv, Start PROVE BenchInv'
  OBVIOUS
<1>1. /\ pc = "start" /\ UNCHANGED <<arguments, loop, report, measured>> /\ i' = i
      /\ pc \notin {"stats", "done"}
  BY SMT DEF Start, counters
<1>2. CASE Usage
  <2>1. pc' = "done" /\ times' = times
    BY <1>2, Zenon DEF Start
  <2>2. pc' \notin {"start", "benchmark", "stats"}
    BY <2>1, SMT
  <2> QED
    BY <1>1, <2>1, <2>2, ElsewhereKeeps, Zenon
<1>3. CASE ~Usage /\ command # "benchmark_test"
  <2>1. pc' = First /\ times' = times
    BY <1>3, Zenon DEF Start
  <2>2. command \in Commands /\ command # "other"
    BY <1>3, Zenon DEF BenchInv, Usage
  <2>3. First \in {"test", "exchange", "encode"}
    BY <1>3, <2>2, SMT DEF First, Commands
  <2>4. pc' \notin {"start", "benchmark", "stats"}
    BY <2>1, <2>3, SMT
  <2> QED
    BY <1>1, <2>1, <2>4, ElsewhereKeeps, Zenon
<1>4. CASE ~Usage /\ command = "benchmark_test"
  <2> DEFINE n == test_number
             zeros == [j \in 1..n |-> 0]
  <2>1. pc' = "benchmark" /\ times' = [k \in Loops |-> zeros]
    BY <1>4, Zenon DEF Start, First
  <2>2. n \in Nat /\ n > 0 /\ 0 < n
    <3>1. number \in Int /\ ~(test_number <= 0)
      BY <1>4, ArgumentsAssumption, Zenon DEF Usage, BenchInv
    <3> QED
      BY <3>1, SMT DEF test_number
  <2>3. test_number' = n
    BY <1>1, NumberStays, Zenon
  <2>4. zeros \in Seq(Nat) /\ Len(zeros) = n
    <3> HIDE DEF n
    <3> QED
      BY <2>2, SMT
  <2>5. Durations(zeros, n)
    BY <2>2, <2>4, Zenon DEF Durations
  <2>6. /\ \A k \in Loops : ~(k < 1) /\ 1 \in Loops /\ 0 \in Nat
        /\ Len(<<>>) = 0 /\ \A h \in 1..0 : FALSE
    BY SMT DEF Loops
  <2> HIDE DEF n, zeros
  <2>7. loop' = 1 /\ i' = 0 /\ measured' = [k \in Loops |-> <<>>] /\ report' = <<>>
    <3>1. pc \notin {"stats", "done"}
      BY <1>1, Zenon
    <3> QED
      BY <1>1, <3>1, Zenon DEF BenchInv
  <2>8. 1 \in Loops
    BY SMT DEF Loops
  <2>9. Benching(times', measured', 1, 0, n)
    <3>1. \A k \in Loops : times'[k] = zeros /\ measured'[k] = <<>>
      BY <2>1, <2>7, Zenon
    <3> QED
      BY <2>2, <2>5, <2>6, <2>8, <3>1, Zenon DEF Benching
  <2>10. times' \in [Loops -> Seq(Nat)]
    BY <2>1, <2>4, Zenon
  <2>11. /\ command' \in Commands /\ number' \in Numbers
         /\ measured' \in [Loops -> Seq(Nat)]
    BY <1>1, Zenon DEF BenchInv, arguments
  <2>12. pc' # "start" /\ pc' # "stats"
    BY <2>1, Zenon
  <2>13. Reported(report', measured', test_number')
    BY <2>7, NothingReported, Zenon
  <2> QED
    BY <2>1, <2>3, <2>7, <2>8, <2>9, <2>10, <2>11, <2>12, <2>13, Zenon DEF BenchInv
<1> QED
  BY <1>2, <1>3, <1>4, Zenon

LEMMA MeasureKeeps ==
  ASSUME BenchInv, NEW t \in Times(test_number), Measure(t)
  PROVE  BenchInv'
<1> DEFINE n == test_number
           t2 == StoreTest(times, loop, i, t)
           m2 == NoteTest(measured, loop, t)
<1>1. /\ pc = "benchmark" /\ UNCHANGED <<arguments, report>>
      /\ times' = t2 /\ measured' = m2
  BY Zenon DEF Measure, Store, StoreTest, NoteTest
<1>2. test_number' = n
  BY <1>1, NumberStays, Zenon
<1>3. Benching(times, measured, loop, i, n) /\ loop \in Loops /\ i \in Nat /\ i < n
  <2>1. Benching(times, measured, loop, i, n)
    BY <1>1, Zenon DEF BenchInv
  <2> QED
    BY <2>1, Zenon DEF Benching
<1>4. /\ t2 \in [Loops -> Seq(Nat)] /\ m2 \in [Loops -> Seq(Nat)]
      /\ i + 1 < n => Benching(t2, m2, loop, i + 1, n)
      /\ i + 1 >= n => LoopDone(t2, m2, loop, n)
  <2>1. t \in Nat
    BY Tests, Zenon
  <2>2. times \in [Loops -> Seq(Nat)] /\ measured \in [Loops -> Seq(Nat)]
    BY Zenon DEF BenchInv
  <2> QED
    BY <1>3, <2>1, <2>2, Stored, Zenon
<1>5. report = <<>>
  <2>1. pc \notin {"stats", "done"}
    BY <1>1, SMT
  <2> QED
    BY <2>1, Zenon DEF BenchInv
<1>6. Reported(report', measured', test_number')
  BY <1>1, <1>5, NothingReported, Zenon
<1>7. /\ command' \in Commands /\ number' \in Numbers /\ report' = <<>>
      /\ times' \in [Loops -> Seq(Nat)] /\ measured' \in [Loops -> Seq(Nat)]
  BY <1>1, <1>4, <1>5, Zenon DEF BenchInv, arguments
<1> HIDE DEF n, t2, m2
<1>8. CASE ~(i + 1 >= n)
  <2>1. i' = i + 1 /\ pc' = "benchmark" /\ loop' = loop
    BY <1>1, <1>8, Zenon DEF Measure, LastRun, n
  <2>2. i + 1 < n
    BY <1>3, <1>8, SMT DEF Benching, Durations
  <2>3. Benching(times', measured', loop', i', test_number')
    BY <1>1, <1>2, <1>4, <2>1, <2>2, Zenon
  <2>4. pc' # "start" /\ pc' # "stats"
    BY <2>1, Zenon
  <2> QED
    BY <1>3, <1>6, <1>7, <2>1, <2>3, <2>4, Zenon DEF BenchInv
<1>9. CASE i + 1 >= n /\ loop < 3
  <2>1. i' = 0 /\ pc' = "benchmark" /\ loop' = loop + 1
    BY <1>1, <1>9, Zenon DEF Measure, LastRun, n
  <2>2. loop' \in Loops /\ Benching(times', measured', loop', i', test_number')
    BY <1>1, <1>2, <1>3, <1>4, <1>9, <2>1, NextLoop, Zenon
  <2>3. pc' # "start" /\ pc' # "stats"
    BY <2>1, Zenon
  <2> QED
    BY <1>6, <1>7, <2>1, <2>2, <2>3, Zenon DEF BenchInv
<1>10. CASE i + 1 >= n /\ ~(loop < 3)
  <2>1. pc' = "stats" /\ loop' = 1
    BY <1>1, <1>10, Zenon DEF Measure, LastRun, n
  <2>2. \A k \in Loops : measured'[k] = times'[k] /\ Durations(times'[k], test_number')
    BY <1>1, <1>2, <1>3, <1>4, <1>10, NextLoop, ZenonT(30)
  <2>3. Summarising(times', measured', loop', test_number')
    BY <2>2, Zenon DEF Summarising
  <2>4. Len(report') = loop' - 1 /\ loop' \in Loops
    BY <1>7, <2>1, SMT DEF Loops
  <2>5. pc' # "start" /\ pc' # "benchmark"
    BY <2>1, Zenon
  <2> QED
    BY <1>6, <1>7, <2>3, <2>4, <2>5, Zenon DEF BenchInv
<1> QED
  BY <1>8, <1>9, <1>10, Zenon

LEMMA SummariseKeeps == BenchInv /\ Summarise => BenchInv'
<1> SUFFICES ASSUME BenchInv, Summarise PROVE BenchInv'
  OBVIOUS
<1> DEFINE n == test_number
           sorted == calculateMedian(times[loop]).arr
<1>1. /\ pc = "stats" /\ UNCHANGED <<arguments, measured>>
      /\ report' = Append(report, Line(times[loop]))
      /\ times' = [times EXCEPT ![loop] = sorted]
  BY Zenon DEF Summarise
<1>2. test_number' = n
  BY <1>1, NumberStays, Zenon
<1>3. /\ Summarising(times, measured, loop, n) /\ Len(report) = loop - 1
      /\ Reported(report, measured, n) /\ loop \in Loops
      /\ times \in [Loops -> Seq(Nat)]
  BY <1>1, Zenon DEF BenchInv
<1>4. loop <= loop
  BY <1>3, SMT DEF Loops
<1>5. times[loop] = measured[loop] /\ Durations(measured[loop], n)
  BY <1>3, <1>4, Zenon DEF Summarising
<1>6. Line(times[loop]) = LineOf(measured[loop], n)
  BY <1>5, LineIs, Zenon
<1>7. Reported(report', measured', test_number') /\ Len(report') = loop
  <2>1. report' = Append(report, LineOf(measured[loop], n))
    BY <1>1, <1>6, Zenon
  <2> HIDE DEF n
  <2>2. /\ Reported(Append(report, LineOf(measured[loop], n)), measured, n)
        /\ Len(Append(report, LineOf(measured[loop], n))) = loop
    BY <1>3, <1>5, OneMoreLine, SMT
  <2> QED
    BY <1>1, <1>2, <2>1, <2>2, Zenon
<1>8. sorted \in Seq(Nat)
  <2>1. Ranked(qsort(times[loop]), times[loop], n)
    BY <1>5, SortRanks, Zenon
  <2> QED
    BY <2>1, Zenon DEF Ranked, calculateMedian
<1>9. /\ command' \in Commands /\ number' \in Numbers
      /\ times' \in [Loops -> Seq(Nat)] /\ measured' \in [Loops -> Seq(Nat)]
  <2> HIDE DEF sorted
  <2>1. times' \in [Loops -> Seq(Nat)]
    BY <1>1, <1>3, <1>8, Zenon
  <2> QED
    BY <1>1, <2>1, Zenon DEF BenchInv, arguments
<1>10. CASE loop < 3
  <2>1. loop' = loop + 1 /\ pc' = "stats"
    BY <1>1, <1>10, Zenon DEF Summarise
  <2>2. /\ loop' \in Loops /\ loop = loop' - 1
        /\ \A k \in Loops : loop' <= k => loop <= k /\ k # loop
    BY <1>3, <1>10, <2>1, SMT DEF Loops
  <2>3. \A k \in Loops : k # loop => times'[k] = times[k]
    BY <1>1, <1>3, Zenon
  <2>4. Summarising(times', measured', loop', test_number')
    BY <1>1, <1>2, <1>3, <2>2, <2>3, Zenon DEF Summarising
  <2>5. pc' # "start" /\ pc' # "benchmark" /\ pc' \in {"stats", "done"}
    BY <2>1, SMT
  <2> QED
    BY <1>7, <1>9, <2>1, <2>2, <2>4, <2>5, Zenon DEF BenchInv
<1>11. CASE ~(loop < 3)
  <2>1. loop' = loop /\ pc' = "done"
    BY <1>1, <1>11, Zenon DEF Summarise
  <2>2. pc' # "start" /\ pc' # "benchmark" /\ pc' # "stats" /\ pc' \in {"stats", "done"}
    BY <2>1, SMT
  <2> QED
    BY <1>3, <1>7, <1>9, <2>1, <2>2, Zenon DEF BenchInv
<1> QED
  BY <1>10, <1>11, Zenon

LEMMA BenchStep == BenchInv /\ [Next]_vars => BenchInv'
<1> SUFFICES ASSUME BenchInv, [Next]_vars PROVE BenchInv'
  OBVIOUS
<1> DEFINE Same == UNCHANGED <<arguments, loop, times, report, measured>>
           Leaves == pc \notin {"stats", "done"} /\ pc' \notin {"start", "benchmark", "stats"}
<1>1. CASE Start
  BY <1>1, StartKeeps, Zenon
<1>2. CASE Fail
  <2>1. Same /\ Leaves
    BY <1>2, SMT DEF Fail, counters
  <2> QED
    BY <2>1, ElsewhereKeeps, Zenon
<1>3. CASE WarmUp
  <2>1. /\ pc = "benchmark" /\ pc' = pc /\ i' = i /\ UNCHANGED arguments
        /\ Same
    BY <1>3, Zenon DEF WarmUp
  <2>2. test_number' = test_number /\ command' = command /\ number' = number
    BY <2>1, NumberStays, Zenon DEF arguments
  <2> QED
    BY <2>1, <2>2, Zenon DEF BenchInv
<1>4. CASE Summarise
  BY <1>4, SummariseKeeps, Zenon
<1>5. CASE Encode
  <2>1. Same /\ Leaves
    BY <1>5, SMT DEF Encode, counters
  <2> QED
    BY <2>1, ElsewhereKeeps, Zenon
<1>6. CASE Exchange
  <2>1. Same
    BY <1>6, SMT DEF Exchange, counters
  <2>2. AfterExchange.pc \in {"decode", "done"}
    BY SMT DEF AfterExchange
  <2>3. Leaves
    BY <1>6, <2>2, SMT DEF Exchange
  <2> QED
    BY <2>1, <2>3, ElsewhereKeeps, Zenon
<1>7. CASE Decode
  <2>1. Same /\ Leaves
    BY <1>7, SMT DEF Decode, counters
  <2> QED
    BY <2>1, ElsewhereKeeps, Zenon
<1>8. ASSUME NEW t \in Times(test_number), Measure(t) PROVE BenchInv'
  BY <1>8, MeasureKeeps, Zenon
<1>9. ASSUME NEW t \in Times(test_number), Test(t) PROVE BenchInv'
  <2>1. Same /\ Leaves
    BY <1>9, SMT DEF Test, counters
  <2> QED
    BY <2>1, ElsewhereKeeps, Zenon
<1>10. CASE UNCHANGED vars
  <2>1. /\ pc' = pc /\ i' = i /\ UNCHANGED arguments /\ Same
    BY <1>10, Zenon DEF vars, arguments
  <2>2. test_number' = test_number /\ command' = command /\ number' = number
    BY <2>1, NumberStays, Zenon DEF arguments
  <2> QED
    BY <2>1, <2>2, Zenon DEF BenchInv
<1> QED
  BY <1>1, <1>2, <1>3, <1>4, <1>5, <1>6, <1>7, <1>8, <1>9, <1>10, Zenon DEF Next

\* For every number of tests and every duration they take: a printed line gives the
\* shortest and the longest duration its loop measured, and a median with half of them
\* on either side.
THEOREM LinesAreTrue == Spec => []LineDescribesLoop
<1>1. BenchInv => LineDescribesLoop
  <2> SUFFICES ASSUME BenchInv PROVE LineDescribesLoop
    OBVIOUS
  <2>1. Reported(report, measured, test_number)
    BY Zenon DEF BenchInv
  <2>2. DOMAIN report = 1..Len(report)
    <3>1. PICK S : report \in Seq(S)
      BY <2>1, Zenon DEF Reported
    <3> QED
      BY <3>1, SMT
  <2>3. ASSUME NEW k \in DOMAIN report PROVE Describes(report[k], measured[k])
    <3>1. /\ report[k] = LineOf(measured[k], test_number)
          /\ Durations(measured[k], test_number)
      BY <2>1, <2>2, Zenon DEF Reported
    <3>2. report[k] = Line(measured[k])
      BY <3>1, LineIs, Zenon
    <3> QED
      BY <3>1, <3>2, LineFits, Zenon
  <2> QED
    BY <2>3, Zenon DEF LineDescribesLoop, Describes
<1> QED
  BY BenchInit, BenchStep, <1>1, PTL DEF Spec

(***************************************************************************)
(* Sums over an array.                                                     *)
(***************************************************************************)
\* Induction up to n.
LEMMA Inductive ==
  ASSUME NEW n \in Nat, NEW S, 0 \in S, \A k \in 1..n : k - 1 \in S => k \in S
  PROVE  \A k \in 0..n : k \in S
<1> DEFINE T == {k \in 0..n : k \notin S}
<1>1. SUFFICES ASSUME T # {} PROVE FALSE
  OBVIOUS
<1>2. T \in SUBSET Nat
  BY SMT
<1>3. PICK m \in T : \A k \in T : m <= k
  BY <1>1, <1>2, Least, Zenon
<1>4. m \in 0..n /\ m \notin S /\ m # 0
  BY <1>3, Zenon
<1>5. m \in 1..n /\ m - 1 \in 0..n /\ ~(m <= m - 1)
  BY <1>4, SMT
<1>6. m - 1 \in S
  BY <1>3, <1>5, Zenon
<1> QED
  BY <1>4, <1>5, <1>6, Zenon

\* The sums of the first elements of v, up to all its n.
Whole(v, n) == n \in Nat /\ v \in Seq(Int) /\ Len(v) = n /\ DOMAIN v = 1..n

Runs(sum, v, k) ==
  /\ sum \in [0..k -> Int] /\ sum[0] = 0
  /\ \A j \in 1..k : sum[j] = sum[j - 1] + v[j]

LEMMA RunsExist ==
  ASSUME NEW n, NEW v, Whole(v, n)
  PROVE  \E sum : Runs(sum, v, n)
<1>1. n \in Nat /\ \A k \in 1..n : v[k] \in Int
  BY SMT DEF Whole
<1> DEFINE S == {k \in 0..n : \E sum : Runs(sum, v, k)}
<1>2. 0 \in S
  <2> DEFINE sum == [j \in 0..0 |-> 0]
  <2>1. 0 \in 0..n /\ sum \in [0..0 -> Int] /\ sum[0] = 0 /\ 1..0 = {}
    BY <1>1, SMT
  <2> HIDE DEF sum
  <2>2. Runs(sum, v, 0)
    BY <2>1, Zenon DEF Runs
  <2> QED
    BY <2>1, <2>2, Zenon
<1>3. ASSUME NEW k \in 1..n, k - 1 \in S PROVE k \in S
  <2>1. PICK g : Runs(g, v, k - 1)
    BY <1>3, Zenon
  <2> DEFINE t == g[k - 1] + v[k]
             sum == [j \in 0..k |-> IF j = k THEN t ELSE g[j]]
  <2>2. /\ k \in Int /\ k \in 0..n /\ 0 \in 0..k /\ 0 # k /\ k \in 0..k /\ k - 1 \in 0..(k - 1)
        /\ \A j \in 0..k : j # k => j \in 0..(k - 1)
        /\ \A j \in 1..k : j - 1 \in 0..k /\ j - 1 # k /\ (j # k => j \in 1..(k - 1))
        /\ \A j \in 1..k : j \in 0..k
    BY <1>1, SMT
  <2>3. g[k - 1] \in Int /\ v[k] \in Int
    BY <1>1, <2>1, <2>2, Zenon DEF Runs
  <2>4. t \in Int
    BY <2>3, SMT
  <2>5. g[0] = 0 /\ \A j \in 1..(k - 1) : g[j] = g[j - 1] + v[j]
    BY <2>1, Zenon DEF Runs
  <2>6. \A j \in 0..(k - 1) : g[j] \in Int
    BY <2>1, Zenon DEF Runs
  <2>7. ASSUME NEW j \in 1..k PROVE sum[j] = sum[j - 1] + v[j]
    <3>1. sum[j - 1] = g[j - 1]
      BY <2>2, Zenon
    <3>2. CASE j = k
      BY <2>2, <3>1, <3>2, Zenon
    <3>3. CASE j # k
      <4>1. sum[j] = g[j]
        BY <2>2, <3>3, Zenon
      <4>2. g[j] = g[j - 1] + v[j]
        BY <2>2, <2>5, <3>3, Zenon
      <4> QED
        BY <3>1, <4>1, <4>2, Zenon
    <3> QED
      BY <3>2, <3>3, Zenon
  <2> HIDE DEF t
  <2>8. sum[0] = 0 /\ sum \in [0..k -> Int]
    BY <2>2, <2>4, <2>5, <2>6, Zenon
  <2> HIDE DEF sum
  <2>9. Runs(sum, v, k)
    BY <2>7, <2>8, Zenon DEF Runs
  <2> QED
    BY <2>2, <2>9, Zenon
<1> HIDE DEF S
<1>4. n \in 0..n /\ \A k \in 0..n : k \in S
  <2>1. n \in 0..n
    BY <1>1, SMT
  <2> QED
    BY <1>1, <1>2, <1>3, <2>1, Inductive, Zenon
<1> QED
  BY <1>4, Zenon DEF S

\* Total(v) is the last of them.
LEMMA TotalIs ==
  ASSUME NEW n, NEW v, Whole(v, n)
  PROVE  \E sum : Runs(sum, v, n) /\ Total(v) = sum[n]
<1> DEFINE Rec(f) == f = [k \in 0..n |-> IF k = 0 THEN 0 ELSE f[k - 1] + v[k]]
<1>1. n \in Nat /\ Len(v) = n
  BY Zenon DEF Whole
<1>2. PICK f : Runs(f, v, n)
  BY RunsExist, Zenon
<1>3. /\ f[0] = 0 /\ (\A k \in 1..n : f[k] = f[k - 1] + v[k])
      /\ f \in [0..n -> Int]
  BY <1>2, Zenon DEF Runs
<1>4. \A k \in 0..n : k # 0 => k \in 1..n
  BY <1>1, SMT
<1>5. f = [k \in 0..n |-> f[k]]
  BY <1>3, Zenon
<1>6. Rec(f)
  <2>1. \A k \in 0..n : f[k] = IF k = 0 THEN 0 ELSE f[k - 1] + v[k]
    BY <1>3, <1>4, Zenon
  <2> QED
    BY <1>5, <2>1, Zenon
<1>7. ASSUME NEW g, Rec(g) PROVE g = f
  <2> DEFINE S == {k \in 0..n : g[k] = f[k]}
  <2>1. /\ 0 \in 0..n /\ \A k \in 1..n : k \in 0..n /\ k # 0
    BY <1>1, SMT
  <2>2. 0 \in S
    BY <1>3, <1>7, <2>1, Zenon
  <2>3. ASSUME NEW k \in 1..n, k - 1 \in S PROVE k \in S
    <3>1. g[k] = g[k - 1] + v[k]
      BY <1>7, <2>1, Zenon
    <3> QED
      BY <1>3, <2>1, <2>3, <3>1, Zenon
  <2>4. g = [k \in 0..n |-> g[k]]
    BY <1>7, Zenon
  <2> HIDE DEF S
  <2>5. \A k \in 0..n : k \in S
    BY <1>1, <2>2, <2>3, Inductive, Zenon
  <2>6. \A k \in 0..n : g[k] = f[k]
    BY <2>5, Zenon DEF S
  <2> HIDE DEF Rec
  <2> QED
    BY <1>5, <2>4, <2>6, Zenon
<1> DEFINE c == CHOOSE g : Rec(g)
<1>8. c = f
  <2> HIDE DEF Rec
  <2> QED
    BY <1>6, <1>7, Zenon
<1>9. Total(v) = c[n]
  BY <1>1, Zenon DEF Total
<1> QED
  BY <1>2, <1>8, <1>9, Zenon

LEMMA Listed ==
  ASSUME NEW n \in Nat, NEW v, DOMAIN v = 1..n, v = [k \in 1..n |-> v[k]],
         \A k \in 1..n : v[k] \in Int
  PROVE  Whole(v, n)
<1>1. v \in Seq(Int) /\ Len(v) = n
  BY SMT
<1> QED
  BY <1>1, Zenon DEF Whole

\* What is linear in the elements is so in the sums.
Combines(z, u, v, a, b, c, n) ==
  /\ Whole(u, n) /\ Whole(v, n) /\ Whole(z, n)
  /\ a \in Int /\ b \in Int /\ c \in Int
  /\ \A k \in 1..n : z[k] = a * u[k] + b * v[k] + c

LEMMA Linear ==
  ASSUME NEW n, NEW u, NEW v, NEW z, NEW a, NEW b, NEW c, Combines(z, u, v, a, b, c, n)
  PROVE  /\ Total(z) = a * Total(u) + b * Total(v) + c * n
         /\ Total(u) \in Int /\ Total(v) \in Int /\ Total(z) \in Int
<1>1. n \in Nat /\ \A k \in 1..n : u[k] \in Int /\ v[k] \in Int /\ z[k] \in Int
  BY SMT DEF Whole, Combines
<1>0. /\ Whole(u, n) /\ Whole(v, n) /\ Whole(z, n)
      /\ a \in Int /\ b \in Int /\ c \in Int
      /\ \A k \in 1..n : z[k] = a * u[k] + b * v[k] + c
  BY Zenon DEF Combines
<1>2. PICK f : Runs(f, u, n) /\ Total(u) = f[n]
  BY <1>0, TotalIs, Zenon
<1>3. PICK g : Runs(g, v, n) /\ Total(v) = g[n]
  BY <1>0, TotalIs, Zenon
<1>4. PICK h : Runs(h, z, n) /\ Total(z) = h[n]
  BY <1>0, TotalIs, Zenon
<1> DEFINE S == {k \in 0..n : h[k] = a * f[k] + b * g[k] + c * k}
<1>5. 0 \in S
  <2>1. f[0] = 0 /\ g[0] = 0 /\ h[0] = 0
    BY <1>2, <1>3, <1>4, Zenon DEF Runs
  <2> QED
    BY <1>0, <1>1, <2>1, SMT
<1>6. ASSUME NEW k \in 1..n, k - 1 \in S PROVE k \in S
  <2>1. k - 1 \in 0..n /\ k \in 0..n /\ k \in Int
    BY <1>1, SMT
  <2>2. /\ f[k] = f[k - 1] + u[k] /\ g[k] = g[k - 1] + v[k] /\ h[k] = h[k - 1] + z[k]
        /\ f[k - 1] \in Int /\ g[k - 1] \in Int /\ h[k - 1] \in Int
        /\ u[k] \in Int /\ v[k] \in Int /\ z[k] \in Int
    BY <1>1, <1>2, <1>3, <1>4, <2>1, Zenon DEF Runs
  <2>3. z[k] = a * u[k] + b * v[k] + c
    BY <1>0, Zenon
  <2>4. h[k - 1] = a * f[k - 1] + b * g[k - 1] + c * (k - 1)
    BY <1>6, Zenon
  <2> DEFINE f1 == f[k - 1]
             g1 == g[k - 1]
             u1 == u[k]
             v1 == v[k]
  <2>5. h[k - 1] + z[k] = a * (f1 + u1) + b * (g1 + v1) + c * k
    <3>1. f1 \in Int /\ g1 \in Int /\ u1 \in Int /\ v1 \in Int
      BY <2>2, Zenon
    <3> HIDE DEF f1, g1, u1, v1
    <3>2. (a * f1 + b * g1 + c * (k - 1)) + (a * u1 + b * v1 + c)
            = a * (f1 + u1) + b * (g1 + v1) + c * k
      BY <1>0, <2>1, <3>1, SMT
    <3>3. h[k - 1] = a * f1 + b * g1 + c * (k - 1) /\ z[k] = a * u1 + b * v1 + c
      BY <2>3, <2>4, Zenon DEF f1, g1, u1, v1
    <3> QED
      BY <3>2, <3>3, Zenon
  <2>6. h[k] = a * f[k] + b * g[k] + c * k
    <3>1. h[k] = h[k - 1] + z[k] /\ f[k] = f1 + u1 /\ g[k] = g1 + v1
      BY <2>2, Zenon
    <3> HIDE DEF f1, g1, u1, v1
    <3> QED
      BY <2>5, <3>1, Zenon
  <2> QED
    BY <2>1, <2>6, Zenon
<1>7. n \in 0..n
  BY <1>1, SMT
<1> HIDE DEF S
<1>8. n \in S
  <2>1. \A k \in 0..n : k \in S
    BY <1>1, <1>5, <1>6, Inductive, Zenon
  <2> QED
    BY <1>7, <2>1, Zenon
<1>9. f[n] \in Int /\ g[n] \in Int /\ h[n] \in Int
  BY <1>2, <1>3, <1>4, <1>7, Zenon DEF Runs
<1> QED
  BY <1>2, <1>3, <1>4, <1>8, <1>9, Zenon DEF S

\* One element more or less.
SameBut(z, v, j, n) == \A k \in 1..n : k # j => z[k] = v[k]

LEMMA Changed ==
  ASSUME NEW n, NEW v, NEW z, Whole(v, n), Whole(z, n), NEW j \in 1..n, SameBut(z, v, j, n)
  PROVE  /\ Total(z) = Total(v) + (z[j] - v[j])
         /\ Total(v) \in Int /\ Total(z) \in Int
<1>1. n \in Nat /\ \A k \in 1..n : v[k] \in Int /\ z[k] \in Int
  BY SMT DEF Whole
<1>2. PICK g : Runs(g, v, n) /\ Total(v) = g[n]
  BY TotalIs, Zenon
<1>3. PICK h : Runs(h, z, n) /\ Total(z) = h[n]
  BY TotalIs, Zenon
<1> DEFINE More(k) == IF k < j THEN 0 ELSE z[j] - v[j]
           S == {k \in 0..n : h[k] = g[k] + More(k)}
<1>4. 0 \in S
  <2>1. g[0] = 0 /\ h[0] = 0
    BY <1>2, <1>3, Zenon DEF Runs
  <2> QED
    BY <1>1, <2>1, SMT
<1>5. ASSUME NEW k \in 1..n, k - 1 \in S PROVE k \in S
  <2>1. k - 1 \in 0..n /\ k \in 0..n /\ k \in Int
    BY <1>1, SMT
  <2>2. /\ g[k] = g[k - 1] + v[k] /\ h[k] = h[k - 1] + z[k]
        /\ g[k - 1] \in Int /\ h[k - 1] \in Int /\ v[k] \in Int /\ z[k] \in Int
        /\ v[j] \in Int /\ z[j] \in Int
    BY <1>1, <1>2, <1>3, <2>1, Zenon DEF Runs
  <2>3. h[k - 1] = g[k - 1] + More(k - 1)
    BY <1>5, Zenon
  <2>4. CASE k = j
    <3>1. More(k) = z[k] - v[k] /\ More(k - 1) = 0
      BY <1>1, <2>1, <2>4, SMT
    <3> HIDE DEF More
    <3>2. h[k] = g[k] + More(k)
      BY <2>2, <2>3, <3>1, SMT
    <3> QED
      BY <2>1, <3>2, Zenon
  <2>5. CASE k # j
    <3>1. More(k) = More(k - 1) /\ More(k) \in Int
      BY <1>1, <2>1, <2>2, <2>5, SMT
    <3>2. z[k] = v[k]
      BY <2>5, Zenon DEF SameBut
    <3> HIDE DEF More
    <3>3. h[k] = g[k] + More(k)
      BY <2>2, <2>3, <3>1, <3>2, SMT
    <3> QED
      BY <2>1, <3>3, Zenon
  <2> QED
    BY <2>4, <2>5, Zenon
<1>6. n \in 0..n /\ ~(n < j)
  BY <1>1, SMT
<1> HIDE DEF S
<1>7. n \in S
  <2>1. \A k \in 0..n : k \in S
    BY <1>1, <1>4, <1>5, Inductive, Zenon
  <2> QED
    BY <1>6, <2>1, Zenon
<1>8. g[n] \in Int /\ h[n] \in Int
  BY <1>2, <1>3, <1>6, Zenon DEF Runs
<1> QED
  BY <1>2, <1>3, <1>6, <1>7, <1>8, Zenon DEF S

(***************************************************************************)
(* Adding up by value.                                                     *)
(***************************************************************************)
\* The first k of the places with value i.
At(r, k, y) == {j \in 1..k : r[j] = y}
\* For each value i, what its first k places add up to.
Each(r, g, m, k) == [y \in 1..m |-> g[y] * Cardinality(At(r, k, y))]

LEMMA AtFacts ==
  ASSUME NEW r, NEW k \in Nat, NEW y
  PROVE  IsFiniteSet(At(r, k, y)) /\ Cardinality(At(r, k, y)) \in Nat
<1>1. IsFiniteSet(1..k)
  <2>1. k \in Int /\ 1 \in Int
    BY SMT
  <2> QED
    BY <2>1, FS_Interval, Zenon
<1>2. IsFiniteSet(At(r, k, y))
  <2>1. At(r, k, y) \subseteq 1..k
    BY Zenon DEF At
  <2> QED
    BY <1>1, <2>1, FS_Subset, Zenon
<1> QED
  BY <1>2, FS_CardinalityType, Zenon

LEMMA EachIsWhole ==
  ASSUME NEW r, NEW m \in Nat, NEW g, \A y \in 1..m : g[y] \in Int, NEW k \in Nat
  PROVE  Whole(Each(r, g, m, k), m)
<1> DEFINE e == Each(r, g, m, k)
<1>1. e = [y \in 1..m |-> g[y] * Cardinality(At(r, k, y))]
  BY Zenon DEF Each
<1>2. \A y \in 1..m : e[y] \in Int
  <2> TAKE y \in 1..m
  <2> DEFINE c == Cardinality(At(r, k, y))
  <2>1. c \in Nat /\ g[y] \in Int /\ e[y] = g[y] * c
    BY <1>1, AtFacts, Zenon
  <2> HIDE DEF c, e
  <2> QED
    BY <2>1, SMT
<1>3. DOMAIN e = 1..m /\ e = [y \in 1..m |-> e[y]]
  BY <1>1, Zenon
<1> HIDE DEF e
<1>4. Whole(e, m)
  BY <1>2, <1>3, Listed, Zenon
<1> QED
  BY <1>4, Zenon DEF e

LEMMA OnePlaceMore ==
  ASSUME NEW r, NEW k \in Nat, k > 0
  PROVE  /\ Cardinality(At(r, k, r[k])) = Cardinality(At(r, k - 1, r[k])) + 1
         /\ \A y : y # r[k] => At(r, k, y) = At(r, k - 1, y)
<1>1. k - 1 \in Nat /\ k \notin 1..(k - 1) /\ 1..k = (1..(k - 1)) \cup {k}
  BY SMT
<1>2. At(r, k, r[k]) = At(r, k - 1, r[k]) \cup {k} /\ k \notin At(r, k - 1, r[k])
  BY <1>1, Zenon DEF At
<1>3. \A y : y # r[k] => At(r, k, y) = At(r, k - 1, y)
  BY <1>1, Zenon DEF At
<1>4. IsFiniteSet(At(r, k - 1, r[k]))
  BY <1>1, AtFacts, Zenon
<1>5. Cardinality(At(r, k, r[k])) = Cardinality(At(r, k - 1, r[k])) + 1
  BY <1>2, <1>4, FS_AddElement, Zenon
<1> QED
  BY <1>3, <1>5, Zenon

\* Nothing adds up to nothing.
LEMMA Nothing ==
  ASSUME NEW n, NEW v, Whole(v, n), \A k \in 1..n : v[k] = 0
  PROVE  Total(v) = 0
<1>1. n \in Nat
  BY Zenon DEF Whole
<1>2. PICK sum : Runs(sum, v, n) /\ Total(v) = sum[n]
  BY TotalIs, Zenon
<1> DEFINE S == {k \in 0..n : sum[k] = 0}
<1>3. 0 \in 0..n /\ n \in 0..n
  BY <1>1, SMT
<1>4. 0 \in S
  BY <1>2, <1>3, Zenon DEF Runs
<1>5. ASSUME NEW k \in 1..n, k - 1 \in S PROVE k \in S
  <2>1. sum[k] = sum[k - 1] + v[k] /\ v[k] = 0 /\ sum[k - 1] = 0
    BY <1>2, <1>5, Zenon DEF Runs
  <2> QED
    BY <1>1, <2>1, SMT
<1> HIDE DEF S
<1>6. \A k \in 0..n : k \in S
  BY <1>1, <1>4, <1>5, Inductive, Zenon
<1> QED
  BY <1>2, <1>3, <1>6, Zenon DEF S

\* A sum over places is the sum over the values of how often each occurs.
ByValue(v, r, g, m, n) ==
  /\ Whole(v, n) /\ m \in Nat
  /\ \A k \in 1..n : r[k] \in 1..m /\ v[k] = g[r[k]]
  /\ \A y \in 1..m : g[y] \in Int

LEMMA Grouped ==
  ASSUME NEW n, NEW m, NEW r, NEW g, NEW v, ByValue(v, r, g, m, n)
  PROVE  Total(v) = Total(Each(r, g, m, n))
<1>0. /\ Whole(v, n) /\ m \in Nat /\ n \in Nat
      /\ \A k \in 1..n : r[k] \in 1..m /\ v[k] = g[r[k]]
      /\ \A y \in 1..m : g[y] \in Int
  BY Zenon DEF ByValue, Whole
<1>1. PICK sum : Runs(sum, v, n) /\ Total(v) = sum[n]
  BY <1>0, TotalIs, Zenon
<1> DEFINE T(k) == Total(Each(r, g, m, k))
           S == {k \in 0..n : sum[k] = T(k)}
<1>2. \A k \in 0..n : k \in Nat /\ Whole(Each(r, g, m, k), m)
  <2> TAKE k \in 0..n
  <2>1. k \in Nat
    BY <1>0, SMT
  <2> QED
    BY <1>0, <2>1, EachIsWhole, Zenon
<1>3. 0 \in S
  <2>1. 0 \in 0..n /\ 1..0 = {}
    BY <1>0, SMT
  <2> DEFINE e == Each(r, g, m, 0)
  <2>2. ASSUME NEW y \in 1..m PROVE e[y] = 0
    <3>1. At(r, 0, y) = {}
      BY <2>1, Zenon DEF At
    <3>2. Cardinality(At(r, 0, y)) = 0
      BY <3>1, FS_EmptySet, Zenon
    <3>3. e[y] = g[y] * 0 /\ g[y] \in Int
      BY <1>0, <3>2, Zenon DEF Each
    <3> HIDE DEF e
    <3> QED
      BY <3>3, SMT
  <2>3. Whole(e, m)
    BY <1>2, <2>1, Zenon
  <2> HIDE DEF e
  <2>4. Total(e) = 0
    BY <2>2, <2>3, Nothing, Zenon
  <2>5. sum[0] = 0
    BY <1>1, Zenon DEF Runs
  <2> QED
    BY <2>1, <2>4, <2>5, Zenon DEF e
<1>4. ASSUME NEW k \in 1..n, k - 1 \in S PROVE k \in S
  <2> DEFINE e == Each(r, g, m, k - 1)
             f == Each(r, g, m, k)
             y == r[k]
             c == Cardinality(At(r, k - 1, y))
  <2>1. k - 1 \in 0..n /\ k \in 0..n /\ k \in Nat /\ k > 0 /\ k - 1 \in Nat
    BY <1>0, SMT
  <2>2. Whole(e, m) /\ Whole(f, m)
    BY <1>2, <2>1, Zenon
  <2>3. y \in 1..m /\ g[y] \in Int /\ c \in Nat
    BY <1>0, <2>1, AtFacts, Zenon
  <2>4. f[y] = g[y] * (c + 1) /\ e[y] = g[y] * c
    BY <2>1, <2>3, OnePlaceMore, Zenon DEF Each
  <2>5. ASSUME NEW h \in 1..m, h # y PROVE f[h] = e[h]
    <3>1. At(r, k, h) = At(r, k - 1, h)
      BY <2>1, <2>5, OnePlaceMore, Zenon
    <3>2. f[h] = g[h] * Cardinality(At(r, k, h)) /\ e[h] = g[h] * Cardinality(At(r, k - 1, h))
      BY Zenon DEF Each
    <3> QED
      BY <3>1, <3>2, Zenon
  <2> HIDE DEF e, f
  <2>10. SameBut(f, e, y, m)
    BY <2>5, Zenon DEF SameBut
  <2>6. Total(f) = Total(e) + (f[y] - e[y]) /\ Total(e) \in Int
    BY <2>2, <2>3, <2>10, Changed, Zenon
  <2>7. sum[k] = sum[k - 1] + v[k] /\ sum[k - 1] = Total(e) /\ v[k] = g[y]
    BY <1>0, <1>1, <1>4, Zenon DEF Runs, e
  <2> HIDE DEF y, c
  <2>8. f[y] - e[y] = g[y]
    BY <2>3, <2>4, SMT
  <2>9. sum[k] = Total(f)
    BY <2>6, <2>7, <2>8, Zenon
  <2> QED
    BY <2>1, <2>9, Zenon DEF f
<1>5. n \in 0..n
  BY <1>0, SMT
<1> HIDE DEF S
<1>6. n \in S
  <2>1. \A k \in 0..n : k \in S
    BY <1>0, <1>3, <1>4, Inductive, Zenon
  <2> QED
    BY <1>5, <2>1, Zenon
<1> QED
  BY <1>1, <1>6, Zenon DEF S

\* Two lists in which each value occurs as often have the same sum.
AsOften(q, r, m, n) ==
  \A y \in 1..m : Cardinality(At(q, n, y)) = Cardinality(At(r, n, y))

LEMMA SameSum ==
  ASSUME NEW n, NEW m, NEW q, NEW r, NEW g, NEW u, NEW v,
         ByValue(u, q, g, m, n), ByValue(v, r, g, m, n), AsOften(q, r, m, n)
  PROVE  Total(u) = Total(v)
<1>1. Total(u) = Total(Each(q, g, m, n))
  BY Grouped, Zenon
<1>2. Total(v) = Total(Each(r, g, m, n))
  BY Grouped, Zenon
<1>3. Each(q, g, m, n) = Each(r, g, m, n)
  BY Zenon DEF Each, AsOften
<1> QED
  BY <1>1, <1>2, <1>3, Zenon

(***************************************************************************)
(* The deviation.  Sorting rearranges: a duration that has B below it and  *)
(* U up to it has the places B+1..U, as many as it had before.             *)
(***************************************************************************)
LEMMA Occurrences ==
  ASSUME NEW x, NEW n, NEW s, Durations(x, n), Ranked(s, x, n), NEW d \in Nat
  PROVE  Cardinality(At(s, n, d)) = Cardinality(At(x, n, d))
<1>1. /\ DOMAIN x = 1..n /\ \A k \in 1..n : x[k] \in Nat
      /\ n \in Nat /\ n > 0
  BY DurationFacts, Zenon
<1>2. \A j \in 1..n : /\ s[j] \in Range(x) /\ s[j] \in Nat
                      /\ Cardinality(Below(x, s[j])) < j /\ j <= Cardinality(UpTo(x, s[j]))
  BY Zenon DEF Ranked
<1>3. CASE d \notin Range(x)
  <2>1. {j \in 1..n : s[j] = d} = {} /\ {j \in 1..n : x[j] = d} = {}
    BY <1>1, <1>2, <1>3, Zenon DEF Range
  <2> QED
    BY <2>1, Zenon DEF At
<1>4. CASE d \in Range(x)
  <2> DEFINE B == Below(x, d)
             U == UpTo(x, d)
             low == Cardinality(B)
             high == Cardinality(U)
  <2>1. B \in SUBSET (1..n) /\ U \in SUBSET (1..n)
    BY <1>1, Zenon DEF Below, UpTo
  <2>2. \A c \in Nat : c < d => c <= d
    BY SMT
  <2>3. B \in SUBSET U
    BY <1>1, <2>2, Zenon DEF Below, UpTo
  <2>4. low \in Nat /\ high \in Nat /\ low <= high /\ high <= n
    BY <1>1, <2>1, <2>3, Counted, Zenon
  <2>5. {j \in 1..n : x[j] = d} = U \ B
    <3>1. \A c \in Nat : c = d <=> c <= d /\ ~(c < d)
      BY SMT
    <3> QED
      BY <1>1, <3>1, Zenon DEF Below, UpTo
  <2>6. Cardinality(U \ B) = high - low
    <3>1. IsFiniteSet(U) /\ U \cap B = B
      BY <1>1, <2>1, <2>3, Counted, Zenon
    <3> HIDE DEF U, B
    <3>2. Cardinality(U \ B) = Cardinality(U) - Cardinality(U \cap B)
      BY <3>1, FS_Difference, Zenon
    <3> QED
      BY <3>1, <3>2, Zenon
  <2>7. ASSUME NEW j \in 1..n, s[j] = d PROVE j \in (low + 1)..high
    <3>1. low < j /\ j <= high
      BY <1>2, <2>7, Zenon
    <3> HIDE DEF low, high
    <3> QED
      BY <1>1, <2>4, <3>1, SMT
  <2>8. ASSUME NEW j \in (low + 1)..high PROVE j \in 1..n /\ s[j] = d
    <3>1. j \in 1..n /\ j \in Nat /\ low < j /\ j <= high
      <4> HIDE DEF low, high
      <4> QED
        BY <1>1, <2>4, SMT
    <3> DEFINE e == s[j]
               lowE == Cardinality(Below(x, e))
               highE == Cardinality(UpTo(x, e))
    <3>2. e \in Nat /\ lowE < j /\ j <= highE
      BY <1>2, <3>1, Zenon
    <3>3. Below(x, e) \in SUBSET (1..n) /\ UpTo(x, e) \in SUBSET (1..n)
      BY <1>1, Zenon DEF Below, UpTo
    <3>4. lowE \in Nat /\ highE \in Nat
      BY <1>1, <3>3, Counted, Zenon
    <3> HIDE DEF e
    <3>5. ASSUME e < d PROVE FALSE
      <4>1. \A c \in Nat : c <= e => c < d
        BY <3>2, <3>5, SMT
      <4>2. UpTo(x, e) \in SUBSET B
        BY <1>1, <4>1, Zenon DEF Below, UpTo
      <4>3. highE <= low
        BY <1>1, <2>1, <4>2, Counted, Zenon
      <4> HIDE DEF low, highE
      <4> QED
        BY <2>4, <3>1, <3>2, <3>4, <4>3, SMT
    <3>6. ASSUME d < e PROVE FALSE
      <4>1. \A c \in Nat : c <= d => c < e
        BY <3>2, <3>6, SMT
      <4>2. U \in SUBSET Below(x, e)
        BY <1>1, <4>1, Zenon DEF Below, UpTo
      <4>3. high <= lowE
        BY <1>1, <3>3, <4>2, Counted, Zenon
      <4> HIDE DEF high, lowE
      <4> QED
        BY <2>4, <3>1, <3>2, <3>4, <4>3, SMT
    <3>7. e = d
      BY <3>2, <3>5, <3>6, SMT
    <3> QED
      BY <3>1, <3>7, Zenon DEF e
  <2>9. {j \in 1..n : s[j] = d} = (low + 1)..high
    BY <2>7, <2>8, Zenon
  <2>10. Cardinality((low + 1)..high) = high - low
    <3> HIDE DEF low, high
    <3>1. low + 1 \in Int /\ high \in Int
      BY <2>4, SMT
    <3> DEFINE from == low + 1
               count == IF from > high THEN 0 ELSE high - from + 1
    <3>2. count = high - low /\ from \in Int
      BY <2>4, SMT
    <3> HIDE DEF from
    <3>3. Cardinality(from..high) = count
      BY <3>1, <3>2, FS_Interval, Zenon
    <3> HIDE DEF count
    <3>4. Cardinality(from..high) = high - low
      BY <3>2, <3>3, Zenon
    <3> QED
      BY <3>4, Zenon DEF from
  <2> QED
    BY <2>5, <2>6, <2>9, <2>10, Zenon DEF At
<1> QED
  BY <1>3, <1>4, Zenon

\* So that a sum over the sorted durations is one over the durations.
Of(u, s, v, x, h, n) ==
  /\ Whole(u, n) /\ Whole(v, n) /\ h \in [Nat -> Int]
  /\ \A k \in 1..n : u[k] = h[s[k]] /\ v[k] = h[x[k]]

LEMMA Rearranged ==
  ASSUME NEW x, NEW n, NEW s, Durations(x, n), Ranked(s, x, n), NEW h,
         NEW u, NEW v, Of(u, s, v, x, h, n)
  PROVE  Total(u) = Total(v)
<1>0. /\ Whole(u, n) /\ Whole(v, n) /\ h \in [Nat -> Int]
      /\ \A k \in 1..n : u[k] = h[s[k]] /\ v[k] = h[x[k]]
  BY Zenon DEF Of
<1>1. /\ DOMAIN x = 1..n /\ (\A k \in 1..n : x[k] \in Nat)
      /\ n \in Nat /\ n > 0 /\ 1 \in 1..n
  BY DurationFacts, Zenon
<1>2. \A k \in 1..n : s[k] \in Range(x) /\ s[k] \in Nat
  BY Zenon DEF Ranked
<1>3. PICK l \in 1..n : \A k \in 1..n : x[k] <= x[l]
  BY <1>1, Longest, Zenon
<1> DEFINE m == x[l] + 1
           g == [y \in 1..m |-> h[y - 1]]
           q == [k \in 1..n |-> s[k] + 1]
           r == [k \in 1..n |-> x[k] + 1]
<1>4. \A c \in Nat : c <= x[l] => c + 1 \in 1..m /\ (c + 1) - 1 = c
  BY <1>1, SMT
<1>5. m \in Nat /\ \A y \in 1..m : y - 1 \in Nat /\ y = (y - 1) + 1
  BY <1>1, SMT
<1>6. \A k \in 1..n : s[k] <= x[l]
  <2> TAKE k \in 1..n
  <2> DEFINE e == s[k]
  <2>1. e \in Range(x)
    BY <1>2, Zenon
  <2> HIDE DEF e
  <2>2. PICK j \in 1..n : e = x[j]
    BY <1>1, <2>1, Zenon DEF Range
  <2>3. e <= x[l]
    BY <1>3, <2>2, Zenon
  <2> QED
    BY <2>3, Zenon DEF e
<1> HIDE DEF m
<1>7. \A y \in 1..m : g[y] = h[y - 1] /\ g[y] \in Int
  BY <1>0, <1>5, Zenon
<1>8. ByValue(u, q, g, m, n)
  <2>1. ASSUME NEW k \in 1..n PROVE q[k] \in 1..m /\ u[k] = g[q[k]]
    <3>1. q[k] = s[k] + 1
      BY Zenon
    <3>2. s[k] + 1 \in 1..m /\ (s[k] + 1) - 1 = s[k]
      BY <1>2, <1>4, <1>6, Zenon
    <3>3. g[s[k] + 1] = h[s[k]]
      BY <3>2, Zenon
    <3> QED
      BY <1>0, <3>1, <3>2, <3>3, Zenon
  <2> HIDE DEF g, q
  <2> QED
    BY <1>0, <1>5, <1>7, <2>1, Zenon DEF ByValue
<1>9. ByValue(v, r, g, m, n)
  <2>1. ASSUME NEW k \in 1..n PROVE r[k] \in 1..m /\ v[k] = g[r[k]]
    <3>1. r[k] = x[k] + 1
      BY Zenon
    <3>2. x[k] + 1 \in 1..m /\ (x[k] + 1) - 1 = x[k]
      BY <1>1, <1>3, <1>4, Zenon
    <3>3. g[x[k] + 1] = h[x[k]]
      BY <3>2, Zenon
    <3> QED
      BY <1>0, <3>1, <3>2, <3>3, Zenon
  <2> HIDE DEF g, r
  <2> QED
    BY <1>0, <1>5, <1>7, <2>1, Zenon DEF ByValue
<1>10. ASSUME NEW y \in 1..m PROVE Cardinality(At(q, n, y)) = Cardinality(At(r, n, y))
  <2> DEFINE d == y - 1
  <2>1. d \in Nat /\ y = d + 1
    BY <1>5, Zenon
  <2> HIDE DEF d
  <2>2. \A c \in Nat : c + 1 = y <=> c = d
    BY <2>1, SMT
  <2>3. At(q, n, y) = At(s, n, d)
    BY <1>2, <2>2, Zenon DEF At
  <2>4. At(r, n, y) = At(x, n, d)
    BY <1>1, <2>2, Zenon DEF At
  <2>5. Cardinality(At(s, n, d)) = Cardinality(At(x, n, d))
    BY <2>1, Occurrences, Zenon
  <2> HIDE DEF q, r
  <2> QED
    BY <2>3, <2>4, <2>5, Zenon
<1> HIDE DEF g, q, r
<1>11. AsOften(q, r, m, n)
  BY <1>10, Zenon DEF AsOften
<1> QED
  BY <1>8, <1>9, <1>11, SameSum, Zenon

LEMMA Summed ==
  ASSUME NEW n, NEW v, Whole(v, n)
  PROVE  Total(v) \in Int
<1>1. PICK sum : Runs(sum, v, n) /\ Total(v) = sum[n]
  BY TotalIs, Zenon
<1>2. n \in 0..n
  BY SMT DEF Whole
<1> QED
  BY <1>1, <1>2, Zenon DEF Runs

LEMMA OnlyOne ==
  ASSUME NEW n, NEW v, Whole(v, n), n = 1
  PROVE  Total(v) = v[1]
<1>1. PICK sum : Runs(sum, v, n) /\ Total(v) = sum[n]
  BY TotalIs, Zenon
<1>2. sum[0] = 0 /\ \A j \in 1..n : sum[j] = sum[j - 1] + v[j]
  BY <1>1, Zenon DEF Runs
<1>3. v[1] \in Int /\ 1 \in 1..n /\ 1 - 1 = 0
  BY SMT DEF Whole
<1> QED
  BY <1>1, <1>2, <1>3, SMT

\* A square, multiplied out, and the squares, collected.
LEMMA Squared ==
  ASSUME NEW p \in Int, NEW q \in Int, NEW m \in Int
  PROVE  /\ (m * p - q) * (m * p - q) = (m * m) * (p * p) + -(2 * (m * q)) * p + q * q
         /\ (m * p - q) * (m * p - q) \in Int
BY SMT

LEMMA Collected ==
  ASSUME NEW S \in Int, NEW Q \in Int, NEW n \in Int
  PROVE  /\ n * Q + -(2 * S) * S + Q * n = 2 * (n * Q) - 2 * (S * S)
         /\ 2 * ((n * n) * Q + -(2 * (n * S)) * S + (S * S) * n)
              = n * (2 * (n * Q) - 2 * (S * S))
BY SMT

\* What one duration is from all the others, by the sum S and the sum of squares Q.
Gap(p, S, Q, n) == n * (p * p) + -(2 * S) * p + Q

\* What Lagrange's identity says of a sum and a sum of squares.
LEMMA Lagrange ==
  ASSUME NEW n, NEW x, NEW s, Whole(x, n), Whole(s, n), n > 0, Total(s) = Total(x),
         Total([j \in 1..n |-> s[j] * s[j]]) = Total([j \in 1..n |-> x[j] * x[j]])
  PROVE  2 * calculateStdDev(s) = n * Total([a \in DOMAIN x |-> Apart(x, a)])
<1>1. /\ n \in Nat /\ Len(s) = n /\ DOMAIN s = 1..n /\ DOMAIN x = 1..n
      /\ \A k \in 1..n : x[k] \in Int /\ s[k] \in Int
  BY SMT DEF Whole
<1> DEFINE sq == [j \in 1..n |-> s[j] * s[j]]
           xq == [j \in 1..n |-> x[j] * x[j]]
           S == Total(x)
           Q == Total(xq)
           apart == [a \in 1..n |-> Apart(x, a)]
<1>2. Whole(sq, n) /\ Whole(xq, n)
  <2>1. \A j \in 1..n : sq[j] \in Int /\ xq[j] \in Int
    BY <1>1, SMT
  <2>2. /\ DOMAIN sq = 1..n /\ sq = [j \in 1..n |-> sq[j]]
        /\ DOMAIN xq = 1..n /\ xq = [j \in 1..n |-> xq[j]]
    BY Zenon
  <2> HIDE DEF sq, xq
  <2> QED
    BY <1>1, <2>1, <2>2, Listed, Zenon
<1>3. \A j \in 1..n : sq[j] = s[j] * s[j] /\ xq[j] = x[j] * x[j]
  BY Zenon
<1>4. Total(s) = S /\ Total(sq) = Q
  BY Zenon
<1> HIDE DEF sq, xq
<1>5. S \in Int /\ Q \in Int
  BY <1>2, Summed, Zenon
<1> HIDE DEF S, Q
\* How far one is from the others.
<1>6. ASSUME NEW a \in 1..n
      PROVE  Apart(x, a) = Gap(x[a], S, Q, n) /\ Apart(x, a) \in Int
  <2> DEFINE p == x[a]
             z == [b \in 1..n |-> (p - x[b]) * (p - x[b])]
             one == 1
             t == -(2 * p)
             c == p * p
  <2>1. Apart(x, a) = Total(z) /\ p \in Int
    BY <1>1, Zenon DEF Apart
  <2> HIDE DEF p
  <2>2. one \in Int /\ t \in Int /\ c \in Int
    BY <2>1, SMT
  <2>3. ASSUME NEW b \in 1..n PROVE z[b] \in Int /\ z[b] = one * xq[b] + t * x[b] + c
    <3> DEFINE r == x[b]
    <3>1. z[b] = (p - r) * (p - r) /\ r \in Int /\ xq[b] = r * r
      BY <1>1, <1>3, Zenon
    <3>2. x[b] = r
      BY Zenon
    <3> HIDE DEF z, r
    <3>3. (p - r) * (p - r) = one * (r * r) + t * r + c /\ (p - r) * (p - r) \in Int
      BY <2>1, <3>1, SMT
    <3> QED
      BY <3>1, <3>2, <3>3, SMT
  <2>4. DOMAIN z = 1..n /\ z = [b \in 1..n |-> z[b]]
    BY Zenon
  <2>5. one * Q + t * S + c * n = Gap(p, S, Q, n)
    BY <1>1, <1>5, <2>1, SMT DEF Gap
  <2> HIDE DEF z, one, t, c
  <2>6. Whole(z, n)
    BY <1>1, <2>3, <2>4, Listed, Zenon
  <2>7. Combines(z, xq, x, one, t, c, n)
    BY <1>2, <2>2, <2>3, <2>6, Zenon DEF Combines
  <2>8. Total(z) = one * Q + t * S + c * n /\ Total(z) \in Int
    BY <2>7, Linear, SMT DEF Q, S
  <2> QED
    BY <2>1, <2>5, <2>8, SMT DEF p
\* How far they all are from each other.
<1>7. Total(apart) = 2 * (n * Q) - 2 * (S * S)
  <2> DEFINE t == -(2 * S)
  <2>1. t \in Int /\ n \in Int
    BY <1>1, <1>5, SMT
  <2>2. ASSUME NEW a \in 1..n PROVE apart[a] \in Int /\ apart[a] = n * xq[a] + t * x[a] + Q
    <3>1. apart[a] = Apart(x, a) /\ xq[a] = x[a] * x[a]
      BY <1>3, Zenon
    <3> HIDE DEF apart
    <3>2. apart[a] = Gap(x[a], S, Q, n) /\ apart[a] \in Int
      BY <1>6, <3>1, Zenon
    <3>3. Gap(x[a], S, Q, n) = n * (x[a] * x[a]) + t * x[a] + Q
      <4> DEFINE p == x[a]
      <4>1. p \in Int
        BY <1>1, Zenon
      <4> HIDE DEF p
      <4>2. Gap(p, S, Q, n) = n * (p * p) + t * p + Q
        BY <1>5, <2>1, <4>1, SMT DEF Gap
      <4> QED
        BY <4>2, SMT DEF p
    <3> QED
      BY <3>1, <3>2, <3>3, SMT
  <2>3. DOMAIN apart = 1..n /\ apart = [a \in 1..n |-> apart[a]]
    BY Zenon
  <2>7. n * Q + t * S + Q * n = 2 * (n * Q) - 2 * (S * S)
    BY <1>5, <2>1, Collected, SMT
  <2> HIDE DEF apart, t
  <2>4. Whole(apart, n)
    BY <1>1, <2>2, <2>3, Listed, Zenon
  <2>5. Combines(apart, xq, x, n, t, Q, n)
    BY <1>2, <1>5, <2>1, <2>2, <2>4, Zenon DEF Combines
  <2>6. Total(apart) = n * Q + t * S + Q * n
    BY <2>5, Linear, SMT DEF Q, S
  <2> QED
    BY <2>6, <2>7, Zenon
<1>8. CASE Len(s) <= 1
  <2>1. calculateStdDev(s) = 0 /\ n = 1
    BY <1>1, <1>8, SMT DEF calculateStdDev
  <2>2. S = x[1] /\ Q = x[1] * x[1] /\ x[1] \in Int
    BY <1>1, <1>2, <1>3, <2>1, OnlyOne, SMT DEF S, Q
  <2>3. Total(apart) = 0
    BY <1>7, <2>1, <2>2, SMT
  <2> QED
    BY <1>1, <2>1, <2>3, SMT
<1>9. CASE ~(Len(s) <= 1)
  <2> DEFINE d == [j \in 1..n |-> (n * s[j] - S) * (n * s[j] - S)]
             e == n * n
             t == -(2 * (n * S))
             c == S * S
  <2>1. e \in Int /\ t \in Int /\ c \in Int
    BY <1>1, <1>5, SMT
  <2>2. ASSUME NEW j \in 1..n PROVE d[j] \in Int /\ d[j] = e * sq[j] + t * s[j] + c
    <3>1. n \in Int
      BY <1>1, SMT
    <3>2. /\ d[j] = (n * s[j] - S) * (n * s[j] - S) /\ s[j] \in Int
          /\ sq[j] = s[j] * s[j]
      BY <1>1, <1>3, Zenon
    <3> HIDE DEF d
    <3> QED
      BY <1>5, <3>1, <3>2, Squared, SMT
  <2>3. DOMAIN d = 1..n /\ d = [j \in 1..n |-> d[j]]
    BY Zenon
  <2>4. calculateStdDev(s) = Total(d)
    BY <1>1, <1>4, <1>9, Zenon DEF calculateStdDev, calculateAverage
  <2>8. 2 * (e * Q + t * S + c * n) = n * (2 * (n * Q) - 2 * (S * S))
    <3>1. n \in Int
      BY <1>1, SMT
    <3> QED
      BY <1>5, <3>1, Collected, SMT
  <2> HIDE DEF d, e, t, c
  <2>5. Whole(d, n)
    BY <1>1, <2>2, <2>3, Listed, Zenon
  <2>6. Combines(d, sq, s, e, t, c, n)
    BY <1>2, <2>1, <2>2, <2>5, Zenon DEF Combines
  <2>7. Total(d) = e * Q + t * S + c * n
    BY <1>4, <2>6, Linear, SMT
  <2> HIDE DEF apart
  <2>9. 2 * calculateStdDev(s) = n * Total(apart)
    BY <1>7, <2>4, <2>7, <2>8, Zenon
  <2> QED
    BY <1>1, <2>9, Zenon DEF apart
<1> QED
  BY <1>8, <1>9, Zenon

\* So the deviation of the sorted durations is that of the durations.
LEMMA DeviationIs ==
  ASSUME NEW x, NEW n, Durations(x, n)
  PROVE  2 * LineOf(x, n).sd = n * Total([a \in DOMAIN x |-> Apart(x, a)])
<1> DEFINE s == qsort(x)
           sq == [j \in 1..n |-> s[j] * s[j]]
           xq == [j \in 1..n |-> x[j] * x[j]]
<1>1. Ranked(s, x, n)
  BY SortRanks, Zenon
<1>2. LineOf(x, n).sd = calculateStdDev(s)
  BY Zenon DEF LineOf, calculateMedian
<1> HIDE DEF s
<1>3. /\ n \in Nat /\ n > 0 /\ \A k \in 1..n : x[k] \in Nat
      /\ DOMAIN x = 1..n /\ x \in Seq(Nat) /\ Len(x) = n
  BY DurationFacts, Zenon DEF Durations
<1>4. s \in Seq(Nat) /\ Len(s) = n /\ DOMAIN s = 1..n /\ \A k \in 1..n : s[k] \in Nat
  BY <1>1, Zenon DEF Ranked
<1>5. Whole(x, n) /\ Whole(s, n)
  <2>1. x \in Seq(Int) /\ s \in Seq(Int)
    BY <1>3, <1>4, SMT
  <2> QED
    BY <1>3, <1>4, <2>1, Zenon DEF Whole
<1>6. Total(s) = Total(x)
  <2> DEFINE h == [c \in Nat |-> c]
  <2>1. h \in [Nat -> Int]
    BY SMT
  <2>2. \A k \in 1..n : s[k] = h[s[k]] /\ x[k] = h[x[k]]
    BY <1>3, <1>4, Zenon
  <2> HIDE DEF h
  <2>3. Of(s, s, x, x, h, n)
    BY <1>5, <2>1, <2>2, Zenon DEF Of
  <2> QED
    BY <1>1, <2>3, Rearranged, SMT
<1>7. Total(sq) = Total(xq)
  <2> DEFINE h == [c \in Nat |-> c * c]
  <2>1. h \in [Nat -> Int]
    BY SMT
  <2>2. \A k \in 1..n : sq[k] = h[s[k]] /\ xq[k] = h[x[k]]
    BY <1>3, <1>4, Zenon
  <2>3. \A k \in 1..n : sq[k] \in Int /\ xq[k] \in Int
    BY <1>3, <1>4, SMT
  <2>4. /\ DOMAIN sq = 1..n /\ sq = [j \in 1..n |-> sq[j]]
        /\ DOMAIN xq = 1..n /\ xq = [j \in 1..n |-> xq[j]]
    BY Zenon
  <2> HIDE DEF h, sq, xq
  <2>5. Whole(sq, n) /\ Whole(xq, n)
    BY <1>3, <2>3, <2>4, Listed, Zenon
  <2>6. Of(sq, s, xq, x, h, n)
    BY <2>1, <2>2, <2>5, Zenon DEF Of
  <2> QED
    BY <1>1, <2>6, Rearranged, SMT
<1> QED
  BY <1>2, <1>3, <1>5, <1>6, <1>7, Lagrange, Zenon

\* For every number of tests and all durations: the deviation a printed line is computed
\* from is that of the durations its loop measured, whatever order qsort left them in.
THEOREM DeviationsAreTrue == Spec => []DeviationOfLoop
<1>1. BenchInv => DeviationOfLoop
  <2> SUFFICES ASSUME BenchInv PROVE DeviationOfLoop
    OBVIOUS
  <2>1. Reported(report, measured, test_number)
    BY Zenon DEF BenchInv
  <2>2. DOMAIN report = 1..Len(report)
    <3>1. PICK S : report \in Seq(S)
      BY <2>1, Zenon DEF Reported
    <3> QED
      BY <3>1, SMT
  <2>3. ASSUME NEW k \in DOMAIN report
        PROVE  2 * report[k].sd
                 = test_number * Total([a \in DOMAIN measured[k] |-> Apart(measured[k], a)])
    <3>1. /\ report[k] = LineOf(measured[k], test_number)
          /\ Durations(measured[k], test_number)
      BY <2>1, <2>2, Zenon DEF Reported
    <3> DEFINE x == measured[k]
    <3> HIDE DEF x
    <3>2. Durations(x, test_number)
      BY <3>1, Zenon DEF x
    <3>3. 2 * LineOf(x, test_number).sd = test_number * Total([a \in DOMAIN x |-> Apart(x, a)])
      BY <3>2, DeviationIs, Zenon
    <3> QED
      BY <3>1, <3>3, Zenon DEF x
  <2> QED
    BY <2>3, Zenon DEF DeviationOfLoop
<1> QED
  BY BenchInit, BenchStep, <1>1, PTL DEF Spec
=============================================================================
