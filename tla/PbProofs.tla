-------------------------------- MODULE PbProofs --------------------------------
(***************************************************************************)
(* What nanopb's varint loops and its field iterator do, for every value,  *)
(* every input and every message.                                          *)
(***************************************************************************)
EXTENDS PbVarint, PbIter, TLAPS, WellFoundedInduction, FiniteSetTheorems, SequenceTheorems

(***************************************************************************)
(* Induction up to n, and functions that are defined by it.                *)
(***************************************************************************)
LEMMA Least ==
  ASSUME NEW T \in SUBSET Nat, T # {}
  PROVE  \E m \in T : \A k \in T : m <= k
<1> DEFINE R == {ss \in Nat \X Nat : ss[1] < ss[2]}
<1>1. R = OpToRel(<, Nat)
  BY DEF OpToRel
<1>2. IsWellFoundedOn(R, Nat)
  BY <1>1, NatLessThanWellFounded, Zenon
<1>3. PICK x \in T : \A y \in T : ~ (<<y, x>> \in R)
  BY <1>2, WFMin, Zenon
<1>4. ASSUME NEW y \in T PROVE x <= y
  <2>1. x \in Nat /\ y \in Nat
    OBVIOUS
  <2>2. ~(y < x)
    BY <1>3, <2>1
  <2> QED
    BY <2>1, <2>2
<1> QED
  BY <1>4

LEMMA UpTo ==
  ASSUME NEW n \in Nat, NEW S, 0 \in S, \A k \in 1..n : k - 1 \in S => k \in S
  PROVE  \A k \in 0..n : k \in S
<1> DEFINE T == {k \in 0..n : k \notin S}
<1>1. SUFFICES ASSUME T # {} PROVE FALSE
  OBVIOUS
<1>2. T \in SUBSET Nat
  BY SMT
<1>3. PICK m \in T : \A k \in T : m <= k
  BY <1>1, <1>2, Least, Zenon
<1>4. m \in 0..n /\ m \notin S /\ m # 0
  BY <1>3, Zenon
<1>5. m \in 1..n /\ m - 1 \in 0..n /\ ~(m <= m - 1)
  BY <1>4, SMT
<1>6. m - 1 \in S
  BY <1>3, <1>5, Zenon
<1> QED
  BY <1>4, <1>5, <1>6, Zenon

\* f begins with a, and step makes each of its values of the one before.
Steps(f, step, a, n) == f[0] = a /\ \A i \in 1..n : f[i] = step[f[i - 1], i]

LEMMA StepsExist ==
  ASSUME NEW n \in Nat, NEW D, NEW a \in D, NEW step \in [D \X (1..n) -> D]
  PROVE  \E f \in [0..n -> D] : Steps(f, step, a, n)
<1> DEFINE S == {k \in 0..n : \E f \in [0..k -> D] : Steps(f, step, a, k)}
<1>1. 0 \in S
  <2> DEFINE f == [i \in 0..0 |-> a]
  <2>1. 0 \in 0..n /\ 0 \in 0..0 /\ 1..0 = {}
    BY SMT
  <2>2. f \in [0..0 -> D] /\ Steps(f, step, a, 0)
    BY <2>1, Zenon DEF Steps
  <2> HIDE DEF f
  <2> QED
    BY <2>1, <2>2, Zenon
<1>2. ASSUME NEW k \in 1..n, k - 1 \in S PROVE k \in S
  <2>1. PICK g \in [0..(k - 1) -> D] : Steps(g, step, a, k - 1)
    BY <1>2, Zenon
  <2> DEFINE f == [i \in 0..k |-> IF i = k THEN step[g[k - 1], k] ELSE g[i]]
  <2>2. /\ k \in Int /\ k \in 0..n /\ 0 \in 0..k /\ 0 # k /\ k \in 0..k /\ k - 1 \in 0..(k - 1)
        /\ \A i \in 0..k : i # k => i \in 0..(k - 1)
        /\ \A i \in 1..k : i - 1 \in 0..k /\ i - 1 # k /\ (i # k => i \in 1..(k - 1))
        /\ \A i \in 1..k : i \in 0..k
    BY SMT
  <2>3. g[k - 1] \in D
    BY <2>1, <2>2, Zenon
  <2>4. <<g[k - 1], k>> \in D \X (1..n)
    BY <2>3, Zenon
  <2>5. step[g[k - 1], k] \in D
    BY <2>4, Zenon
  <2>6. f \in [0..k -> D]
    BY <2>1, <2>2, <2>5, Zenon
  <2>7. f[0] = a
    BY <2>1, <2>2, Zenon DEF Steps
  <2>8. ASSUME NEW i \in 1..k PROVE f[i] = step[f[i - 1], i]
    <3>1. f[i - 1] = g[i - 1]
      BY <2>2, Zenon
    <3>2. CASE i = k
      BY <2>2, <3>1, <3>2, Zenon
    <3>3. CASE i # k
      BY <2>1, <2>2, <3>1, <3>3, Zenon DEF Steps
    <3> QED
      BY <3>2, <3>3, Zenon
  <2> HIDE DEF f
  <2>9. Steps(f, step, a, k)
    BY <2>7, <2>8, Zenon DEF Steps
  <2> QED
    BY <2>2, <2>6, <2>9, Zenon
<1> HIDE DEF S
<1>3. n \in S
  <2>1. n \in 0..n
    BY SMT
  <2>2. \A k \in 0..n : k \in S
    BY <1>1, <1>2, UpTo, Zenon
  <2> QED
    BY <2>1, <2>2, Zenon
<1> QED
  BY <1>3, Zenon DEF S

(***************************************************************************)
(* Powers of two.                                                          *)
(***************************************************************************)
LEMMA PowerIs ==
  /\ Power \in [0..31 -> Nat] /\ Power[0] = 1
  /\ \A n \in 1..31 : Power[n] = 2 * Power[n - 1]
<1> DEFINE step == [p \in Nat \X (1..31) |-> 2 * p[1]]
<1>1. step \in [Nat \X (1..31) -> Nat]
  BY SMT
<1>2. PICK f \in [0..31 -> Nat] : Steps(f, step, 1, 31)
  BY <1>1, StepsExist
<1>3. f[0] = 1 /\ \A n \in 1..31 : f[n] = 2 * f[n - 1]
  <2>1. ASSUME NEW n \in 1..31 PROVE f[n] = 2 * f[n - 1]
    <3>1. n - 1 \in 0..31
      BY SMT
    <3>2. <<f[n - 1], n>> \in Nat \X (1..31)
      BY <3>1, Zenon
    <3>3. step[f[n - 1], n] = 2 * f[n - 1]
      BY <3>2, Zenon
    <3> QED
      BY <1>2, <3>3, Zenon DEF Steps
  <2> QED
    BY <1>2, <2>1, Zenon DEF Steps
<1>4. f = [n \in 0..31 |-> IF n = 0 THEN 1 ELSE 2 * f[n - 1]]
  BY <1>3, SMT
<1>5. Power = [n \in 0..31 |-> IF n = 0 THEN 1 ELSE 2 * Power[n - 1]]
  BY <1>4, Zenon DEF Power
<1>6. ASSUME NEW g, g = [n \in 0..31 |-> IF n = 0 THEN 1 ELSE 2 * g[n - 1]] PROVE g = f
  <2> DEFINE S == {k \in 0..31 : g[k] = f[k]}
  <2>1. 0 \in S
    BY <1>3, <1>6, SMT
  <2>2. ASSUME NEW k \in 1..31, k - 1 \in S PROVE k \in S
    <3>1. k \in 0..31 /\ k # 0
      BY SMT
    <3>2. g[k] = 2 * g[k - 1]
      BY <1>6, <3>1, Zenon
    <3> QED
      BY <1>3, <2>2, <3>1, <3>2, Zenon
  <2>3. \A k \in 0..31 : k \in S
    <3> HIDE DEF S
    <3> QED
      BY <2>1, <2>2, UpTo
  <2>4. g = [k \in 0..31 |-> g[k]]
    BY <1>6, Zenon
  <2> QED
    BY <2>3, <2>4, SMT
<1>7. Power = f
  BY <1>5, <1>6, Zenon
<1> QED
  BY <1>3, <1>7, Zenon

LEMMA PowerPositive ==
  \A n \in 0..31 : Power[n] \in Nat /\ Power[n] >= 1
<1> DEFINE S == {n \in 0..31 : Power[n] >= 1}
<1>1. 0 \in S
  BY PowerIs
<1>2. ASSUME NEW n \in 1..31, n - 1 \in S PROVE n \in S
  BY <1>2, PowerIs
<1>3. \A n \in 0..31 : n \in S
  <2> HIDE DEF S
  <2> QED
    BY <1>1, <1>2, UpTo
<1> QED
  BY <1>3, PowerIs

LEMMA Powers ==
  /\ Power[0] = 1 /\ Power[1] = 2 /\ Power[2] = 4 /\ Power[3] = 8 /\ Power[4] = 16
  /\ Power[5] = 32 /\ Power[6] = 64 /\ Power[7] = 128 /\ Power[8] = 256 /\ Power[9] = 512
  /\ Power[10] = 1024 /\ Power[11] = 2048 /\ Power[12] = 4096 /\ Power[13] = 8192
  /\ Power[14] = 16384 /\ Power[15] = 32768 /\ Power[16] = 65536
BY PowerIs, SMT

(***************************************************************************)
(* Quotients, halves and bits.                                             *)
(***************************************************************************)
LEMMA Products ==
  ASSUME NEW d \in Nat, NEW p \in Int, NEW q \in Int, p < q
  PROVE  d * p + d <= d * q
<1>1. q - p - 1 \in Nat
  BY SMT
<1>2. d * (q - p - 1) >= 0
  BY <1>1, SMT
<1>3. d * (q - p - 1) = d * q - d * p - d
  BY SMT
<1>4. d * p \in Int /\ d * q \in Int
  BY SMT
<1> QED
  BY <1>2, <1>3, <1>4, SMT

LEMMA Quotient ==
  ASSUME NEW n \in Nat, NEW d \in Nat, d >= 1, NEW q \in Int, NEW r \in 0..(d - 1), n = d * q + r
  PROVE  n \div d = q /\ n % d = r
<1> DEFINE p == n \div d
           e == n % d
<1>1. p \in Int /\ e \in 0..(d - 1) /\ n = d * p + e
  BY SMT
<1> HIDE DEF p, e
<1>2. d * p \in Int /\ d * q \in Int
  BY <1>1, SMT
<1>3. ~(p < q)
  <2>1. p < q => d * p + d <= d * q
    BY <1>1, Products, Zenon
  <2> QED
    BY <1>1, <1>2, <2>1, SMT
<1>4. ~(q < p)
  <2>1. q < p => d * q + d <= d * p
    BY <1>1, Products, Zenon
  <2> QED
    BY <1>1, <1>2, <2>1, SMT
<1>5. p = q
  BY <1>1, <1>3, <1>4, SMT
<1>6. e = r
  BY <1>1, <1>2, <1>5, SMT
<1> QED
  BY <1>5, <1>6 DEF p, e

LEMMA Halves ==
  ASSUME NEW n \in Nat, NEW d \in Nat, d >= 1
  PROVE  /\ n \div (2 * d) = (n \div d) \div 2
         /\ n % (2 * d) = (n % d) + d * ((n \div d) % 2)
<1> DEFINE q == n \div d
           r == n % d
           h == q \div 2
           e == q % 2
<1>1. q \in Nat /\ r \in 0..(d - 1) /\ n = d * q + r
  BY SMT
<1>2. h \in Nat /\ e \in {0, 1} /\ q = 2 * h + e
  <2> HIDE DEF q
  <2> QED
    BY <1>1, SMT
<1> HIDE DEF q, r, h, e
<1>3. d * q = (2 * d) * h + d * e
  <2>1. d * q = d * (2 * h + e)
    BY <1>2, Zenon
  <2> QED
    BY <1>2, <2>1, SMT
<1>4. r + d * e \in 0..(2 * d - 1)
  BY <1>1, <1>2, SMT
<1>5. n = (2 * d) * h + (r + d * e) /\ 2 * d \in Nat /\ 2 * d >= 1
  <2>1. (2 * d) * h \in Int /\ d * e \in Int
    BY <1>2, SMT
  <2> QED
    BY <1>1, <1>3, <2>1, SMT
<1>6. n \div (2 * d) = h /\ n % (2 * d) = r + d * e
  <2>1. h \in Int
    BY <1>2, SMT
  <2> HIDE DEF h, r, e
  <2> DEFINE dd == 2 * d
             rr == r + d * e
  <2>2. dd \in Nat /\ dd >= 1 /\ rr \in 0..(dd - 1) /\ n = dd * h + rr
    BY <1>4, <1>5
  <2> HIDE DEF dd, rr
  <2>3. n \div dd = h /\ n % dd = rr
    BY <2>1, <2>2, Quotient
  <2> QED
    BY <2>3 DEF dd, rr
<1> QED
  BY <1>6 DEF q, r, h, e

LEMMA Shift ==
  ASSUME NEW n \in Nat, NEW a \in Nat, NEW b \in 0..31, a + b <= 31
  PROVE  (n \div Power[a]) \div Power[b] = n \div Power[a + b]
<1> DEFINE S == {k \in 0..b : (n \div Power[a]) \div Power[k] = n \div Power[a + k]}
<1>0. /\ a \in 0..31 /\ b \in Nat /\ a + 0 = a
      /\ \A k \in 1..b : k \in 1..31 /\ k - 1 \in 0..31 /\ a + k \in 1..31 /\ a + (k - 1) \in 0..31
                        /\ (a + k) - 1 = a + (k - 1)
  BY SMT
<1>1. n \div Power[a] \in Nat
  BY <1>0, PowerPositive, SMT
<1>2. 0 \in S
  <2>1. (n \div Power[a]) \div 1 = n \div Power[a]
    <3> DEFINE q == n \div Power[a]
    <3> HIDE DEF q
    <3>1. q \in Nat => q \div 1 = q
      BY SMT
    <3> QED
      BY <1>1, <3>1 DEF q
  <2> QED
    BY <1>0, <2>1, PowerIs, SMT
<1>3. ASSUME NEW k \in 1..b, k - 1 \in S PROVE k \in S
  <2> DEFINE m == n \div Power[a]
             p == Power[k - 1]
             s == Power[a + (k - 1)]
  <2>1. p \in Nat /\ p >= 1 /\ s \in Nat /\ s >= 1
    BY <1>0, PowerPositive, Zenon
  <2>2. Power[k] = 2 * p /\ Power[a + k] = 2 * s
    BY <1>0, PowerIs, Zenon
  <2>3. m \div p = n \div s
    BY <1>3, Zenon
  <2> HIDE DEF m, p, s
  <2>4. m \div (2 * p) = (m \div p) \div 2 /\ n \div (2 * s) = (n \div s) \div 2
    BY <1>1, <2>1, Halves, Zenon DEF m
  <2>5. m \div Power[k] = n \div Power[a + k] /\ k \in 0..b
    <3>1. k \in 0..b
      BY SMT
    <3> QED
      BY <2>2, <2>3, <2>4, <3>1, Zenon
  <2> QED
    BY <2>5, Zenon DEF m
<1>4. \A k \in 0..b : k \in S
  <2> HIDE DEF S
  <2> QED
    BY <1>0, <1>2, <1>3, UpTo, Zenon
<1>5. b \in 0..b
  BY SMT
<1> QED
  BY <1>4, <1>5, Zenon

\* The number of the bits of w below k, for each k.
Numbered(f, w, width) ==
  /\ f \in [0..width -> Nat] /\ f[0] = 0
  /\ \A k \in 1..width : f[k] = f[k - 1] + (IF k - 1 \in w THEN Power[k - 1] ELSE 0)

LEMMA NumberIs ==
  ASSUME NEW w, NEW width \in 0..31
  PROVE  \E f : Numbered(f, w, width) /\ NumberOf(w, width) = f[width]
<1> DEFINE of(k) == IF k - 1 \in w THEN Power[k - 1] ELSE 0
           step == [p \in Nat \X (1..width) |-> p[1] + of(p[2])]
           below[k \in 0..width] == IF k = 0 THEN 0 ELSE below[k - 1] + (IF k - 1 \in w THEN Power[k - 1] ELSE 0)
<1>1. \A k \in 1..width : of(k) \in Nat /\ k - 1 \in 0..width /\ k \in 0..width /\ k # 0
  <2>1. \A k \in 1..width : k - 1 \in 0..31 /\ k - 1 \in 0..width /\ k \in 0..width /\ k # 0
    BY SMT
  <2> QED
    BY <2>1, PowerPositive, Zenon
<1>2. step \in [Nat \X (1..width) -> Nat] /\ width \in Nat
  <2> HIDE DEF of
  <2> QED
    BY <1>1, SMT
<1>3. PICK f \in [0..width -> Nat] : Steps(f, step, 0, width)
  <2> HIDE DEF step
  <2>1. 0 \in Nat
    BY SMT
  <2> QED
    BY <1>2, <2>1, StepsExist, Zenon
<1>4. ASSUME NEW k \in 1..width PROVE f[k] = f[k - 1] + of(k)
  <2>1. <<f[k - 1], k>> \in Nat \X (1..width)
    BY <1>1, Zenon
  <2>2. step[f[k - 1], k] = f[k - 1] + of(k)
    BY <2>1, Zenon
  <2> QED
    BY <1>3, <2>2, Zenon DEF Steps
<1>5. f = [k \in 0..width |-> IF k = 0 THEN 0 ELSE f[k - 1] + (IF k - 1 \in w THEN Power[k - 1] ELSE 0)]
  <2>1. \A k \in 0..width : k # 0 => k \in 1..width
    BY SMT
  <2>2. \A k \in 0..width : f[k] = IF k = 0 THEN 0 ELSE f[k - 1] + (IF k - 1 \in w THEN Power[k - 1] ELSE 0)
    BY <1>3, <1>4, <2>1, Zenon DEF Steps
  <2>3. f = [k \in 0..width |-> f[k]]
    BY Zenon
  <2> QED
    BY <2>2, <2>3, Zenon
<1>6. below = [k \in 0..width |-> IF k = 0 THEN 0 ELSE below[k - 1] + (IF k - 1 \in w THEN Power[k - 1] ELSE 0)]
  BY <1>5, Zenon
<1>7. NumberOf(w, width) = below[width]
  BY Zenon DEF NumberOf
<1> HIDE DEF below
<1>8. below[0] = 0 /\ \A k \in 1..width : below[k] = below[k - 1] + of(k)
  <2>1. 0 \in 0..width
    BY SMT
  <2> QED
    BY <1>1, <1>6, <2>1, Zenon
<1>9. \A k \in 0..width : below[k] \in Nat
  <2> DEFINE S == {k \in 0..width : below[k] \in Nat}
  <2>1. 0 \in S
    BY <1>8, SMT
  <2>2. ASSUME NEW k \in 1..width, k - 1 \in S PROVE k \in S
    <3> HIDE DEF of
    <3> QED
      BY <1>1, <1>8, <2>2, SMTT(30)
  <2> HIDE DEF S
  <2>3. \A k \in 0..width : k \in S
    BY <1>2, <2>1, <2>2, UpTo, Zenon
  <2> QED
    BY <2>3, Zenon DEF S
<1>10. below \in [0..width -> Nat]
  BY <1>6, <1>9, Zenon
<1> QED
  BY <1>7, <1>8, <1>10, Zenon DEF Numbered

LEMMA NumberOfBits ==
  ASSUME NEW w, NEW width \in 0..31, NEW n \in Nat, \A b \in 0..(width - 1) : b \in w <=> Bit(n, b)
  PROVE  NumberOf(w, width) = n % Power[width]
<1>1. PICK f : Numbered(f, w, width) /\ NumberOf(w, width) = f[width]
  BY NumberIs, Zenon
<1> DEFINE S == {k \in 0..width : f[k] = n % Power[k]}
<1>2. /\ width \in Nat /\ 0 \in 0..width /\ width \in 0..width
      /\ \A k \in 1..width : k \in 1..31 /\ k - 1 \in 0..31 /\ k - 1 \in 0..(width - 1) /\ k \in 0..width
  BY SMT
<1>3. 0 \in S
  <2>1. n % 1 = 0
    BY SMT
  <2> QED
    BY <1>1, <1>2, <2>1, PowerIs, Zenon DEF Numbered
<1>4. ASSUME NEW k \in 1..width, k - 1 \in S PROVE k \in S
  <2> DEFINE p == Power[k - 1]
             e == n \div p % 2
  <2>1. p \in Nat /\ p >= 1 /\ Power[k] = 2 * p
    BY <1>2, PowerIs, PowerPositive, Zenon
  <2>2. n % (2 * p) = (n % p) + p * e
    <3> HIDE DEF p
    <3> QED
      BY <2>1, Halves, Zenon
  <2>3. f[k] = (n % p) + (IF e = 1 THEN p ELSE 0)
    <3>1. f[k] = f[k - 1] + (IF k - 1 \in w THEN p ELSE 0)
      BY <1>1, Zenon DEF Numbered
    <3>2. k - 1 \in w <=> e = 1
      BY <1>2, Zenon DEF Bit
    <3> QED
      BY <1>4, <3>1, <3>2, Zenon
  <2>4. e \in {0, 1} /\ n % p \in Int
    <3> DEFINE q == n \div p
    <3>1. q \in Nat
      BY <2>1, SMT
    <3>2. q % 2 \in {0, 1}
      <4> HIDE DEF q
      <4> QED
        BY <3>1, SMT
    <3>3. n % p \in Int
      <4> HIDE DEF p
      <4> QED
        BY <2>1, SMT
    <3> QED
      BY <3>2, <3>3
  <2> HIDE DEF e, p
  <2>5. p * e = IF e = 1 THEN p ELSE 0
    BY <2>1, <2>4, SMT
  <2> QED
    BY <1>2, <2>1, <2>2, <2>3, <2>5, Zenon
<1>5. \A k \in 0..width : k \in S
  <2> HIDE DEF S
  <2> QED
    BY <1>2, <1>3, <1>4, UpTo, Zenon
<1> QED
  BY <1>1, <1>2, <1>5, Zenon

\* What is taken out of a word of fields.
LEMMA PartIs ==
  ASSUME NEW word, NEW shift \in Nat, NEW width \in 0..31, NEW n \in Nat,
         \A b \in word : b \in Nat,
         \A b \in 0..(width - 1) : b + shift \in word <=> Bit(n, b)
  PROVE  Part(word, shift, width) = n % Power[width]
<1> DEFINE w == {b - shift : b \in word}
<1>1. \A b \in 0..(width - 1) : b \in w <=> Bit(n, b)
  <2> TAKE b \in 0..(width - 1)
  <2>1. b \in w <=> b + shift \in word
    <3>1. \A c \in word : c - shift = b <=> c = b + shift
      BY SMT
    <3>2. (b + shift) - shift = b
      BY SMT
    <3> QED
      BY <3>1, <3>2, Zenon
  <2> QED
    BY <2>1, Zenon
<1> HIDE DEF w
<1>2. NumberOf(w, width) = n % Power[width]
  BY <1>1, NumberOfBits, Zenon
<1> QED
  BY <1>2, Zenon DEF Part, w

Octet == 0..255
HasMark(b) == b >= 128

LEMMA EightBits ==
  ASSUME NEW a \in {0, 1}, NEW b \in {0, 1}, NEW c \in {0, 1}, NEW d \in {0, 1},
         NEW e \in {0, 1}, NEW f \in {0, 1}, NEW g \in {0, 1}, NEW h \in {0, 1},
         NEW n, n = a + 2 * b + 4 * c + 8 * d + 16 * e + 32 * f + 64 * g + 128 * h
  PROVE  /\ Bit(n, 0) <=> a = 1
         /\ Bit(n, 1) <=> b = 1
         /\ Bit(n, 2) <=> c = 1
         /\ Bit(n, 3) <=> d = 1
         /\ Bit(n, 4) <=> e = 1
         /\ Bit(n, 5) <=> f = 1
         /\ Bit(n, 6) <=> g = 1
         /\ Bit(n, 7) <=> h = 1
<1>1. /\ n \div 1 = a + 2 * (b + 2 * c + 4 * d + 8 * e + 16 * f + 32 * g + 64 * h)
      /\ n \div 2 = b + 2 * (c + 2 * d + 4 * e + 8 * f + 16 * g + 32 * h)
      /\ n \div 4 = c + 2 * (d + 2 * e + 4 * f + 8 * g + 16 * h)
      /\ n \div 8 = d + 2 * (e + 2 * f + 4 * g + 8 * h)
      /\ n \div 16 = e + 2 * (f + 2 * g + 4 * h)
      /\ n \div 32 = f + 2 * (g + 2 * h)
      /\ n \div 64 = g + 2 * h
      /\ n \div 128 = h
  BY SMT
<1>2. \A i \in {0, 1}, j \in Int : (i + 2 * j) % 2 = i
  BY SMT
<1>3. \A k \in Int : k = 1 <=> k - 1 = 0
  BY SMT
<1> QED
  BY <1>1, <1>2, Powers, SMT DEF Bit

LEMMA ByteOfBits ==
  ASSUME NEW w
  PROVE  /\ ByteOf(w) \in Octet /\ ByteBits(ByteOf(w)) = w \cap 0..7
         /\ HasMark(ByteOf(w)) <=> 7 \in w
         /\ ByteOf(w) = 0 <=> w \cap 0..7 = {}
<1>1. PICK f : Numbered(f, w, 8) /\ NumberOf(w, 8) = f[8]
  BY NumberIs, SMT
<1> DEFINE e(b) == IF b \in w THEN 1 ELSE 0
<1>2. f[8] = e(0) + 2 * e(1) + 4 * e(2) + 8 * e(3) + 16 * e(4) + 32 * e(5) + 64 * e(6) + 128 * e(7)
  BY <1>1, Powers, SMT DEF Numbered
<1>3. ASSUME NEW b \in 0..7 PROVE Bit(f[8], b) <=> b \in w
  <2>1. b = 0 \/ b = 1 \/ b = 2 \/ b = 3 \/ b = 4 \/ b = 5 \/ b = 6 \/ b = 7
    BY SMT
  <2>2. \A c : e(c) \in {0, 1} /\ (e(c) = 1 <=> c \in w)
    BY SMT
  <2> HIDE DEF e
  <2>3. /\ Bit(f[8], 0) <=> e(0) = 1
        /\ Bit(f[8], 1) <=> e(1) = 1
        /\ Bit(f[8], 2) <=> e(2) = 1
        /\ Bit(f[8], 3) <=> e(3) = 1
        /\ Bit(f[8], 4) <=> e(4) = 1
        /\ Bit(f[8], 5) <=> e(5) = 1
        /\ Bit(f[8], 6) <=> e(6) = 1
        /\ Bit(f[8], 7) <=> e(7) = 1
    BY <1>2, <2>2, EightBits
  <2> QED
    BY <2>1, <2>2, <2>3, Zenon
<1>4. ByteBits(f[8]) = w \cap 0..7
  <2>1. 8 - 1 = 7
    BY SMT
  <2> QED
    BY <1>3, <2>1, Zenon DEF ByteBits, BitsOf
<1>5. f[8] \in Octet /\ (HasMark(f[8]) <=> 7 \in w) /\ (f[8] = 0 <=> \A b \in 0..7 : b \notin w)
  BY <1>2, SMT DEF Octet, HasMark
<1>6. (\A b \in 0..7 : b \notin w) <=> w \cap 0..7 = {}
  BY Zenon
<1>7. ByteOf(w) = f[8]
  BY <1>1, Zenon DEF ByteOf
<1> QED
  BY <1>4, <1>5, <1>6, <1>7

(***************************************************************************)
(* The encoder's loop.                                                     *)
(***************************************************************************)
LEMMA InShifted ==
  ASSUME NEW w, w \subseteq Nat, NEW n \in Nat, NEW x
  PROVE  x \in Shifted(w, n) <=> x \in Nat /\ x + n \in w
<1>1. \A b \in w : b \in Nat
  BY Zenon
<1>2. ASSUME NEW b \in w, b >= n PROVE b - n \in Nat /\ (b - n) + n = b
  BY <1>1, <1>2, SMT
<1>3. ASSUME x \in Nat, x + n \in w PROVE x + n >= n /\ (x + n) - n = x
  BY <1>3, SMT
<1>4. x \in Shifted(w, n) <=> \E b \in w : b >= n /\ x = b - n
  BY Zenon DEF Shifted
<1>5. x \in Shifted(w, n) => x \in Nat /\ x + n \in w
  BY <1>2, <1>4, Zenon
<1>6. x \in Nat /\ x + n \in w => x \in Shifted(w, n)
  BY <1>3, <1>4, Zenon
<1> QED
  BY <1>5, <1>6, Zenon

LEMMA NothingShifted ==
  ASSUME NEW w, w \subseteq Nat, NEW n \in Nat, Shifted(w, n) = {}
  PROVE  \A b \in w : b < n
<1>1. ASSUME NEW b \in w, ~(b < n) PROVE FALSE
  <2>1. b \in Nat
    BY <1>1, Zenon
  <2>2. b - n \in Nat /\ (b - n) + n = b
    BY <1>1, <2>1, SMT
  <2>3. (b - n) + n \in w
    BY <1>1, <2>2, Zenon
  <2>4. b - n \in Shifted(w, n)
    BY <2>2, <2>3, InShifted, Zenon
  <2> QED
    BY <2>4, Zenon
<1> QED
  BY <1>1, Zenon

LEMMA InMasked ==
  ASSUME NEW w, NEW n, NEW x
  PROVE  x \in Masked(w, n) <=> x \in w /\ x < n
BY Zenon DEF Masked

LEMMA ShiftedTwice ==
  ASSUME NEW w, w \subseteq Nat, NEW m \in Nat, NEW n \in Nat
  PROVE  Shifted(w, m) \subseteq Nat /\ Shifted(Shifted(w, m), n) = Shifted(w, m + n)
<1>1. Shifted(w, m) \subseteq Nat /\ m + n \in Nat
  <2>1. \A x : x \in Shifted(w, m) => x \in Nat
    BY InShifted, Zenon
  <2>2. m + n \in Nat
    BY SMT
  <2> QED
    BY <2>1, <2>2, Zenon
<1>2. ASSUME NEW x PROVE x \in Shifted(Shifted(w, m), n) <=> x \in Shifted(w, m + n)
  <2>1. x \in Shifted(Shifted(w, m), n) <=> x \in Nat /\ x + n \in Nat /\ (x + n) + m \in w
    BY <1>1, InShifted, Zenon
  <2>2. x \in Shifted(w, m + n) <=> x \in Nat /\ x + (m + n) \in w
    BY <1>1, InShifted, Zenon
  <2>3. x \in Nat => x + n \in Nat /\ (x + n) + m = x + (m + n)
    BY SMT
  <2> QED
    BY <2>1, <2>2, <2>3, Zenon
<1> QED
  BY <1>1, <1>2, Zenon

\* The value's group k, and that it has bits from there on.
GroupOf(k) == Masked(Shifted(value, 7 * k), 7)
Beyond(k) == \E b \in value : b >= 7 * k

LEMMA InGroup ==
  ASSUME value \subseteq 0..63, NEW k \in Nat, NEW x
  PROVE  x \in GroupOf(k) <=> x \in 0..6 /\ x + 7 * k \in value
<1>1. value \subseteq Nat /\ 7 * k \in Nat
  BY SMT
<1>2. x \in GroupOf(k) <=> (x \in Nat /\ x + 7 * k \in value) /\ x < 7
  <2>1. x \in Shifted(value, 7 * k) <=> x \in Nat /\ x + 7 * k \in value
    BY <1>1, InShifted, Zenon
  <2>2. x \in GroupOf(k) <=> x \in Shifted(value, 7 * k) /\ x < 7
    BY InMasked, Zenon DEF GroupOf
  <2> QED
    BY <2>1, <2>2, Zenon
<1>3. x \in Nat /\ x < 7 <=> x \in 0..6
  BY SMT
<1> QED
  BY <1>2, <1>3, Zenon

LEMMA InLow ==
  ASSUME value \subseteq 0..63, NEW k \in Nat, NEW x
  PROVE  x \in Shifted(LowWord(value), k) <=> x \in Nat /\ x + k \in value /\ x + k < 32
<1>1. LowWord(value) \subseteq Nat
  <2>1. value \subseteq Nat
    BY SMT
  <2>2. LowWord(value) \subseteq value
    BY InMasked, Zenon DEF LowWord
  <2> QED
    BY <2>1, <2>2, Zenon
<1>2. x \in Shifted(LowWord(value), k) <=> x \in Nat /\ x + k \in LowWord(value)
  BY <1>1, InShifted, Zenon
<1> QED
  BY <1>2, InMasked, Zenon DEF LowWord

\* What was put out is the value's groups, with the marks.
Marking ==
  \A i \in 1..Len(put) : ByteBits(put[i]) = GroupOf(i - 1) \cup {7} /\ HasMark(put[i])

Starting == pc = "start" /\ put = <<>>
InLowWord ==
  /\ pc = "low" /\ Len(put) <= 4 /\ Marking /\ Beyond(Len(put))
  /\ byte = Masked(Shifted(LowWord(value), 7 * Len(put)), 7)
  /\ low = Shifted(LowWord(value), 7 * Len(put) + 7)
  /\ high = Shifted(value, 32)
InHighWord ==
  /\ pc = "high" /\ Len(put) <= 9 /\ Marking /\ Beyond(Len(put))
  /\ byte = GroupOf(Len(put))
  /\ high = Shifted(value, 7 * Len(put) + 7)

EncoderInv ==
  op = "encode" =>
    /\ value \subseteq 0..63 /\ pos = 0 /\ put \in Seq(Octet)
    /\ \/ Starting
       \/ InLowWord
       \/ InHighWord
       \/ pc = "done" /\ PutsGroups

LEMMA MarkedByte ==
  ASSUME value \subseteq 0..63, NEW k \in Nat, byte = GroupOf(k)
  PROVE  /\ Marked(byte) \in Octet /\ HasMark(Marked(byte))
         /\ ByteBits(Marked(byte)) = GroupOf(k) \cup {7}
<1>1. \A x \in byte : x \in 0..7
  <2>1. \A x \in 0..6 : x \in 0..7
    BY SMT
  <2> QED
    BY <2>1, InGroup, Zenon
<1>2. (byte \cup {7}) \cap 0..7 = byte \cup {7}
  <2>1. 7 \in 0..7
    BY SMT
  <2> QED
    BY <1>1, <2>1, Zenon
<1> QED
  BY <1>2, ByteOfBits, Zenon DEF Marked

LEMMA MarkingOn ==
  ASSUME value \subseteq 0..63, put \in Seq(Octet), Marking, byte = GroupOf(Len(put)),
         put' = Append(put, Marked(byte)), UNCHANGED value
  PROVE  /\ put' \in Seq(Octet) /\ Len(put') = Len(put) + 1
         /\ Marking'
<1>0. Len(put) \in Nat
  BY SMT
<1>1. /\ Marked(byte) \in Octet /\ HasMark(Marked(byte))
      /\ ByteBits(Marked(byte)) = GroupOf(Len(put)) \cup {7}
  BY <1>0, MarkedByte, Zenon
<1>2. /\ put' \in Seq(Octet) /\ Len(put') = Len(put) + 1
      /\ put'[Len(put) + 1] = Marked(byte) /\ \A i \in 1..Len(put) : put'[i] = put[i]
  <2> DEFINE m == Marked(byte)
  <2>1. m \in Octet
    BY <1>1
  <2> HIDE DEF m
  <2>2. put' = Append(put, m)
    BY DEF m
  <2>3. /\ put' \in Seq(Octet) /\ Len(put') = Len(put) + 1
        /\ put'[Len(put) + 1] = m /\ \A i \in 1..Len(put) : put'[i] = put[i]
    BY <2>1, <2>2, SMT
  <2> QED
    BY <2>3 DEF m
<1>3. \A i \in 1..Len(put') : i \in 1..Len(put) \/ (i = Len(put) + 1 /\ i - 1 = Len(put))
  BY <1>0, <1>2, SMT
<1>4. \A k : GroupOf(k)' = GroupOf(k)
  BY Zenon DEF GroupOf
<1>5. ASSUME NEW i \in 1..Len(put') PROVE ByteBits(put'[i]) = GroupOf(i - 1) \cup {7} /\ HasMark(put'[i])
  BY <1>1, <1>2, <1>3, Zenon DEF Marking
<1> QED
  BY <1>2, <1>4, <1>5, Zenon DEF Marking

LEMMA EncoderStarts == VarintInit => EncoderInv
<1> SUFFICES ASSUME VarintInit, op = "encode" PROVE EncoderInv
  BY Zenon DEF EncoderInv
<1>1. pc = "start" /\ put = <<>> /\ pos = 0 /\ value \in Values
  BY Zenon DEF VarintInit, Blank
<1>2. value \subseteq 0..63
  BY <1>1, VarintAssumption, Zenon
<1>3. put \in Seq(Octet)
  BY <1>1, SMT
<1> QED
  BY <1>1, <1>2, <1>3, Zenon DEF EncoderInv, Starting

LEMMA StartKeeps ==
  ASSUME op = "encode", EncoderInv, Start
  PROVE  EncoderInv'
<1>1. /\ value \subseteq 0..63 /\ pos = 0 /\ put = <<>> /\ pc = "start"
      /\ op' = op /\ value' = value /\ pos' = pos
  BY Zenon DEF EncoderInv, Start, Starting, InLowWord, InHighWord
<1>2. \A k : GroupOf(k)' = GroupOf(k)
  BY <1>1, Zenon DEF GroupOf
<1>3. CASE value \subseteq 0..6
  <2>1. put' = <<ByteOf(value)>> /\ pc' = "done"
    BY <1>1, <1>3, Zenon DEF Start
  <2>2. /\ ByteOf(value) \in Octet /\ ByteBits(ByteOf(value)) = value \cap 0..7
        /\ HasMark(ByteOf(value)) <=> 7 \in value
    BY ByteOfBits, Zenon
  <2>3. put' \in Seq(Octet) /\ Len(put') = 1 /\ put'[1] = ByteOf(value) /\ 1..1 = {1} /\ 1 - 1 = 0
    <3> DEFINE b == ByteOf(value)
    <3>1. b \in Octet /\ put' = <<b>>
      BY <2>1, <2>2
    <3> HIDE DEF b
    <3>2. put' \in Seq(Octet) /\ Len(put') = 1 /\ put'[1] = b /\ 1..1 = {1} /\ 1 - 1 = 0
      BY <3>1, SMT
    <3> QED
      BY <3>2 DEF b
  <2>4. \A x \in 0..6 : x \in Nat /\ x + 7 * 0 = x /\ x # 7 /\ x \in 0..7
    BY SMT
  <2>5. 7 \notin value
    BY <1>3, <2>4, Zenon
  <2>6. (value \cap 0..7) \cap 0..6 = GroupOf(0)
    <3>1. \A x : x \in GroupOf(0) <=> x \in 0..6 /\ x + 7 * 0 \in value
      BY <1>1, InGroup
    <3> QED
      BY <2>4, <3>1, Zenon
  <2>7. PutsGroups'
    <3>1. \A i \in 1..Len(put') :
             /\ ByteBits(put'[i]) \cap 0..6 = GroupOf(i - 1)
             /\ put'[i] >= 128 <=> i < Len(put')
      <4>1. ~(1 < 1)
        BY SMT
      <4>2. /\ ByteBits(put'[1]) \cap 0..6 = GroupOf(0) /\ ~HasMark(put'[1])
        BY <2>2, <2>3, <2>5, <2>6, Zenon
      <4> QED
        BY <2>3, <4>1, <4>2, Zenon DEF HasMark
    <3>2. value \subseteq 0..(7 * Len(put') - 1)
      <4>1. 0..(7 * 1 - 1) = 0..6
        BY SMT
      <4> QED
        BY <1>3, <2>3, <4>1, Zenon
    <3>3. ~(Len(put') > 1)
      BY <2>3, SMT
    <3> QED
      BY <1>1, <3>1, <3>2, <3>3, Zenon DEF PutsGroups, GroupOf
  <2> QED
    BY <1>1, <2>1, <2>3, <2>7, Zenon DEF EncoderInv
<1>4. CASE ~(value \subseteq 0..6)
  <2>1. /\ put' = <<>> /\ pc' = "low" /\ byte' = Masked(value, 7)
        /\ low' = Shifted(LowWord(value), 7) /\ high' = Shifted(value, 32)
    BY <1>1, <1>4, Zenon DEF Start
  <2>2. /\ put' \in Seq(Octet) /\ Len(put') = 0 /\ 0 <= 4 /\ 7 * 0 + 7 = 7 /\ 7 * 0 = 0
        /\ \A i \in 1..0 : FALSE
    BY <2>1, SMT
  <2>3. Marking'
    BY <2>2, Zenon DEF Marking
  <2>4. Beyond(0)'
    <3>1. \A x \in 0..63 : x >= 7 * 0
      BY SMT
    <3>2. PICK b \in value : b \notin 0..6
      BY <1>4, Zenon
    <3> QED
      BY <1>1, <3>1, <3>2, Zenon DEF Beyond
  <2>5. Masked(value, 7) = Masked(Shifted(LowWord(value), 7 * 0), 7)
    <3>1. \A x : x \in Shifted(LowWord(value), 0) <=> x \in Nat /\ x + 0 \in value /\ x + 0 < 32
      <4>1. 0 \in Nat
        BY SMT
      <4> QED
        BY <1>1, <4>1, InLow, Zenon
    <3>2. \A x \in value : x \in Nat /\ x + 0 = x /\ (x < 7 => x + 0 < 32)
      BY <1>1, SMT
    <3>3. \A x \in Nat : x + 0 = x
      BY SMT
    <3>4. \A x : x \in Masked(value, 7) <=> x \in Masked(Shifted(LowWord(value), 0), 7)
      <4> TAKE x
      <4>1. x \in Masked(value, 7) <=> x \in value /\ x < 7
        BY InMasked, Zenon
      <4>2. x \in Masked(Shifted(LowWord(value), 0), 7) <=> x \in Shifted(LowWord(value), 0) /\ x < 7
        BY InMasked, Zenon
      <4> QED
        BY <3>1, <3>2, <3>3, <4>1, <4>2, Zenon
    <3> QED
      BY <2>2, <3>4, Zenon
  <2>6. InLowWord'
    BY <1>1, <2>1, <2>2, <2>3, <2>4, <2>5, Zenon DEF InLowWord
  <2> QED
    BY <1>1, <2>2, <2>6, Zenon DEF EncoderInv
<1> QED
  BY <1>3, <1>4

LEMMA LowKeeps ==
  ASSUME op = "encode", EncoderInv, Low
  PROVE  EncoderInv'
<1> DEFINE k == Len(put)
<1>1. /\ value \subseteq 0..63 /\ pos = 0 /\ put \in Seq(Octet) /\ InLowWord /\ LowGoes
      /\ op' = op /\ pc' = pc /\ value' = value /\ pos' = pos /\ high' = high
      /\ put' = Append(put, Marked(byte)) /\ byte' = Masked(low, 7) /\ low' = Shifted(low, 7)
  BY Zenon DEF EncoderInv, Low, Starting, InHighWord
<1>2. k \in Nat /\ k < 4 /\ k + 1 <= 4 /\ 7 * k \in Nat /\ 7 * k + 7 \in Nat /\ 7 * (k + 1) = 7 * k + 7
  BY <1>1, SMT DEF LowGoes
<1>3. byte = GroupOf(k)
  <2>1. \A x \in 0..6 : x + 7 * k < 32
    BY <1>2, SMT
  <2>2. \A x : x \in Nat /\ x < 7 <=> x \in 0..6
    BY SMT
  <2>3. \A x : x \in Shifted(LowWord(value), 7 * k) <=> x \in Nat /\ x + 7 * k \in value /\ x + 7 * k < 32
    BY <1>1, <1>2, InLow, Zenon
  <2>4. \A x : x \in byte <=> x \in Shifted(LowWord(value), 7 * k) /\ x < 7
    BY <1>1, InMasked, Zenon DEF InLowWord
  <2>5. \A x : x \in byte <=> x \in GroupOf(k)
    BY <1>1, <1>2, <2>1, <2>2, <2>3, <2>4, InGroup, Zenon
  <2> QED
    BY <2>5, Zenon
<1>4. put' \in Seq(Octet) /\ Len(put') = k + 1 /\ Marking'
  BY <1>1, <1>3, MarkingOn, Zenon DEF InLowWord
<1>5. low' = Shifted(LowWord(value), 7 * (k + 1) + 7)
  <2>1. LowWord(value) \subseteq Nat
    <3>1. value \subseteq Nat
      BY <1>1, SMT
    <3> QED
      BY <3>1, InMasked, Zenon DEF LowWord
  <2>2. 7 \in Nat
    BY SMT
  <2>3. low' = Shifted(LowWord(value), (7 * k + 7) + 7)
    BY <1>1, <1>2, <2>1, <2>2, ShiftedTwice, Zenon DEF InLowWord
  <2> QED
    BY <1>2, <2>3, Zenon
<1>6. Beyond(k + 1)
  <2>1. CASE low # {}
    <3>1. PICK x \in low : TRUE
      BY <2>1, Zenon
    <3>2. x \in Nat /\ x + (7 * k + 7) \in value
      BY <1>1, <1>2, <3>1, InLow, Zenon DEF InLowWord
    <3>3. x + (7 * k + 7) >= 7 * (k + 1)
      BY <1>2, <3>2, SMT
    <3> QED
      BY <3>2, <3>3, Zenon DEF Beyond
  <2>2. CASE high # {}
    <3>1. PICK x \in high : TRUE
      BY <2>2, Zenon
    <3>2. value \subseteq Nat /\ 32 \in Nat
      BY <1>1, SMT
    <3>3. x \in Nat /\ x + 32 \in value
      BY <1>1, <3>1, <3>2, InShifted, Zenon DEF InLowWord
    <3>4. x + 32 >= 7 * (k + 1)
      BY <1>2, <3>3, SMT
    <3> QED
      BY <3>3, <3>4, Zenon DEF Beyond
  <2> QED
    BY <1>1, <2>1, <2>2, Zenon DEF LowGoes
<1>7. InLowWord'
  <2>1. /\ pc' = "low" /\ high' = Shifted(value, 32)
        /\ byte' = Masked(Shifted(LowWord(value), 7 * (k + 1)), 7)
    BY <1>1, <1>2, Zenon DEF InLowWord
  <2> QED
    BY <1>1, <1>2, <1>4, <1>5, <1>6, <2>1, Zenon DEF InLowWord, Beyond
<1> QED
  BY <1>1, <1>4, <1>7, Zenon DEF EncoderInv

LEMMA JoinKeeps ==
  ASSUME op = "encode", EncoderInv, Join
  PROVE  EncoderInv'
<1>1. /\ value \subseteq 0..63 /\ pos = 0 /\ put \in Seq(Octet) /\ InLowWord /\ ~LowGoes /\ high # {}
      /\ op' = op /\ pc' = "high" /\ value' = value /\ pos' = pos /\ put' = put
      /\ byte' = byte \cup {b + 4 : b \in Masked(high, 3)} /\ high' = Shifted(high, 3)
  BY Zenon DEF EncoderInv, Join, Starting, InHighWord
<1>2. Len(put) = 4 /\ 4 \in Nat /\ 4 <= 9 /\ 7 * 4 = 28 /\ 28 + 7 = 32 + 3 /\ 28 \in Nat /\ 32 \in Nat /\ 3 \in Nat
  <2>1. ~(Len(put) < 4) /\ Len(put) <= 4
    BY <1>1, Zenon DEF LowGoes, InLowWord
  <2>2. Len(put) \in Nat
    BY <1>1, SMT
  <2>3. \A n \in Nat : n <= 4 /\ ~(n < 4) => n = 4
    BY SMT
  <2>4. 4 \in Nat /\ 4 <= 9 /\ 7 * 4 = 28 /\ 28 + 7 = 32 + 3 /\ 28 \in Nat /\ 32 \in Nat /\ 3 \in Nat
    BY SMT
  <2> QED
    BY <2>1, <2>2, <2>3, <2>4, Zenon
<1>3. value \subseteq Nat
  BY <1>1, SMT
<1>4. high' = Shifted(value, 28 + 7)
  <2>1. Shifted(Shifted(value, 32), 3) = Shifted(value, 32 + 3)
    BY <1>2, <1>3, ShiftedTwice, Zenon
  <2>2. high' = Shifted(Shifted(value, 32), 3)
    BY <1>1, Zenon DEF InLowWord
  <2> QED
    BY <1>2, <2>1, <2>2, Zenon
<1>5. byte' = GroupOf(4)
  <2>1. \A x : x \in GroupOf(4) <=> x \in 0..6 /\ x + 28 \in value
    BY <1>1, <1>2, InGroup, Zenon
  <2>2. \A x : x \in Shifted(LowWord(value), 28) <=> x \in Nat /\ x + 28 \in value /\ x + 28 < 32
    BY <1>1, <1>2, InLow, Zenon
  <2>3. \A x : x \in byte <=> x \in Shifted(LowWord(value), 28) /\ x < 7
    BY <1>1, <1>2, InMasked, Zenon DEF InLowWord
  <2>4. \A x : x \in Masked(high, 3) <=> (x \in Nat /\ x + 32 \in value) /\ x < 3
    <3> TAKE x
    <3>1. x \in Shifted(value, 32) <=> x \in Nat /\ x + 32 \in value
      BY <1>2, <1>3, InShifted, Zenon
    <3>2. x \in Masked(high, 3) <=> x \in high /\ x < 3
      BY InMasked, Zenon
    <3>3. high = Shifted(value, 32)
      BY <1>1, Zenon DEF InLowWord
    <3> QED
      BY <3>1, <3>2, <3>3, Zenon
  <2>5. \A x : x \in {b + 4 : b \in Masked(high, 3)} <=> x \in 4..6 /\ x + 28 \in value
    <3>1. \A b \in Nat : b < 3 => b + 4 \in 4..6 /\ (b + 4) + 28 = b + 32
      BY SMT
    <3>2. \A x \in 4..6 : x - 4 \in Nat /\ x - 4 < 3 /\ (x - 4) + 32 = x + 28 /\ (x - 4) + 4 = x
      BY SMT
    <3>3. ASSUME NEW x \in {b + 4 : b \in Masked(high, 3)} PROVE x \in 4..6 /\ x + 28 \in value
      <4>1. PICK b \in Masked(high, 3) : x = b + 4
        BY <3>3, Zenon
      <4> QED
        BY <2>4, <3>1, <4>1, Zenon
    <3>4. ASSUME NEW x \in 4..6, x + 28 \in value PROVE x \in {b + 4 : b \in Masked(high, 3)}
      BY <2>4, <3>2, <3>4, Zenon
    <3> QED
      BY <3>3, <3>4, Zenon
  <2>6. \A x : x \in 0..6 <=> (x \in Nat /\ x + 28 < 32 /\ x < 7) \/ x \in 4..6
    BY SMT
  <2>7. \A x : x \in Nat /\ x + 28 < 32 => x < 7
    BY SMT
  <2>8. \A x : x \in byte' <=> x \in GroupOf(4)
    BY <1>1, <2>1, <2>2, <2>3, <2>5, <2>6, <2>7, Zenon
  <2> QED
    BY <2>8, Zenon
<1>6. InHighWord'
  <2>1. Marking' /\ Beyond(4)'
    BY <1>1, <1>2, Zenon DEF InLowWord, Marking, Beyond, GroupOf
  <2> QED
    BY <1>1, <1>2, <1>4, <1>5, <2>1, Zenon DEF InHighWord, GroupOf
<1> QED
  BY <1>1, <1>6, Zenon DEF EncoderInv

LEMMA HighKeeps ==
  ASSUME op = "encode", EncoderInv, High
  PROVE  EncoderInv'
<1> DEFINE k == Len(put)
<1>1. /\ value \subseteq 0..63 /\ pos = 0 /\ put \in Seq(Octet) /\ InHighWord /\ high # {}
      /\ op' = op /\ pc' = pc /\ value' = value /\ pos' = pos
      /\ put' = Append(put, Marked(byte)) /\ byte' = Masked(high, 7) /\ high' = Shifted(high, 7)
  BY Zenon DEF EncoderInv, High, Starting, InLowWord
<1>2. k \in Nat /\ 7 * k + 7 \in Nat /\ 7 * (k + 1) = 7 * k + 7 /\ 7 \in Nat /\ value \subseteq Nat
  <2>1. k \in Nat
    BY <1>1, SMT
  <2> HIDE DEF k
  <2> QED
    BY <1>1, <2>1, SMT
<1>3. put' \in Seq(Octet) /\ Len(put') = k + 1 /\ Marking'
  BY <1>1, MarkingOn, Zenon DEF InHighWord
<1>4. high' = Shifted(value, 7 * (k + 1) + 7)
  <2>1. Shifted(Shifted(value, 7 * k + 7), 7) = Shifted(value, (7 * k + 7) + 7)
    BY <1>2, ShiftedTwice, Zenon
  <2>2. high' = Shifted(Shifted(value, 7 * k + 7), 7)
    BY <1>1, Zenon DEF InHighWord
  <2> QED
    BY <1>2, <2>1, <2>2, Zenon
<1>5. PICK x : x \in Nat /\ x + (7 * k + 7) \in value
  <2>1. PICK x \in high : TRUE
    BY <1>1, Zenon
  <2> QED
    BY <1>1, <1>2, <2>1, InShifted, Zenon DEF InHighWord
<1>6. x + (7 * k + 7) >= 7 * (k + 1)
  <2> HIDE DEF k
  <2> QED
    BY <1>2, <1>5, SMT
<1>7. k + 1 <= 9
  <2>1. x + (7 * k + 7) \in 0..63
    BY <1>1, <1>5, Zenon
  <2> HIDE DEF k
  <2> QED
    BY <1>2, <1>5, <2>1, SMT
<1>8. byte' = GroupOf(k + 1)
  BY <1>1, <1>2, Zenon DEF InHighWord, GroupOf
<1>9. InHighWord'
  <2>1. pc' = "high"
    BY <1>1, Zenon DEF InHighWord
  <2>2. Beyond(k + 1)
    BY <1>5, <1>6, Zenon DEF Beyond
  <2> QED
    BY <1>1, <1>3, <1>4, <1>7, <1>8, <2>1, <2>2, Zenon DEF InHighWord, Beyond, GroupOf
<1> QED
  BY <1>1, <1>3, <1>9, Zenon DEF EncoderInv

\* The last byte carries no mark.
LEMMA LastByte ==
  ASSUME value \subseteq 0..63, put \in Seq(Octet), Marking, byte = GroupOf(Len(put)), Beyond(Len(put)),
         \A b \in value : b < 7 * Len(put) + 7,
         put' = Append(put, ByteOf(byte)), UNCHANGED value
  PROVE  put' \in Seq(Octet) /\ PutsGroups'
<1> DEFINE k == Len(put)
<1>1. k \in Nat
  BY SMT
<1>2. \A x : x \in byte <=> x \in 0..6 /\ x + 7 * k \in value
  BY <1>1, InGroup, Zenon
<1>3. ByteBits(ByteOf(byte)) = byte /\ ~HasMark(ByteOf(byte)) /\ ByteOf(byte) # 0 /\ ByteOf(byte) \in Octet
  <2>1. \A x \in 0..6 : x \in 0..7 /\ x # 7
    BY SMT
  <2>2. byte \cap 0..7 = byte /\ 7 \notin byte
    BY <1>2, <2>1, Zenon
  <2>3. byte # {}
    <3>1. PICK b \in value : b >= 7 * k
      BY Zenon DEF Beyond
    <3>2. b < 7 * k + 7
      BY <3>1, Zenon
    <3>3. b \in Nat
      BY <3>1, SMT
    <3>4. b - 7 * k \in 0..6 /\ (b - 7 * k) + 7 * k = b
      <4> HIDE DEF k
      <4> QED
        BY <1>1, <3>1, <3>2, <3>3, SMT
    <3>5. b - 7 * k \in byte
      BY <1>2, <3>1, <3>4, Zenon
    <3> QED
      BY <3>5, Zenon
  <2> QED
    BY <2>2, <2>3, ByteOfBits, Zenon
<1>4. /\ put' \in Seq(Octet) /\ Len(put') = k + 1
      /\ put'[k + 1] = ByteOf(byte) /\ \A i \in 1..k : put'[i] = put[i]
  <2> DEFINE m == ByteOf(byte)
  <2>1. m \in Octet
    BY <1>3
  <2> HIDE DEF m
  <2>2. put' = Append(put, m)
    BY DEF m
  <2>3. /\ put' \in Seq(Octet) /\ Len(put') = Len(put) + 1
        /\ put'[Len(put) + 1] = m /\ \A i \in 1..Len(put) : put'[i] = put[i]
    BY <2>1, <2>2, SMT
  <2> QED
    BY <2>3 DEF m
<1>5. \A i \in 1..Len(put') :
         /\ ByteBits(put'[i]) \cap 0..6 = GroupOf(i - 1)
         /\ HasMark(put'[i]) <=> i < Len(put')
  <2> TAKE i \in 1..Len(put')
  <2>1. (i \in 1..k /\ i < k + 1) \/ (i = k + 1 /\ i - 1 = k /\ ~(i < k + 1))
    <3> HIDE DEF k
    <3> QED
      BY <1>1, <1>4, SMT
  <2>2. CASE i \in 1..k /\ i < k + 1
    <3>1. i - 1 \in Nat
      <4> HIDE DEF k
      <4> QED
        BY <1>1, <2>2, SMT
    <3>2. \A x : x \in GroupOf(i - 1) <=> x \in 0..6 /\ x + 7 * (i - 1) \in value
      BY <3>1, InGroup, Zenon
    <3>3. 7 \notin 0..6
      BY SMT
    <3>4. (GroupOf(i - 1) \cup {7}) \cap 0..6 = GroupOf(i - 1)
      BY <3>2, <3>3, Zenon
    <3> QED
      BY <1>4, <2>2, <3>4, Zenon DEF Marking
  <2>3. CASE i = k + 1 /\ i - 1 = k /\ ~(i < k + 1)
    <3>1. byte \cap 0..6 = byte
      BY <1>2, Zenon
    <3>2. put'[i] = ByteOf(byte) /\ ~(i < Len(put')) /\ GroupOf(i - 1) = byte
      BY <1>4, <2>3, Zenon
    <3> QED
      BY <1>3, <3>1, <3>2, Zenon
  <2> QED
    BY <2>1, <2>2, <2>3, Zenon
<1>6. value \subseteq 0..(7 * Len(put') - 1)
  <2>1. \A b \in value : b \in Nat
    BY SMT
  <2>2. \A b \in value : b \in 0..(7 * (k + 1) - 1)
    <3> HIDE DEF k
    <3>1. \A b \in Nat : b < 7 * k + 7 => b \in 0..(7 * (k + 1) - 1)
      BY <1>1, SMT
    <3> QED
      BY <2>1, <3>1, Zenon DEF k
  <2> QED
    BY <1>4, <2>2, Zenon
<1>7. \A j : GroupOf(j)' = GroupOf(j)
  BY Zenon DEF GroupOf
<1> QED
  BY <1>3, <1>4, <1>5, <1>6, <1>7, Zenon DEF PutsGroups, HasMark, GroupOf

LEMMA PutLastKeeps ==
  ASSUME op = "encode", EncoderInv, PutLast
  PROVE  EncoderInv'
<1> DEFINE k == Len(put)
<1>1. /\ value \subseteq 0..63 /\ pos = 0 /\ put \in Seq(Octet) /\ high = {} /\ pc # "start" /\ pc # "done"
      /\ pc = "low" => ~LowGoes
      /\ op' = op /\ pc' = "done" /\ value' = value /\ pos' = pos /\ put' = Append(put, ByteOf(byte))
  BY Zenon DEF EncoderInv, PutLast
<1>2. k \in Nat /\ 7 * k \in Nat /\ 7 * k + 7 \in Nat /\ value \subseteq Nat
  <2>1. k \in Nat
    BY <1>1, SMT
  <2> HIDE DEF k
  <2> QED
    BY <1>1, <2>1, SMT
<1>3. /\ Marking /\ Beyond(k) /\ byte = GroupOf(k)
      /\ \A b \in value : b < 7 * k + 7
  <2>1. CASE InLowWord
    <3>1. \A b \in value : b < 32
      <4>1. Shifted(value, 32) = {}
        BY <1>1, <2>1, Zenon DEF InLowWord
      <4>2. 32 \in Nat
        BY SMT
      <4> QED
        BY <1>2, <4>1, <4>2, NothingShifted, Zenon
    <3>2. byte = GroupOf(k)
      <4>1. \A x : x \in Nat /\ x < 7 <=> x \in 0..6
        BY SMT
      <4>2. \A x : x \in Shifted(LowWord(value), 7 * k) <=> x \in Nat /\ x + 7 * k \in value /\ x + 7 * k < 32
        BY <1>1, <1>2, InLow, Zenon
      <4>3. \A x : x \in byte <=> x \in Shifted(LowWord(value), 7 * k) /\ x < 7
        BY <2>1, InMasked, Zenon DEF InLowWord
      <4>4. \A x : x \in byte <=> x \in GroupOf(k)
        BY <1>1, <1>2, <3>1, <4>1, <4>2, <4>3, InGroup, Zenon
      <4> QED
        BY <4>4, Zenon
    <3>3. \A b \in value : b < 7 * k + 7
      <4>1. CASE low = {}
        <5>1. Shifted(LowWord(value), 7 * k + 7) = {}
          BY <2>1, <4>1, Zenon DEF InLowWord
        <5>2. \A b \in value : b \in LowWord(value)
          BY <3>1, InMasked, Zenon DEF LowWord
        <5>3. LowWord(value) \subseteq Nat
          BY <1>2, InMasked, Zenon DEF LowWord
        <5> QED
          BY <1>2, <5>1, <5>2, <5>3, NothingShifted, Zenon
      <4>2. CASE low # {}
        <5>1. ~(k < 4)
          BY <1>1, <2>1, <4>2, Zenon DEF LowGoes, InLowWord
        <5>2. \A b \in Nat : b < 32 => b < 7 * k + 7
          <6> HIDE DEF k
          <6> QED
            BY <1>2, <5>1, SMT
        <5> QED
          BY <1>2, <3>1, <5>2, Zenon
      <4> QED
        BY <4>1, <4>2, Zenon
    <3> QED
      BY <2>1, <3>2, <3>3, Zenon DEF InLowWord
  <2>2. CASE InHighWord
    <3>1. Shifted(value, 7 * k + 7) = {}
      BY <1>1, <2>2, Zenon DEF InHighWord
    <3>2. \A b \in value : b < 7 * k + 7
      BY <1>2, <3>1, NothingShifted, Zenon
    <3> QED
      BY <2>2, <3>2, Zenon DEF InHighWord
  <2> QED
    BY <1>1, <2>1, <2>2, Zenon DEF EncoderInv, Starting
<1>4. put' \in Seq(Octet) /\ PutsGroups'
  BY <1>1, <1>3, LastByte, Zenon
<1> QED
  BY <1>1, <1>4, Zenon DEF EncoderInv

LEMMA EncoderOwn ==
  ASSUME op = "encode", EncoderInv
  PROVE  /\ ~Decoder
         /\ VarintNext => EncoderInv'
<1>1. ~Decoder
  <2>1. op # "decode" /\ op # "decode32"
    BY Zenon
  <2> QED
    BY <2>1, Zenon DEF Decoder, TooShort, Byte64, First32, Byte32, Decoding
<1> QED
  BY <1>1, StartKeeps, LowKeeps, JoinKeeps, HighKeeps, PutLastKeeps, Zenon DEF VarintNext, Encoder

(***************************************************************************)
(* Bytes and their bits.                                                   *)
(***************************************************************************)
OfBit(n, b) == IF b \in ByteBits(n) THEN 1 ELSE 0

LEMMA OctetIs ==
  ASSUME NEW n \in Octet
  PROVE  n = OfBit(n, 0) + 2 * OfBit(n, 1) + 4 * OfBit(n, 2) + 8 * OfBit(n, 3)
               + 16 * OfBit(n, 4) + 32 * OfBit(n, 5) + 64 * OfBit(n, 6) + 128 * OfBit(n, 7)
<1> DEFINE w == ByteBits(n)
<1>1. n \in Nat /\ 8 \in 0..31 /\ \A b \in 0..(8 - 1) : b \in w <=> Bit(n, b)
  <2>1. n \in Nat /\ 8 \in 0..31
    BY SMT DEF Octet
  <2> QED
    BY <2>1, Zenon DEF ByteBits, BitsOf
<1>2. NumberOf(w, 8) = n % Power[8]
  <2> HIDE DEF w
  <2> QED
    BY <1>1, NumberOfBits, Zenon
<1>3. n % Power[8] = n
  BY Powers, SMT DEF Octet
<1>4. PICK f : Numbered(f, w, 8) /\ NumberOf(w, 8) = f[8]
  BY <1>1, NumberIs, Zenon
<1> DEFINE e(b) == IF b \in w THEN 1 ELSE 0
<1>5. f[8] = e(0) + 2 * e(1) + 4 * e(2) + 8 * e(3) + 16 * e(4) + 32 * e(5) + 64 * e(6) + 128 * e(7)
  <2> HIDE DEF w
  <2> QED
    BY <1>4, Powers, SMT DEF Numbered
<1>6. \A b : e(b) = OfBit(n, b)
  BY Zenon DEF OfBit
<1> HIDE DEF e, w
<1>7. n = f[8]
  BY <1>2, <1>3, <1>4, Zenon
<1> QED
  BY <1>5, <1>6, <1>7, SMT

LEMMA OctetFacts ==
  ASSUME NEW n \in Octet
  PROVE  /\ ByteBits(n) \subseteq 0..7
         /\ HasMark(n) <=> 7 \in ByteBits(n)
         /\ n <= 1 <=> ByteBits(n) \subseteq {0}
         /\ n % 128 = 0 <=> Masked(ByteBits(n), 7) = {}
         /\ n = 255 <=> ByteBits(n) = 0..7
         /\ n = 1 <=> ByteBits(n) = {0}
         /\ n \div 16 \in {0, 8} <=> ByteBits(n) \cap {4, 5, 6} = {}
         /\ n \div 8 \in {15, 31} <=> {3, 4, 5, 6} \subseteq ByteBits(n)
         /\ n \div 8 % 2 = 1 <=> 3 \in ByteBits(n)
<1> DEFINE w == ByteBits(n)
<1>1. n = OfBit(n, 0) + 2 * OfBit(n, 1) + 4 * OfBit(n, 2) + 8 * OfBit(n, 3)
            + 16 * OfBit(n, 4) + 32 * OfBit(n, 5) + 64 * OfBit(n, 6) + 128 * OfBit(n, 7)
  BY OctetIs, Zenon
<1>2. \A b : OfBit(n, b) \in {0, 1} /\ (OfBit(n, b) = 1 <=> b \in w)
  BY SMT DEF OfBit
<1>3. w \subseteq 0..7
  <2>1. 8 - 1 = 7
    BY SMT
  <2> QED
    BY <2>1, Zenon DEF ByteBits, BitsOf
<1> DEFINE a == OfBit(n, 0)
           b == OfBit(n, 1)
           c == OfBit(n, 2)
           d == OfBit(n, 3)
           e == OfBit(n, 4)
           f == OfBit(n, 5)
           g == OfBit(n, 6)
           h == OfBit(n, 7)
<1>4. /\ n = a + 2 * b + 4 * c + 8 * d + 16 * e + 32 * f + 64 * g + 128 * h
      /\ a \in {0, 1} /\ b \in {0, 1} /\ c \in {0, 1} /\ d \in {0, 1}
      /\ e \in {0, 1} /\ f \in {0, 1} /\ g \in {0, 1} /\ h \in {0, 1}
      /\ (a = 1 <=> 0 \in w) /\ (b = 1 <=> 1 \in w) /\ (c = 1 <=> 2 \in w) /\ (d = 1 <=> 3 \in w)
      /\ (e = 1 <=> 4 \in w) /\ (f = 1 <=> 5 \in w) /\ (g = 1 <=> 6 \in w) /\ (h = 1 <=> 7 \in w)
  <2> HIDE DEF w
  <2> QED
    BY <1>1, <1>2
<1>5. \A x \in 0..7 : x = 0 \/ x = 1 \/ x = 2 \/ x = 3 \/ x = 4 \/ x = 5 \/ x = 6 \/ x = 7
  BY SMT
<1> HIDE DEF w, a, b, c, d, e, f, g, h
<1>6. HasMark(n) <=> h = 1
  BY <1>4, SMT DEF HasMark
<1>7. n <= 1 <=> b = 0 /\ c = 0 /\ d = 0 /\ e = 0 /\ f = 0 /\ g = 0 /\ h = 0
  BY <1>4, SMT
<1>8. n % 128 = 0 <=> a = 0 /\ b = 0 /\ c = 0 /\ d = 0 /\ e = 0 /\ f = 0 /\ g = 0
  <2>1. n % 128 = a + 2 * b + 4 * c + 8 * d + 16 * e + 32 * f + 64 * g
    BY <1>4, SMT
  <2> QED
    BY <1>4, <2>1, SMT
<1>9. n = 255 <=> a = 1 /\ b = 1 /\ c = 1 /\ d = 1 /\ e = 1 /\ f = 1 /\ g = 1 /\ h = 1
  BY <1>4, SMT
<1>10. n = 1 <=> a = 1 /\ b = 0 /\ c = 0 /\ d = 0 /\ e = 0 /\ f = 0 /\ g = 0 /\ h = 0
  BY <1>4, SMT
<1>11. n \div 16 \in {0, 8} <=> e = 0 /\ f = 0 /\ g = 0
  <2>1. n \div 16 = e + 2 * f + 4 * g + 8 * h
    BY <1>4, SMT
  <2> QED
    BY <1>4, <2>1, SMT
<1>12. n \div 8 \in {15, 31} <=> d = 1 /\ e = 1 /\ f = 1 /\ g = 1
  <2>1. n \div 8 = d + 2 * e + 4 * f + 8 * g + 16 * h
    BY <1>4, SMT
  <2> QED
    BY <1>4, <2>1, SMT
<1>13. n \div 8 % 2 = 1 <=> d = 1
  <2>1. n \div 8 = d + 2 * (e + 2 * f + 4 * g + 8 * h)
    BY <1>4, SMT
  <2> QED
    BY <1>4, <2>1, SMT
<1>14. \A z \in {0, 1} : z = 0 <=> z # 1
  BY SMT
<1>15. /\ 0 \in 0..7 /\ 1 \in 0..7 /\ 2 \in 0..7 /\ 3 \in 0..7
       /\ 4 \in 0..7 /\ 5 \in 0..7 /\ 6 \in 0..7 /\ 7 \in 0..7
       /\ 0 # 1 /\ 0 # 2 /\ 0 # 3 /\ 0 # 4 /\ 0 # 5 /\ 0 # 6 /\ 0 # 7
       /\ \A x \in 0..7 : x < 7 <=> x # 7
  BY SMT
<1>16. w \subseteq {0} <=> 1 \notin w /\ 2 \notin w /\ 3 \notin w /\ 4 \notin w /\ 5 \notin w /\ 6 \notin w /\ 7 \notin w
  BY <1>3, <1>5, <1>15, Zenon
<1>17. w = {0} <=> w \subseteq {0} /\ 0 \in w
  BY Zenon
<1>18. w = 0..7 <=> 0 \in w /\ 1 \in w /\ 2 \in w /\ 3 \in w /\ 4 \in w /\ 5 \in w /\ 6 \in w /\ 7 \in w
  BY <1>3, <1>5, <1>15, Zenon
<1>19. w \cap {4, 5, 6} = {} <=> 4 \notin w /\ 5 \notin w /\ 6 \notin w
  BY Zenon
<1>20. {3, 4, 5, 6} \subseteq w <=> 3 \in w /\ 4 \in w /\ 5 \in w /\ 6 \in w
  BY Zenon
<1>21. Masked(w, 7) = {} <=> 0 \notin w /\ 1 \notin w /\ 2 \notin w /\ 3 \notin w /\ 4 \notin w /\ 5 \notin w /\ 6 \notin w
  <2>1. \A x : x \in Masked(w, 7) <=> x \in w /\ x < 7
    BY InMasked, Zenon
  <2>2. \A x : x \in Masked(w, 7) <=> x \in w /\ x # 7
    BY <1>3, <1>15, <2>1, Zenon
  <2>3. 0 # 7 /\ 1 # 7 /\ 2 # 7 /\ 3 # 7 /\ 4 # 7 /\ 5 # 7 /\ 6 # 7
    BY SMT
  <2>4. ASSUME NEW x \in Masked(w, 7)
        PROVE  x = 0 \/ x = 1 \/ x = 2 \/ x = 3 \/ x = 4 \/ x = 5 \/ x = 6
    BY <1>3, <1>5, <2>2, Zenon
  <2> QED
    BY <2>2, <2>3, <2>4, Zenon
<1> QED
  BY <1>3, <1>4, <1>6, <1>7, <1>8, <1>9, <1>10, <1>11, <1>12, <1>13, <1>14, <1>16, <1>17, <1>18, <1>19, <1>20, <1>21 DEF w

(***************************************************************************)
(* Seven bits of each byte, and eight.                                     *)
(***************************************************************************)
LowByte(n) == n % 256
Joins(n, a, q) == n = a + 128 * q
Three(a, b, c) == a + 128 * b + 16384 * c
EightOf(a, b, c, s) == LowByte(Three(a, b, c) \div Power[s])
Small(a) == a \in Nat /\ a < 128
Adds(t, s, j) == t = s + j
StartsAt(i, first, p) == first = 8 * (i - 1) /\ p = first \div 7 + 1

LEMMA EightLow ==
  ASSUME NEW n \in Nat, NEW j \in 0..7
  PROVE  LowByte(n) \in Octet /\ (Bit(LowByte(n), j) <=> Bit(n, j))
<1> DEFINE a == n % 256
           q == n \div 256
<1>0. a \in 0..255 /\ q \in Nat /\ n = a + 256 * q
  BY SMT
<1> HIDE DEF a, q
<1>1. j = 0 \/ j = 1 \/ j = 2 \/ j = 3 \/ j = 4 \/ j = 5 \/ j = 6 \/ j = 7
  BY SMT
<1>2. \A m \in Nat, d \in Nat : (d + 2 * m) % 2 = d % 2
  BY SMT
<1>3. /\ n \div 1 = a \div 1 + 2 * (128 * q)
      /\ n \div 2 = a \div 2 + 2 * (64 * q)
      /\ n \div 4 = a \div 4 + 2 * (32 * q)
      /\ n \div 8 = a \div 8 + 2 * (16 * q)
      /\ n \div 16 = a \div 16 + 2 * (8 * q)
      /\ n \div 32 = a \div 32 + 2 * (4 * q)
      /\ n \div 64 = a \div 64 + 2 * (2 * q)
      /\ n \div 128 = a \div 128 + 2 * q
  BY <1>0, SMT
<1>4. \A d \in {1, 2, 4, 8, 16, 32, 64, 128} : a \div d \in Nat
  BY <1>0, SMT
<1>5. Bit(n, j) <=> Bit(a, j)
  BY <1>0, <1>1, <1>2, <1>3, <1>4, Powers, SMTT(30) DEF Bit
<1> QED
  BY <1>0, <1>5 DEF a, LowByte, Octet

LEMMA SevenLow ==
  ASSUME NEW a \in Nat, NEW q \in Nat, NEW n, Joins(n, a, q), NEW j \in 0..6
  PROVE  Bit(n, j) <=> Bit(a, j)
<1>0. n = a + 128 * q
  BY DEF Joins
<1>1. j = 0 \/ j = 1 \/ j = 2 \/ j = 3 \/ j = 4 \/ j = 5 \/ j = 6
  BY SMT
<1>2. \A m \in Nat, d \in Nat : (d + 2 * m) % 2 = d % 2
  BY SMT
<1>3. /\ n \div 1 = a \div 1 + 2 * (64 * q)
      /\ n \div 2 = a \div 2 + 2 * (32 * q)
      /\ n \div 4 = a \div 4 + 2 * (16 * q)
      /\ n \div 8 = a \div 8 + 2 * (8 * q)
      /\ n \div 16 = a \div 16 + 2 * (4 * q)
      /\ n \div 32 = a \div 32 + 2 * (2 * q)
      /\ n \div 64 = a \div 64 + 2 * q
  BY <1>0, SMT
<1>4. \A d \in {1, 2, 4, 8, 16, 32, 64} : a \div d \in Nat
  BY SMT
<1>5. /\ n \div 1 % 2 = a \div 1 % 2 /\ n \div 2 % 2 = a \div 2 % 2
      /\ n \div 4 % 2 = a \div 4 % 2 /\ n \div 8 % 2 = a \div 8 % 2
      /\ n \div 16 % 2 = a \div 16 % 2 /\ n \div 32 % 2 = a \div 32 % 2
      /\ n \div 64 % 2 = a \div 64 % 2
  BY <1>2, <1>3, <1>4, SMT
<1> QED
  BY <1>1, <1>5, Powers, SMT DEF Bit

LEMMA ShiftedBit ==
  ASSUME NEW n \in Nat, NEW s \in 0..13, NEW j \in 0..13
  PROVE  n \div Power[s] \in Nat /\ (Bit(n \div Power[s], j) <=> Bit(n, s + j))
<1>1. s \in Nat /\ s \in 0..31 /\ j \in 0..31 /\ s + j <= 31
  BY SMT
<1>2. (n \div Power[s]) \div Power[j] = n \div Power[s + j]
  BY <1>1, Shift, Zenon
<1>3. n \div Power[s] \in Nat
  <2> DEFINE p == Power[s]
  <2>1. p \in Nat /\ p >= 1
    BY <1>1, PowerPositive
  <2> HIDE DEF p
  <2>2. n \div p \in Nat
    BY <2>1, SMT
  <2> QED
    BY <2>2 DEF p
<1> QED
  BY <1>2, <1>3, Zenon DEF Bit

LEMMA Window ==
  ASSUME NEW a, Small(a), NEW b \in Nat, NEW c \in Nat, NEW s \in 0..6, NEW j \in 0..7, NEW t, Adds(t, s, j)
  PROVE  /\ EightOf(a, b, c, s) \in Octet
         /\ t < 7 => (Bit(EightOf(a, b, c, s), j) <=> Bit(a, t))
         /\ ~(t < 7) => (Bit(EightOf(a, b, c, s), j) <=> Bit(b, t - 7))
<1> DEFINE n == Three(a, b, c)
<1>0. a \in Nat /\ a < 128
  BY DEF Small
<1>1. /\ n \in Nat /\ n = a + 128 * (b + 128 * c) /\ n \div 128 = b + 128 * c /\ b + 128 * c \in Nat
  BY <1>0, SMT DEF Three
<1>2. s \in 0..13 /\ j \in 0..13 /\ t \in Int /\ t \in 0..13 /\ t = s + j
  BY SMT DEF Adds
<1> DEFINE m == n \div Power[s]
           k == b + 128 * c
<1>3. m \in Nat /\ (Bit(m, j) <=> Bit(n, t))
  BY <1>1, <1>2, ShiftedBit, Zenon
<1>4. k \in Nat /\ Joins(k, b, c) /\ Joins(n, a, k)
  BY <1>1 DEF Joins
<1>5. n \div Power[7] = k
  BY <1>1, Powers, SMT
<1> HIDE DEF m, k, n
<1>6. LowByte(m) \in Octet /\ (Bit(LowByte(m), j) <=> Bit(m, j))
  BY <1>3, EightLow, Zenon
<1>9. a \in Nat
  BY <1>0
<1>7. ASSUME t < 7 PROVE Bit(n, t) <=> Bit(a, t)
  <2>1. t \in 0..6
    BY <1>2, <1>7, SMT
  <2> QED
    BY <1>9, <1>4, <2>1, SevenLow, Zenon
<1>8. ASSUME ~(t < 7) PROVE Bit(n, t) <=> Bit(b, t - 7)
  <2> DEFINE u == t - 7
  <2>1. u \in 0..6 /\ 7 + u = t /\ 7 \in 0..13 /\ u \in 0..13
    BY <1>2, <1>8, SMT
  <2> HIDE DEF u
  <2>2. Bit(n \div Power[7], u) <=> Bit(n, 7 + u)
    BY <1>1, <2>1, ShiftedBit, ZenonT(40)
  <2>3. Bit(k, u) <=> Bit(b, u)
    BY <1>9, <1>4, <2>1, SevenLow, Zenon
  <2> QED
    BY <1>5, <2>1, <2>2, <2>3, Zenon DEF u
<1> QED
  BY <1>3, <1>6, <1>7, <1>8, Zenon DEF m, n, EightOf

\* What the first n bytes of the input say.
SaidBy(n) == UNION {{b + 7 * (i - 1) : b \in ByteBits(input[i]) \cap 0..6} : i \in 1..n}
Prefix(n) == SubSeq(input, 1, n)

LEMMA InSaid ==
  ASSUME NEW n \in Nat, NEW x
  PROVE  x \in SaidBy(n) <=> /\ x \in Nat /\ x \div 7 + 1 \in 1..n
                             /\ x % 7 \in ByteBits(input[x \div 7 + 1])
<1>1. ASSUME NEW i \in 1..n, NEW b \in 0..6
      PROVE  b + 7 * (i - 1) \in Nat /\ (b + 7 * (i - 1)) \div 7 + 1 = i /\ (b + 7 * (i - 1)) % 7 = b
  BY SMT
<1>2. ASSUME x \in Nat PROVE x % 7 \in 0..6 /\ x = (x % 7) + 7 * ((x \div 7 + 1) - 1)
  BY <1>2, SMT
<1>3. x \in SaidBy(n) <=> \E i \in 1..n : \E b \in ByteBits(input[i]) : b \in 0..6 /\ x = b + 7 * (i - 1)
  <2> DEFINE piece(i) == {b + 7 * (i - 1) : b \in ByteBits(input[i]) \cap 0..6}
  <2>1. \A i : x \in piece(i) <=> \E b \in ByteBits(input[i]) : b \in 0..6 /\ x = b + 7 * (i - 1)
    BY Zenon
  <2>2. SaidBy(n) = UNION {piece(i) : i \in 1..n}
    BY Zenon DEF SaidBy
  <2> HIDE DEF piece
  <2>3. x \in SaidBy(n) <=> \E i \in 1..n : x \in piece(i)
    BY <2>2, Zenon
  <2> QED
    BY <2>1, <2>3, Zenon
<1>4. x \in SaidBy(n) => /\ x \in Nat /\ x \div 7 + 1 \in 1..n
                         /\ x % 7 \in ByteBits(input[x \div 7 + 1])
  BY <1>1, <1>3, Zenon
<1>5. x \in Nat /\ x \div 7 + 1 \in 1..n /\ x % 7 \in ByteBits(input[x \div 7 + 1]) => x \in SaidBy(n)
  BY <1>2, <1>3, Zenon
<1> QED
  BY <1>4, <1>5, Zenon

LEMMA PrefixIs ==
  ASSUME input \in Seq(Octet), NEW n \in 0..Len(input)
  PROVE  Len(Prefix(n)) = n /\ \A i \in 1..n : Prefix(n)[i] = input[i] /\ input[i] \in Octet
BY SMT DEF Prefix

LEMMA ByteBit ==
  ASSUME NEW n \in Octet, NEW t \in 0..7
  PROVE  t \in ByteBits(n) <=> Bit(n, t)
<1>1. 8 - 1 = 7
  BY SMT
<1> QED
  BY <1>1, Zenon DEF ByteBits, BitsOf

LEMMA GroupBit ==
  ASSUME input \in Seq(Octet), NEW n \in 0..Len(input), NEW k \in Nat, k >= 1
  PROVE  /\ ByteAt(GroupsOf(Prefix(n)), k) \in Nat /\ ByteAt(GroupsOf(Prefix(n)), k) < 128
         /\ \A t \in 0..6 : Bit(ByteAt(GroupsOf(Prefix(n)), k), t) <=> k \in 1..n /\ t \in ByteBits(input[k])
<1> DEFINE g == GroupsOf(Prefix(n))
<1>1. g = [i \in 1..n |-> Prefix(n)[i] % 128]
  BY PrefixIs, Zenon DEF GroupsOf
<1>2. Len(g) = n
  BY <1>1, SMT
<1>3. CASE k \in 1..n
  <2>1. ByteAt(g, k) = input[k] % 128 /\ input[k] \in Octet
    <3>1. g[k] = input[k] % 128 /\ input[k] \in Octet
      <4> HIDE DEF g
      <4> QED
        BY <1>1, <1>3, PrefixIs, Zenon
    <3> QED
      BY <1>2, <1>3, <3>1, Zenon DEF ByteAt
  <2> DEFINE m == input[k]
             a == m % 128
             q == m \div 128
  <2>2. m \in Octet
    BY <2>1
  <2>3. m \in Nat /\ a \in Nat /\ a < 128 /\ q \in Nat /\ Joins(m, a, q)
    <3> HIDE DEF m
    <3> QED
      BY <2>2, SMT DEF Octet, Joins
  <2> HIDE DEF m, a, q
  <2>4. ASSUME NEW t \in 0..6 PROVE Bit(a, t) <=> t \in ByteBits(m)
    <3>1. t \in 0..7
      BY SMT
    <3>2. Bit(m, t) <=> Bit(a, t)
      BY <2>3, SevenLow, Zenon
    <3> QED
      BY <2>2, <3>1, <3>2, ByteBit, Zenon
  <2> QED
    BY <1>3, <2>1, <2>3, <2>4 DEF m, a
<1>4. CASE k \notin 1..n
  <2>1. ByteAt(g, k) = 0
    BY <1>2, <1>4, Zenon DEF ByteAt
  <2>2. ASSUME NEW t \in 0..6 PROVE ~Bit(0, t)
    <3>1. t = 0 \/ t = 1 \/ t = 2 \/ t = 3 \/ t = 4 \/ t = 5 \/ t = 6
      BY SMT
    <3>2. /\ 0 \div Power[0] % 2 # 1 /\ 0 \div Power[1] % 2 # 1 /\ 0 \div Power[2] % 2 # 1
          /\ 0 \div Power[3] % 2 # 1 /\ 0 \div Power[4] % 2 # 1 /\ 0 \div Power[5] % 2 # 1
          /\ 0 \div Power[6] % 2 # 1
      BY Powers, SMT
    <3> QED
      BY <3>1, <3>2, Zenon DEF Bit
  <2>3. 0 \in Nat /\ 0 < 128
    BY SMT
  <2> QED
    BY <1>4, <2>1, <2>2, <2>3
<1> QED
  BY <1>3, <1>4

LEMMA UngroupIs ==
  ASSUME NEW g, NEW n \in Nat, NEW i \in 1..n, NEW first, NEW p, StartsAt(i, first, p)
  PROVE  /\ Len(Ungroup(g, n)) = n
         /\ Ungroup(g, n)[i] =
              EightOf(ByteAt(g, p), ByteAt(g, p + 1), ByteAt(g, p + 2), first % 7)
<1>1. Ungroup(g, n)[i] =
        EightOf(ByteAt(g, p), ByteAt(g, p + 1), ByteAt(g, p + 2), first % 7)
  BY DEF Ungroup, LowByte, Three, EightOf, StartsAt
<1>2. Len(Ungroup(g, n)) = n
  BY SMT DEF Ungroup
<1> QED
  BY <1>1, <1>2

\* The low bytes of the number are the low bits that were said.
LEMMA Ungrouped ==
  ASSUME input \in Seq(Octet), NEW n \in 0..Len(input), NEW m \in Nat, NEW x
  PROVE  x \in MemoryBits(Ungroup(GroupsOf(Prefix(n)), m)) <=> x \in 0..(8 * m - 1) /\ x \in SaidBy(n)
<1> DEFINE g == GroupsOf(Prefix(n))
           v == Ungroup(g, m)
<1>1. Len(v) = m
  BY SMT DEF Ungroup
<1>2. x \in MemoryBits(v) <=> x \in 0..(8 * m - 1) /\ x % 8 \in ByteBits(v[x \div 8 + 1])
  BY <1>1, Zenon DEF MemoryBits
<1>3. ASSUME x \in 0..(8 * m - 1) PROVE x % 8 \in ByteBits(v[x \div 8 + 1]) <=> x \in SaidBy(n)
  <2> DEFINE i == x \div 8 + 1
             j == x % 8
             first == 8 * (i - 1)
             p == first \div 7 + 1
             s == first % 7
             t == s + j
  <2>1. /\ x \in Nat /\ i \in 1..m /\ j \in 0..7 /\ p \in Nat /\ p >= 1 /\ s \in 0..6 /\ t \in 0..13
        /\ t < 7 => t \in 0..6 /\ x \div 7 + 1 = p /\ x % 7 = t
        /\ ~(t < 7) => t - 7 \in 0..6 /\ x \div 7 + 1 = p + 1 /\ x % 7 = t - 7
    BY <1>3, SMT
  <2> DEFINE a == ByteAt(g, p)
             b == ByteAt(g, p + 1)
             c == ByteAt(g, p + 2)
  <2>2. v[i] = EightOf(a, b, c, s)
    <3>1. StartsAt(i, first, p) /\ s = first % 7
      BY DEF StartsAt
    <3>4. i \in 1..m
      BY <2>1
    <3> HIDE DEF i, g, first, p, s, a, b, c, v, j, t
    <3>3. Ungroup(g, m)[i] = EightOf(ByteAt(g, p), ByteAt(g, p + 1), ByteAt(g, p + 2), first % 7)
      BY <3>4, <3>1, UngroupIs, ZenonT(40)
    <3>2. v[i] = EightOf(ByteAt(g, p), ByteAt(g, p + 1), ByteAt(g, p + 2), first % 7)
      BY <3>3 DEF v
    <3> QED
      BY <3>1, <3>2, Zenon DEF a, b, c
  <2> HIDE DEF i, j, first, p, s
  <2>3. /\ a \in Nat /\ a < 128 /\ b \in Nat /\ c \in Nat
        /\ \A u \in 0..6 : Bit(a, u) <=> p \in 1..n /\ u \in ByteBits(input[p])
        /\ \A u \in 0..6 : Bit(b, u) <=> p + 1 \in 1..n /\ u \in ByteBits(input[p + 1])
    <3>1. p + 1 \in Nat /\ p + 1 >= 1 /\ p + 2 \in Nat /\ p + 2 >= 1
      BY <2>1, SMT
    <3> QED
      BY <2>1, <3>1, GroupBit, Zenon
  <2>4. Adds(t, s, j)
    BY DEF Adds
  <2> HIDE DEF a, b, c, t, v, g
  <2>5. /\ v[i] \in Octet
        /\ t < 7 => (Bit(v[i], j) <=> Bit(a, t))
        /\ ~(t < 7) => (Bit(v[i], j) <=> Bit(b, t - 7))
    <3>1. Small(a)
      BY <2>3 DEF Small
    <3>3. b \in Nat /\ c \in Nat /\ s \in 0..6 /\ j \in 0..7
      BY <2>1, <2>3
    <3>2. /\ EightOf(a, b, c, s) \in Octet
          /\ t < 7 => (Bit(EightOf(a, b, c, s), j) <=> Bit(a, t))
          /\ ~(t < 7) => (Bit(EightOf(a, b, c, s), j) <=> Bit(b, t - 7))
      BY <3>3, <2>4, <3>1, Window, Zenon
    <3> QED
      BY <2>2, <3>2, Zenon
  <2>6. Bit(v[i], j) <=> j \in ByteBits(v[i])
    BY <2>1, <2>5, ByteBit, Zenon
  <2>7. x \in SaidBy(n) <=> x \div 7 + 1 \in 1..n /\ x % 7 \in ByteBits(input[x \div 7 + 1])
    <3>1. n \in Nat
      BY SMT
    <3> QED
      BY <2>1, <3>1, InSaid, Zenon
  <2>8. j \in ByteBits(v[i]) <=> x \in SaidBy(n)
    BY <2>1, <2>3, <2>5, <2>6, <2>7, Zenon
  <2> QED
    BY <2>8 DEF i, j
<1> QED
  BY <1>2, <1>3, Zenon

(***************************************************************************)
(* The decoders.                                                           *)
(***************************************************************************)
Fifth(c) == c \cap {4, 5, 6} = {} \/ {3, 4, 5, 6} \subseteq c
Sixth(i, c) == Masked(c, 7) = {} \/ (3 \in ByteBits(input[5]) /\ c = IF i < 10 THEN 0..7 ELSE {0})

\* The i-th byte is one the decoder goes on from.
Good64(i) == i <= 10 /\ (i = 10 => ByteBits(input[i]) \subseteq {0})
Good32(i) == /\ i <= 10
             /\ i = 5 => Fifth(ByteBits(input[i]))
             /\ i > 5 => Sixth(i, ByteBits(input[i]))
Good(i) == IF op = "decode" THEN Good64(i) ELSE Good32(i)

Taken(n) == IF op = "decode" THEN SaidBy(n) ELSE Masked(SaidBy(n), 32)
MarkedTo(n) == \A i \in 1..n : HasMark(input[i]) /\ Good(i)

Known == op \in {"decode", "decode32"} /\ input \in Seq(Octet) /\ pos \in 0..Len(input)
Running ==
  /\ (pc = "first" /\ pos = 0) \/ (pc = "more" /\ pos >= 1)
  /\ bitpos = 7 * pos /\ MarkedTo(pos) /\ result = Taken(pos)
Finished ==
  /\ pc = "done" /\ pos >= 1 /\ MarkedTo(pos - 1)
  /\ Good(pos) /\ ~HasMark(input[pos]) /\ result = Taken(pos)
Ended == pc = "error" /\ MarkedTo(pos) /\ pos = Len(input)
Refused == pc = "error" /\ pos >= 1 /\ MarkedTo(pos - 1) /\ ~Good(pos)

DecoderInv == Known /\ (Running \/ Finished \/ Ended \/ Refused)

\* One more byte is read, and if it is good, what it says is taken.
OneMore ==
  /\ pos < Len(input) /\ pos' = pos + 1 /\ op' = op /\ input' = input
  /\ \/ ~Good(pos + 1) /\ pc' = "error"
     \/ Good(pos + 1) /\ Goes(Read) /\ bitpos' = 7 * (pos + 1) /\ result' = Taken(pos + 1)

LEMMA SaidNext ==
  ASSUME NEW n \in Nat, NEW x
  PROVE  x \in SaidBy(n + 1) <=>
           x \in SaidBy(n) \/ \E b \in ByteBits(input[n + 1]) : b \in 0..6 /\ x = b + 7 * n
<1>1. n + 1 \in Nat
  BY SMT
<1>2. x \in SaidBy(n + 1) <=> /\ x \in Nat /\ x \div 7 + 1 \in 1..(n + 1)
                              /\ x % 7 \in ByteBits(input[x \div 7 + 1])
  BY <1>1, InSaid, Zenon
<1>3. x \in SaidBy(n) <=> /\ x \in Nat /\ x \div 7 + 1 \in 1..n
                          /\ x % 7 \in ByteBits(input[x \div 7 + 1])
  BY InSaid, Zenon
<1>4. ASSUME x \in Nat
      PROVE  /\ x \div 7 + 1 \in 1..(n + 1) <=> x \div 7 + 1 \in 1..n \/ x \div 7 + 1 = n + 1
             /\ x \div 7 + 1 = n + 1 => x % 7 \in 0..6 /\ x = (x % 7) + 7 * n
  BY <1>4, SMT
<1>5. ASSUME NEW b \in 0..6
      PROVE  /\ b + 7 * n \in Nat /\ (b + 7 * n) \div 7 + 1 = n + 1 /\ (b + 7 * n) % 7 = b
             /\ n + 1 \in 1..(n + 1)
  BY SMT
<1>6. ASSUME x \in SaidBy(n + 1), ~(x \in SaidBy(n))
      PROVE  \E b \in ByteBits(input[n + 1]) : b \in 0..6 /\ x = b + 7 * n
  <2>1. x \in Nat /\ x \div 7 + 1 = n + 1
    BY <1>2, <1>3, <1>4, <1>6, Zenon
  <2>2. x % 7 \in ByteBits(input[n + 1]) /\ x % 7 \in 0..6 /\ x = (x % 7) + 7 * n
    BY <1>2, <1>4, <1>6, <2>1, Zenon
  <2> QED
    BY <2>2, Zenon
<1>7. ASSUME x \in SaidBy(n) PROVE x \in SaidBy(n + 1)
  BY <1>2, <1>3, <1>4, <1>7, Zenon
<1>8. ASSUME NEW b \in ByteBits(input[n + 1]), b \in 0..6, x = b + 7 * n PROVE x \in SaidBy(n + 1)
  BY <1>2, <1>5, <1>8, Zenon
<1> QED
  BY <1>6, <1>7, <1>8, Zenon

\* What is known when n bits of c were taken, m bits up.
Told(r, c, n, m) == r \cup {b + m : b \in Masked(c, n)}

LEMMA InTold ==
  ASSUME NEW r, NEW c, NEW n, NEW m, NEW x
  PROVE  x \in Told(r, c, n, m) <=> x \in r \/ \E b \in c : b < n /\ x = b + m
BY InMasked, Zenon DEF Told

LEMMA ReadsOctet ==
  ASSUME Known, pos < Len(input)
  PROVE  /\ pos \in Nat /\ pos + 1 \in 1..Len(input)
         /\ input[pos + 1] \in Octet /\ Read \subseteq 0..7 /\ (HasMark(input[pos + 1]) <=> 7 \in Read)
<1>1. pos \in Nat /\ pos + 1 \in 1..Len(input)
  BY SMT DEF Known
<1>2. input[pos + 1] \in Octet
  BY <1>1 DEF Known
<1> QED
  BY <1>1, <1>2, OctetFacts, Zenon DEF Read

LEMMA OneMoreKeeps ==
  ASSUME DecoderInv, Running, OneMore
  PROVE  DecoderInv'
<1> DEFINE n == pos + 1
<1>1. /\ Known /\ pos < Len(input) /\ pos' = n /\ op' = op /\ input' = input /\ MarkedTo(pos)
  BY Zenon DEF DecoderInv, Running, OneMore
<1>2. /\ pos \in Nat /\ n \in 1..Len(input) /\ n \in 0..Len(input) /\ n >= 1 /\ n - 1 = pos
      /\ \A i \in 1..n : i \in 1..pos \/ i = n
  BY <1>1, SMT DEF Known
<1>3. HasMark(input[n]) <=> 7 \in Read
  BY <1>1, ReadsOctet, Zenon
<1>4. /\ \A i : Good(i)' = Good(i)
      /\ \A i : Taken(i)' = Taken(i)
      /\ \A i : MarkedTo(i)' = MarkedTo(i)
  BY <1>1 DEF Good, Good64, Good32, Sixth, Taken, SaidBy, MarkedTo
<1>5. Known'
  BY <1>1, <1>2, Zenon DEF Known
<1> HIDE DEF n
<1>6. CASE ~Good(n) /\ pc' = "error"
  <2>1. Refused'
    BY <1>1, <1>2, <1>4, <1>6, Zenon DEF Refused
  <2> QED
    BY <1>5, <2>1, Zenon DEF DecoderInv
<1>7. CASE Good(n) /\ Goes(Read) /\ bitpos' = 7 * n /\ result' = Taken(n)
  <2>1. CASE 7 \in Read
    <3>1. MarkedTo(n)
      BY <1>1, <1>2, <1>3, <1>7, <2>1, Zenon DEF MarkedTo
    <3>2. pc' = "more"
      BY <1>7, <2>1, Zenon DEF Goes
    <3>3. Running'
      BY <1>1, <1>2, <1>4, <1>7, <3>1, <3>2, Zenon DEF Running
    <3> QED
      BY <1>5, <3>3, Zenon DEF DecoderInv
  <2>2. CASE 7 \notin Read
    <3>1. pc' = "done"
      BY <1>7, <2>2, Zenon DEF Goes
    <3>2. ~HasMark(input[n])
      BY <1>3, <2>2, Zenon
    <3>3. Finished'
      BY <1>1, <1>2, <1>4, <1>7, <3>1, <3>2, Zenon DEF Finished
    <3> QED
      BY <1>5, <3>3, Zenon DEF DecoderInv
  <2> QED
    BY <2>1, <2>2
<1> QED
  BY <1>6, <1>7 DEF OneMore, n

LEMMA Turn64 ==
  ASSUME op = "decode", DecoderInv, Byte64
  PROVE  Running /\ OneMore
<1> DEFINE n == pos + 1
<1>1. /\ Known /\ Running /\ pos < Len(input) /\ pos' = n /\ op' = op /\ input' = input
      /\ IF TooBig(Read) THEN Stop("error") ELSE Take(Read, IF bitpos = 63 THEN 1 ELSE 7)
  <2>1. Byte64 => pc \in {"first", "more"} /\ pos < Len(input) /\ pos' = n /\ op' = op /\ input' = input
                  /\ IF TooBig(Read) THEN Stop("error") ELSE Take(Read, IF bitpos = 63 THEN 1 ELSE 7)
    BY Zenon DEF Byte64, Decoding
  <2>2. Running
    BY <2>1, Zenon DEF DecoderInv, Finished, Ended, Refused
  <2> QED
    BY <2>1, <2>2, Zenon DEF DecoderInv
<1>2. pos \in Nat /\ n \in Nat /\ Read \subseteq 0..7
  <2>1. pos \in Nat /\ Read \subseteq 0..7
    BY <1>1, ReadsOctet, Zenon
  <2> QED
    BY <2>1, SMT
<1>3. ~(pos >= 10)
  <2>1. ASSUME pos >= 10 PROVE FALSE
    <3>1. pos \in 1..pos /\ pos \in 1..Len(input) /\ (pos <= 10 => pos = 10)
      BY <1>1, <1>2, <2>1, SMT DEF Known
    <3>2. HasMark(input[pos]) /\ Good64(pos)
      BY <1>1, <3>1, Zenon DEF Running, MarkedTo, Good
    <3>3. input[pos] \in Octet
      BY <1>1, <3>1 DEF Known
    <3>4. 7 \in ByteBits(input[pos])
      BY <3>2, <3>3, OctetFacts, Zenon
    <3>5. ByteBits(input[pos]) \subseteq {0}
      BY <3>1, <3>2, Zenon DEF Good64
    <3>6. 7 # 0
      BY SMT
    <3> QED
      BY <3>4, <3>5, <3>6, Zenon
  <2> QED
    BY <2>1
<1>4. n <= 10 /\ (bitpos >= 63 <=> n = 10) /\ (bitpos = 63 <=> n = 10) /\ bitpos + 7 = 7 * n /\ bitpos = 7 * pos
  <2>1. bitpos = 7 * pos
    BY <1>1 DEF Running
  <2> QED
    BY <1>2, <1>3, <2>1, SMT
<1>5. Read = ByteBits(input[n]) /\ result = Taken(pos) /\ Taken(pos) = SaidBy(pos) /\ Taken(n) = SaidBy(n)
  BY <1>1, Zenon DEF Read, Running, Taken
<1>6. Good(n) <=> ~TooBig(Read)
  BY <1>4, <1>5, Zenon DEF Good, Good64, TooBig
<1>7. CASE TooBig(Read)
  BY <1>1, <1>6, <1>7, Zenon DEF OneMore, Stop
<1>8. CASE ~TooBig(Read)
  <2>1. PICK m : /\ m = IF bitpos = 63 THEN 1 ELSE 7
                 /\ result' = result \cup {b + bitpos : b \in Masked(Read, m)}
                 /\ bitpos' = bitpos + 7 /\ Goes(Read)
    BY <1>1, <1>8, Zenon DEF Take
  <2>2. \A b \in Read : b < m <=> b \in 0..6
    <3>1. CASE n = 10
      <4>1. Read \subseteq {0} /\ m = 1
        BY <1>4, <1>8, <2>1, <3>1, Zenon DEF TooBig
      <4>2. 0 < 1 /\ 0 \in 0..6
        BY SMT
      <4> QED
        BY <4>1, <4>2, Zenon
    <3>2. CASE n # 10
      <4>1. m = 7
        BY <1>4, <2>1, <3>2, Zenon
      <4>2. \A b \in 0..7 : b < 7 <=> b \in 0..6
        BY SMT
      <4> QED
        BY <1>2, <4>1, <4>2, Zenon
    <3> QED
      BY <3>1, <3>2
  <2>3. \A x : x \in result' <=> x \in SaidBy(n)
    <3> TAKE x
    <3>3. result' = Told(result, Read, m, bitpos) /\ result = SaidBy(pos)
      BY <1>5, <2>1 DEF Told
    <3>4. x \in Told(result, Read, m, bitpos) <=> x \in result \/ \E b \in Read : b < m /\ x = b + bitpos
      BY InTold, SMTT(30)
    <3>1. x \in result' <=> x \in SaidBy(pos) \/ \E b \in Read : b < m /\ x = b + bitpos
      BY <3>3, <3>4, Zenon
    <3>2. x \in SaidBy(n) <=> x \in SaidBy(pos) \/ \E b \in Read : b \in 0..6 /\ x = b + 7 * pos
      BY <1>2, <1>5, SaidNext, Zenon
    <3> QED
      BY <1>4, <2>2, <3>1, <3>2, Zenon
  <2>4. result' = Taken(n)
    <3>1. result' = SaidBy(n)
      <4>1. \A x : x \in result' => x \in SaidBy(n)
        BY <2>3, Zenon
      <4>2. \A x : x \in SaidBy(n) => x \in result'
        BY <2>3, Zenon
      <4>3. result' = result \cup {b + bitpos : b \in Masked(Read, m)}
        BY <2>1
      <4> QED
        BY <4>1, <4>2, SMT
    <3> QED
      BY <1>5, <3>1, Zenon
  <2> QED
    BY <1>1, <1>4, <1>6, <1>8, <2>1, <2>4, Zenon DEF OneMore
<1> QED
  BY <1>1, <1>7, <1>8

\* A bit of a group, and how far up it goes.
LEMMA Below32 ==
  ASSUME NEW k \in Nat, NEW b \in 0..6
  PROVE  /\ k <= 3 => b + 7 * k < 32
         /\ k = 4 => (b + 7 * k < 32 <=> b < 4)
         /\ k >= 5 => ~(b + 7 * k < 32)
BY SMT

LEMMA Turn32 ==
  ASSUME op = "decode32", DecoderInv, First32 \/ Byte32
  PROVE  Running /\ OneMore
<1> DEFINE n == pos + 1
<1>1. /\ Known /\ Running /\ pos < Len(input) /\ pos' = n /\ op' = op /\ input' = input
      /\ First32 \/ (pos >= 1 /\ Byte32)
  <2>1. CASE First32
    <3>1. pc = "first" /\ pos < Len(input) /\ pos' = n /\ op' = op /\ input' = input
      BY <2>1, Zenon DEF First32, Decoding
    <3>2. Running
      BY <3>1, Zenon DEF DecoderInv, Finished, Ended, Refused
    <3> QED
      BY <2>1, <3>1, <3>2, Zenon DEF DecoderInv
  <2>2. CASE Byte32
    <3>1. pc = "more" /\ pos < Len(input) /\ pos' = n /\ op' = op /\ input' = input
      BY <2>2, Zenon DEF Byte32, Decoding
    <3>2. Running
      BY <3>1, Zenon DEF DecoderInv, Finished, Ended, Refused
    <3>3. pos >= 1
      BY <3>1, <3>2, Zenon DEF Running
    <3> QED
      BY <2>2, <3>1, <3>2, <3>3, Zenon DEF DecoderInv
  <2> QED
    BY <2>1, <2>2
<1>2. pos \in Nat /\ n \in Nat /\ Read \subseteq 0..7
  <2>1. pos \in Nat /\ Read \subseteq 0..7
    BY <1>1, ReadsOctet, Zenon
  <2> QED
    BY <2>1, SMT
<1>3. pos <= 10
  <2>1. ASSUME pos >= 1 PROVE pos <= 10
    <3>1. pos \in 1..pos
      BY <1>2, <2>1, SMT
    <3> QED
      BY <1>1, <3>1, Zenon DEF Running, MarkedTo, Good, Good32
  <2>2. ASSUME ~(pos >= 1) PROVE pos <= 10
    BY <1>2, <2>2, SMT
  <2> QED
    BY <2>1, <2>2
<1>4. /\ bitpos = 7 * pos /\ bitpos + 7 = 7 * n
      /\ bitpos >= 32 <=> pos >= 5
      /\ bitpos >= 64 <=> ~(n <= 10)
      /\ bitpos = 28 <=> pos = 4
      /\ bitpos < 28 <=> pos <= 3
      /\ bitpos < 63 <=> n < 10
      /\ n = 5 <=> pos = 4
      /\ n > 5 <=> pos >= 5
      /\ pos <= 4 => n <= 10
      /\ pos <= 3 => pos <= 4 /\ pos # 4 /\ ~(pos >= 5)
      /\ pos = 4 => ~(pos >= 5) /\ pos <= 4
      /\ pos >= 5 => pos # 4
  <2>1. bitpos = 7 * pos
    BY <1>1 DEF Running
  <2> QED
    BY <1>2, <1>3, <2>1, SMT
<1>5. Read = ByteBits(input[n]) /\ result = Masked(SaidBy(pos), 32) /\ Taken(n) = Masked(SaidBy(n), 32)
  BY <1>1, Zenon DEF Read, Running, Taken
<1>6. \A x : x \in Taken(n) <=>
               x \in Masked(SaidBy(pos), 32) \/ \E b \in Read : b \in 0..6 /\ x = b + 7 * pos /\ x < 32
  <2> TAKE x
  <2>4. x \in Masked(SaidBy(n), 32) <=> x \in SaidBy(n) /\ x < 32
    BY InMasked, Zenon
  <2>1. x \in Taken(n) <=> x \in SaidBy(n) /\ x < 32
    BY <1>5, <2>4
  <2>2. x \in Masked(SaidBy(pos), 32) <=> x \in SaidBy(pos) /\ x < 32
    BY InMasked, Zenon
  <2>3. x \in SaidBy(n) <=> x \in SaidBy(pos) \/ \E b \in Read : b \in 0..6 /\ x = b + 7 * pos
    BY <1>2, <1>5, SaidNext, Zenon
  <2> QED
    BY <2>1, <2>2, <2>3, Zenon
<1>7. ASSUME NEW m, Take(Read, m), \A b \in Read : b < m <=> b \in 0..6 /\ b + 7 * pos < 32
      PROVE  bitpos' = 7 * n /\ Goes(Read) /\ result' = Taken(n)
  <2>1. result' = result \cup {b + bitpos : b \in Masked(Read, m)} /\ bitpos' = bitpos + 7 /\ Goes(Read)
    BY <1>7, Zenon DEF Take
  <2>2. \A x : x \in result' <=> x \in Masked(SaidBy(pos), 32) \/ \E b \in Read : b < m /\ x = b + 7 * pos
    <3> TAKE x
    <3>1. x \in Told(result, Read, m, bitpos) <=> x \in result \/ \E b \in Read : b < m /\ x = b + bitpos
      BY InTold, SMTT(30)
    <3>2. result' = Told(result, Read, m, bitpos) /\ bitpos = 7 * pos /\ result = Masked(SaidBy(pos), 32)
      BY <1>4, <1>5, <2>1 DEF Told
    <3> QED
      BY <3>1, <3>2, Zenon
  <2>3. \A x : x \in result' <=> x \in Taken(n)
    BY <1>6, <1>7, <2>2, Zenon
  <2>4. result' = Taken(n)
    <3>1. result' = Masked(SaidBy(n), 32)
      BY <1>5, <2>1, <2>3, SMT
    <3> QED
      BY <1>5, <3>1
  <2> QED
    BY <1>4, <2>1, <2>4
<1>8. ASSUME pos <= 3, Take(Read, 7) PROVE OneMore
  <2>1. \A b \in Read : b < 7 <=> b \in 0..6 /\ b + 7 * pos < 32
    <3>1. \A b \in 0..7 : b < 7 <=> b \in 0..6
      BY SMT
    <3>2. \A b \in 0..6 : b + 7 * pos < 32
      BY <1>2, <1>8, Below32, Zenon
    <3> QED
      BY <1>2, <3>1, <3>2, Zenon
  <2>2. Good(n)
    BY <1>4, <1>8, Zenon DEF Good, Good32
  <2> QED
    BY <1>1, <1>7, <1>8, <2>1, <2>2, Zenon DEF OneMore
<1>9. CASE First32
  <2>1. Take(Read, 7) /\ pc = "first"
    BY <1>9, Zenon DEF First32, Decoding
  <2>2. pos = 0
    BY <1>1, <2>1, Zenon DEF Running
  <2>3. pos <= 3
    BY <2>2, SMT
  <2> QED
    BY <1>1, <1>8, <2>1, <2>3
<1>10. CASE pos >= 1 /\ Byte32
  <2>1. \/ /\ bitpos >= 32
           /\ IF bitpos >= 64 \/ ~Extension(Read) THEN Stop("error")
              ELSE bitpos' = bitpos + 7 /\ Goes(Read) /\ result' = result
        \/ /\ bitpos = 28
           /\ IF Read \cap {4, 5, 6} # {} /\ ~({3, 4, 5, 6} \subseteq Read) THEN Stop("error")
              ELSE Take(Read, 4)
        \/ bitpos < 28 /\ Take(Read, 7)
    BY <1>10, Zenon DEF Byte32
  <2>2. CASE pos <= 3
    <3>1. Take(Read, 7)
      BY <1>4, <2>1, <2>2, Zenon
    <3> QED
      BY <1>1, <1>8, <2>2, <3>1
  <2>3. CASE pos = 4
    <3>1. IF Read \cap {4, 5, 6} # {} /\ ~({3, 4, 5, 6} \subseteq Read) THEN Stop("error")
          ELSE Take(Read, 4)
      BY <1>4, <2>1, <2>3, Zenon
    <3>2. Good(n) <=> Fifth(Read)
      BY <1>1, <1>4, <1>5, <2>3, Zenon DEF Good, Good32
    <3>3. CASE Fifth(Read)
      <4>1. Take(Read, 4)
        BY <3>1, <3>3, Zenon DEF Fifth
      <4>2. \A b \in Read : b < 4 <=> b \in 0..6 /\ b + 7 * pos < 32
        <5>1. \A b \in 0..6 : b + 7 * pos < 32 <=> b < 4
          BY <1>2, <2>3, Below32, Zenon
        <5>2. \A b \in 0..7 : b < 4 => b \in 0..6
          BY SMT
        <5> QED
          BY <1>2, <5>1, <5>2, Zenon
      <4> QED
        BY <1>1, <1>7, <3>2, <3>3, <4>1, <4>2, Zenon DEF OneMore
    <3>4. CASE ~Fifth(Read)
      <4>1. Stop("error")
        BY <3>1, <3>4, Zenon DEF Fifth
      <4> QED
        BY <1>1, <3>2, <3>4, <4>1, Zenon DEF OneMore, Stop
    <3> QED
      BY <1>1, <3>3, <3>4
  <2>4. CASE pos >= 5
    <3>1. IF bitpos >= 64 \/ ~Extension(Read) THEN Stop("error")
          ELSE bitpos' = bitpos + 7 /\ Goes(Read) /\ result' = result
      BY <1>4, <2>1, <2>4, Zenon
    <3>2. Extension(Read) <=> Sixth(n, Read)
      <4>1. 31 \in result <=> 3 \in ByteBits(input[5])
        <5>1. /\ 31 \in Nat /\ 31 < 32 /\ 31 \div 7 + 1 = 5 /\ 31 % 7 = 3 /\ 5 \in 1..pos
          BY <1>2, <2>4, SMT
        <5>2. 31 \in SaidBy(pos) <=> 3 \in ByteBits(input[5])
          BY <1>2, <5>1, InSaid, Zenon
        <5>3. 31 \in Masked(SaidBy(pos), 32) <=> 31 \in SaidBy(pos) /\ 31 < 32
          BY InMasked, Zenon
        <5> QED
          BY <1>5, <5>1, <5>2, <5>3, Zenon
      <4> QED
        BY <1>4, <4>1, Zenon DEF Extension, Sixth
    <3>3. Good(n) <=> ~(bitpos >= 64 \/ ~Extension(Read))
      BY <1>1, <1>4, <1>5, <2>4, <3>2, Zenon DEF Good, Good32
    <3>4. Taken(n) = result
      <4>1. \A b \in 0..6 : ~(b + 7 * pos < 32)
        BY <1>2, <2>4, Below32, Zenon
      <4>2. \A x : x \in Taken(n) <=> x \in result
        BY <1>5, <1>6, <4>1, Zenon
      <4>3. Masked(SaidBy(n), 32) = Masked(SaidBy(pos), 32)
        BY <1>5, <4>2, Zenon
      <4> QED
        BY <1>5, <4>3
    <3> QED
      BY <1>1, <1>4, <3>1, <3>3, <3>4, Zenon DEF OneMore, Stop
  <2>5. pos <= 3 \/ pos = 4 \/ pos >= 5
    BY <1>2, SMT
  <2> QED
    BY <2>2, <2>3, <2>4, <2>5
<1> QED
  BY <1>1, <1>9, <1>10

LEMMA DecoderStarts == VarintInit /\ op # "encode" => DecoderInv
<1> SUFFICES ASSUME VarintInit, op # "encode" PROVE DecoderInv
  OBVIOUS
<1>1. /\ op \in {"decode", "decode32"} /\ pc = "first" /\ input \in Inputs
      /\ pos = 0 /\ bitpos = 0 /\ result = {}
  BY Zenon DEF VarintInit, Blank
<1>2. Inputs \subseteq Seq(Octet)
  BY VarintAssumption DEF Octet
<1>3. input \in Seq(Octet)
  BY <1>1, <1>2
<1>4. pos \in 0..Len(input) /\ bitpos = 7 * pos /\ 1..pos = {}
  BY <1>1, <1>3, SMT
<1>5. Taken(pos) = {}
  <2>1. SaidBy(pos) = {}
    BY <1>4, Zenon DEF SaidBy
  <2>2. Masked({}, 32) = {}
    BY Zenon DEF Masked
  <2> QED
    BY <2>1, <2>2 DEF Taken
<1>6. MarkedTo(pos)
  BY <1>4, Zenon DEF MarkedTo
<1> QED
  BY <1>1, <1>3, <1>4, <1>5, <1>6, Zenon DEF DecoderInv, Known, Running

LEMMA DecoderNext ==
  ASSUME DecoderInv, VarintNext
  PROVE  DecoderInv'
<1>1. /\ op # "encode" /\ pc \in {"first", "more", "done", "error"}
  BY Zenon DEF DecoderInv, Known, Running, Finished, Ended, Refused
<1>2. ~Encoder
  BY <1>1, Zenon DEF Encoder, Start, Low, Join, High, PutLast
<1>3. CASE TooShort
  <2>1. /\ pc \in {"first", "more"} /\ pos = Len(input) /\ pc' = "error"
        /\ op' = op /\ input' = input /\ pos' = pos
    BY <1>3, Zenon DEF TooShort, Decoding, AtEnd, Stop
  <2>2. Known /\ MarkedTo(pos)
    BY <2>1, Zenon DEF DecoderInv, Running, Finished, Ended, Refused
  <2>3. Known' /\ MarkedTo(pos)'
    BY <2>1, <2>2 DEF Known, MarkedTo, Good, Good64, Good32, Sixth
  <2> QED
    BY <2>1, <2>3, Zenon DEF DecoderInv, Ended
<1>4. CASE Byte64
  <2>1. op = "decode"
    BY <1>4, Zenon DEF Byte64
  <2> QED
    BY <1>4, <2>1, Turn64, OneMoreKeeps, Zenon
<1>5. CASE First32 \/ Byte32
  <2>1. op = "decode32"
    BY <1>5, Zenon DEF First32, Byte32
  <2> QED
    BY <1>5, <2>1, Turn32, OneMoreKeeps, Zenon
<1> QED
  BY <1>2, <1>3, <1>4, <1>5, Zenon DEF VarintNext, Decoder

\* The bytes up to one without a mark are a number exactly when each of them is good.
LEMMA FitIs64 ==
  ASSUME input \in Seq(Octet), NEW n \in 1..Len(input)
  PROVE  Fits64(Prefix(n)) <=> \A i \in 1..n : Good64(i)
<1>1. n \in Nat /\ n \in 0..Len(input) /\ n >= 1 /\ n \in 1..n
  BY SMT
<1>2. Len(Prefix(n)) = n /\ \A i \in 1..n : Prefix(n)[i] = input[i] /\ input[i] \in Octet
  BY <1>1, PrefixIs, Zenon
<1>3. Prefix(n) # <<>>
  BY <1>1, <1>2, SMT
<1>4. n = 10 => 10 \in 1..n
  BY <1>1, SMT
<1>5. n = 10 => (Prefix(n)[10] <= 1 <=> ByteBits(input[10]) \subseteq {0})
  <2> DEFINE w == input[10]
  <2>1. n = 10 => Prefix(n)[10] = w /\ w \in Octet
    BY <1>2, <1>4, Zenon
  <2> HIDE DEF w
  <2>2. w \in Octet => (w <= 1 <=> ByteBits(w) \subseteq {0})
    BY OctetFacts, Zenon
  <2> QED
    BY <2>1, <2>2 DEF w
<1>6. Fits64(Prefix(n)) <=> n <= 10 /\ (n = 10 => ByteBits(input[10]) \subseteq {0})
  BY <1>2, <1>3, <1>5, Zenon DEF Fits64
<1>7. \A i \in 1..n : i <= n /\ (n <= 10 => i <= 10 /\ (i = 10 => n = 10))
  BY <1>1, SMT
<1>8. ASSUME Fits64(Prefix(n)), NEW i \in 1..n PROVE Good64(i)
  BY <1>6, <1>7, <1>8, Zenon DEF Good64
<1>9. ASSUME \A i \in 1..n : Good64(i) PROVE Fits64(Prefix(n))
  <2>1. Good64(n)
    BY <1>1, <1>9, Zenon
  <2>2. n = 10 => Good64(10)
    BY <2>1
  <2> QED
    BY <1>6, <2>1, <2>2, Zenon DEF Good64
<1> QED
  BY <1>8, <1>9

LEMMA FitIs32 ==
  ASSUME input \in Seq(Octet), NEW n \in 1..Len(input)
  PROVE  Fits32(Prefix(n)) <=> \A i \in 1..n : Good32(i)
<1>1. n \in Nat /\ n \in 0..Len(input) /\ n >= 1 /\ n \in 1..n
  BY SMT
<1> DEFINE b == Prefix(n)
<1>2. Len(b) = n /\ \A i \in 1..n : b[i] = input[i] /\ input[i] \in Octet
  BY <1>1, PrefixIs, Zenon
<1>3. b # <<>>
  BY <1>1, <1>2, SMT
<1> HIDE DEF b
<1>4. n >= 5 => 5 \in 1..n
  BY <1>1, SMT
<1>5. n >= 5 => (b[5] \div 16 \in {0, 8} \/ b[5] \div 8 \in {15, 31} <=> Fifth(ByteBits(input[5])))
  <2>1. ASSUME n >= 5
        PROVE  /\ b[5] = input[5] /\ input[5] \in Octet
    BY <1>2, <1>4, <2>1
  <2>2. ASSUME n >= 5
        PROVE  /\ b[5] \div 16 \in {0, 8} <=> ByteBits(b[5]) \cap {4, 5, 6} = {}
               /\ b[5] \div 8 \in {15, 31} <=> {3, 4, 5, 6} \subseteq ByteBits(b[5])
    BY <2>1, <2>2, OctetFacts
  <2> QED
    BY <2>1, <2>2 DEF Fifth
<1> DEFINE negative == b[5] \div 8 % 2 = 1
           last(i) == \/ b[i] % 128 = 0
                      \/ negative /\ b[i] = IF i < 10 THEN 255 ELSE 1
<1>6. n >= 5 => (negative <=> 3 \in ByteBits(input[5]))
  <2>1. ASSUME n >= 5
        PROVE  /\ b[5] = input[5] /\ input[5] \in Octet
    BY <1>2, <1>4, <2>1
  <2> QED
    BY <2>1, OctetFacts
<1> HIDE DEF negative
<1>7. ASSUME NEW i \in 6..n PROVE last(i) <=> Sixth(i, ByteBits(input[i]))
  <2>1. n >= 5 /\ i \in 1..n
    BY <1>1, SMT
  <2> DEFINE w == b[i]
  <2>2. w \in Octet /\ w = input[i]
    BY <1>2, <2>1
  <2>3. /\ w % 128 = 0 <=> Masked(ByteBits(w), 7) = {}
        /\ w = 255 <=> ByteBits(w) = 0..7
        /\ w = 1 <=> ByteBits(w) = {0}
    BY <2>2, OctetFacts
  <2>4. (w = IF i < 10 THEN 255 ELSE 1) <=> (ByteBits(w) = IF i < 10 THEN 0..7 ELSE {0})
    BY <2>3
  <2> QED
    BY <1>6, <2>1, <2>2, <2>3, <2>4 DEF Sixth
<1>8. Fits32(b) <=> /\ b # <<>> /\ n <= 10
                    /\ n >= 5 => b[5] \div 16 \in {0, 8} \/ b[5] \div 8 \in {15, 31}
                    /\ \A i \in 6..n : last(i)
  BY <1>2 DEF Fits32, negative
<1> HIDE DEF last
<1>9. Fits32(b) <=> /\ n <= 10 
                    /\ n >= 5 => Fifth(ByteBits(input[5]))
                    /\ \A i \in 6..n : Sixth(i, ByteBits(input[i]))
  BY <1>3, <1>5, <1>7, <1>8
<1>10. \A i \in 1..n : /\ n <= 10 => i <= 10
                       /\ i = 5 => n >= 5
                       /\ i > 5 => i \in 6..n
  BY <1>1, SMT
<1>11. \A i \in 6..n : i \in 1..n /\ i > 5
  BY <1>1, SMT
<1>12. ASSUME Fits32(b), NEW i \in 1..n PROVE Good32(i)
  <2>1. /\ i <= 10
        /\ i = 5 => Fifth(ByteBits(input[5]))
        /\ i > 5 => Sixth(i, ByteBits(input[i]))
    BY <1>9, <1>10, <1>12
  <2> QED
    BY <2>1 DEF Good32
<1>13. ASSUME \A i \in 1..n : Good32(i) PROVE Fits32(b)
  <2>1. Good32(n)
    BY <1>1, <1>13, Zenon
  <2>2. n <= 10
    BY <2>1 DEF Good32
  <2>3. n >= 5 => Good32(5)
    BY <1>4, <1>13, Zenon
  <2>4. n >= 5 => Fifth(ByteBits(input[5]))
    BY <2>3 DEF Good32
  <2>5. ASSUME NEW i \in 6..n PROVE Sixth(i, ByteBits(input[i]))
    <3>1. Good32(i) /\ i > 5
      BY <1>11, <1>13, Zenon
    <3> QED
      BY <3>1 DEF Good32
  <2> QED
    BY <1>9, <2>2, <2>4, <2>5, Zenon
<1> QED
  BY <1>12, <1>13 DEF b

(***************************************************************************)
(* What the rest of the model has the decoders do.                         *)
(***************************************************************************)
Ends == {k \in 1..Len(input) : input[k] < 128}

LEMMA BytesOfStream ==
  ASSUME input \in Seq(Octet)
  PROVE  /\ Ends = {} => VarintBytes(Stream) = <<>>
         /\ Ends # {} => /\ Min(Ends) \in Ends /\ \A y \in Ends : Min(Ends) <= y
                         /\ VarintBytes(Stream) = Prefix(Min(Ends))
<1>1. Stream.in = input /\ Stream.at = 0 /\ Stream.left = Len(input)
  BY DEF Stream, pb_istream_from_buffer
<1>2. \A k \in 1..Len(input) : 0 + k = k
  BY SMT
<1>3. {k \in 1..Stream.left : Stream.in[Stream.at + k] < 128} = Ends
  <2> HIDE DEF Stream
  <2> QED
    BY <1>1, <1>2, SMT DEF Ends
<1>4. VarintBytes(Stream) = IF Ends = {} THEN <<>> ELSE Ahead(Stream, Min(Ends))
  BY <1>3 DEF VarintBytes
<1>5. ASSUME Ends # {} PROVE Min(Ends) \in Ends /\ \A y \in Ends : Min(Ends) <= y
  <2>1. Ends \subseteq Nat
    BY SMT DEF Ends
  <2>2. PICK x \in Ends : \A y \in Ends : x <= y
    BY <1>5, <2>1, Least, Zenon
  <2> QED
    BY <2>2, Zenon DEF Min
<1>6. ASSUME Ends # {} PROVE Ahead(Stream, Min(Ends)) = Prefix(Min(Ends))
  <2> DEFINE n == Min(Ends)
  <2>1. n \in Nat
    BY <1>5, <1>6, SMT DEF Ends
  <2> HIDE DEF n
  <2>2. 0 + 1 = 1 /\ 0 + n = n
    BY <2>1, SMT
  <2>3. Ahead(Stream, n) = SubSeq(Stream.in, Stream.at + 1, Stream.at + n)
    BY DEF Ahead
  <2> QED
    BY <1>1, <2>2, <2>3 DEF Prefix, n
<1> QED
  BY <1>4, <1>5, <1>6

LEMMA Marks ==
  ASSUME Known
  PROVE  /\ pos \in Nat /\ Len(input) \in Nat /\ pos <= Len(input)
         /\ \A i \in 1..Len(input) : /\ i \in Nat /\ i >= 1
                                     /\ input[i] \in Octet
                                     /\ i \in Ends <=> ~HasMark(input[i])
<1>1. pos \in Nat /\ Len(input) \in Nat /\ pos <= Len(input)
  BY SMT DEF Known
<1>2. \A i \in 1..Len(input) : i \in Nat /\ i >= 1 /\ input[i] \in Octet
  BY SMT DEF Known
<1>3. \A i \in 1..Len(input) : i \in Ends <=> input[i] < 128
  BY Zenon DEF Ends
<1>4. \A b \in Octet : b < 128 <=> ~HasMark(b)
  BY SMT DEF Octet, HasMark
<1> QED
  BY <1>1, <1>2, <1>3, <1>4, Zenon

\* Where the first byte without a mark is.
LEMMA Stops ==
  ASSUME Known, pos >= 1, MarkedTo(pos - 1)
  PROVE  /\ pos \in 1..Len(input)
         /\ \A y \in Ends : y >= pos
         /\ ~HasMark(input[pos]) => Ends # {} /\ Min(Ends) = pos
<1>1. pos \in 1..Len(input) /\ \A y \in 1..Len(input) : ~(y \in 1..(pos - 1)) => y >= pos
  BY Marks, SMT
<1>2. \A y \in Ends : y \in 1..Len(input)
  BY Zenon DEF Ends
<1>3. \A y \in Ends : y >= pos
  BY <1>1, <1>2, Marks, Zenon DEF MarkedTo
<1>4. ASSUME ~HasMark(input[pos]) PROVE Ends # {} /\ Min(Ends) = pos
  <2>1. pos \in Ends
    BY <1>1, <1>4, Marks, Zenon
  <2>2. Min(Ends) \in Ends /\ Min(Ends) <= pos
    BY <2>1, BytesOfStream, Zenon DEF Known
  <2>3. Min(Ends) >= pos /\ Min(Ends) \in Nat
    BY <1>2, <1>3, <2>2, Marks, Zenon
  <2> DEFINE m == Min(Ends)
  <2> HIDE DEF m
  <2>4. m <= pos /\ m >= pos /\ m \in Nat => m = pos
    BY Marks, SMT
  <2> QED
    BY <2>1, <2>2, <2>3, <2>4 DEF m
<1> QED
  BY <1>1, <1>3, <1>4

\* What the outcome of a decoder is made of.
FitsAll(b) == IF op = "decode" THEN Fits64(b) ELSE Fits32(b)
Width == IF op = "decode" THEN 8 ELSE 4
Made == TakeVarint(Stream, VarintBytes(Stream), FitsAll(VarintBytes(Stream)), Width)

LEMMA FitIs ==
  ASSUME Known, NEW n \in 1..Len(input)
  PROVE  FitsAll(Prefix(n)) <=> \A i \in 1..n : Good(i)
<1>1. input \in Seq(Octet)
  BY DEF Known
<1>2. CASE op = "decode"
  BY <1>1, <1>2, FitIs64, Zenon DEF FitsAll, Good
<1>3. CASE op # "decode"
  BY <1>1, <1>3, FitIs32, Zenon DEF FitsAll, Good
<1> QED
  BY <1>2, <1>3

LEMMA NothingFits == ~FitsAll(<<>>)
BY DEF FitsAll, Fits64, Fits32

LEMMA Fails ==
  ASSUME ~FitsAll(VarintBytes(Stream))
  PROVE  ~Made.s.ok
<1>1. Made = [s |-> Failed(Stream), v |-> Zeros(Width)]
  BY Zenon DEF Made, TakeVarint
<1>2. Failed(Stream).ok = FALSE
  BY DEF Failed, Stream, pb_istream_from_buffer
<1> QED
  BY <1>1, <1>2

LEMMA Succeeds ==
  ASSUME input \in Seq(Octet), NEW n \in 1..Len(input), VarintBytes(Stream) = Prefix(n), FitsAll(Prefix(n))
  PROVE  Made.s.ok /\ Made.s.at = n /\ Made.v = Ungroup(GroupsOf(Prefix(n)), Width)
<1>1. Stream.ok
  BY DEF Stream, pb_istream_from_buffer
<1>2. Len(Prefix(n)) = n /\ n \in Nat /\ ~(Len(input) < n) /\ 0 + n = n
  <2>1. n \in 0..Len(input) /\ n \in Nat /\ ~(Len(input) < n) /\ 0 + n = n
    BY SMT
  <2> QED
    BY <2>1, PrefixIs, Zenon
<1>3. Made = [s |-> pb_read(Stream, n), v |-> Ungroup(GroupsOf(Prefix(n)), Width)]
  <2>1. Made = TakeVarint(Stream, Prefix(n), FitsAll(Prefix(n)), Width)
    BY Zenon DEF Made
  <2> QED
    BY <1>1, <1>2, <2>1 DEF TakeVarint
<1>4. pb_read(Stream, n).ok /\ pb_read(Stream, n).at = n
  <2>1. pb_read(Stream, n) = [Stream EXCEPT !.at = @ + n, !.left = @ - n]
    <3>1. Stream.left = Len(input)
      BY DEF Stream, pb_istream_from_buffer
    <3>2. ~(~Stream.ok \/ Stream.left < n)
      BY <1>1, <1>2, <3>1
    <3> QED
      BY <3>2, Zenon DEF pb_read
  <2> QED
    BY <1>2, <2>1 DEF Stream, pb_istream_from_buffer
<1> QED
  BY <1>3, <1>4

LEMMA AnswersAlike ==
  ASSUME op \in {"decode", "decode32"}, Made.s.ok <=> pc = "done",
         pc = "done" => pos = Made.s.at /\ result = MemoryBits(Made.v)
  PROVE  AsModelled
<1> DEFINE r == IF op = "decode" THEN pb_decode_varint(Stream) ELSE pb_decode_varint32(Stream)
<1>1. Made = r
  <2>1. CASE op = "decode"
    <3>1. r = TakeVarint(Stream, VarintBytes(Stream), Fits64(VarintBytes(Stream)), 8)
      BY <2>1, Zenon DEF pb_decode_varint, Take64
    <3> HIDE DEF r
    <3> QED
      BY <2>1, <3>1, Zenon DEF Made, FitsAll, Width
  <2>2. CASE op # "decode"
    <3>1. r = TakeVarint(Stream, VarintBytes(Stream), Fits32(VarintBytes(Stream)), 4)
      BY <2>2, Zenon DEF pb_decode_varint32, Take32
    <3> HIDE DEF r
    <3> QED
      BY <2>2, <3>1, Zenon DEF Made, FitsAll, Width
  <2> QED
    BY <2>1, <2>2
<1>2. AsModelled <=> (pc = "done") = r.s.ok /\ (r.s.ok => pos = r.s.at /\ result = MemoryBits(r.v))
  BY Zenon DEF AsModelled
<1> HIDE DEF r
<1>3. Made.s.ok \in BOOLEAN
  BY DEF Made, TakeVarint, Failed, pb_read, Stream, pb_istream_from_buffer
<1> QED
  BY <1>1, <1>2, <1>3

LEMMA TakenFits ==
  ASSUME Known, NEW n \in 1..Len(input), \A i \in 1..n : Good(i)
  PROVE  Taken(n) = MemoryBits(Ungroup(GroupsOf(Prefix(n)), Width))
<1>1. n \in Nat /\ n \in 0..Len(input) /\ n \in 1..n /\ Width \in Nat
  <2>1. n \in Nat /\ n \in 0..Len(input) /\ n \in 1..n
    BY SMT
  <2>2. Width \in Nat
    BY SMT DEF Width
  <2> QED
    BY <2>1, <2>2
<1>2. input \in Seq(Octet)
  BY DEF Known
<1> DEFINE v == Ungroup(GroupsOf(Prefix(n)), Width)
<1>3. \A x : x \in MemoryBits(v) <=> x \in 0..(8 * Width - 1) /\ x \in SaidBy(n)
  BY <1>1, <1>2, Ungrouped, Zenon
<1> HIDE DEF v
<1>4. \A x : x \in Taken(n) <=> x \in 0..(8 * Width - 1) /\ x \in SaidBy(n)
  <2>1. CASE op = "decode"
    <3>1. 8 * Width - 1 = 63
      BY <2>1, SMT DEF Width
    <3>2. ASSUME NEW x \in SaidBy(n) PROVE x \in 0..63
      <4> DEFINE i == x \div 7 + 1
                 b == x % 7
      <4>1. x \in Nat /\ i \in 1..n /\ b \in ByteBits(input[i])
        BY <1>1, <3>2, InSaid, Zenon
      <4>2. i <= 10 /\ (i = 10 => ByteBits(input[i]) \subseteq {0})
        BY <2>1, <4>1, Zenon DEF Good, Good64
      <4>3. i = 10 => b = 0
        BY <4>1, <4>2, Zenon
      <4> QED
        BY <4>1, <4>2, <4>3, SMT
    <3>3. Taken(n) = SaidBy(n)
      BY <2>1 DEF Taken
    <3> QED
      BY <3>1, <3>2, <3>3, Zenon
  <2>2. CASE op # "decode"
    <3>1. 8 * Width - 1 = 31
      BY <2>2, SMT DEF Width
    <3>2. \A x \in Nat : x < 32 <=> x \in 0..31
      BY SMT
    <3>3. \A x : x \in SaidBy(n) => x \in Nat
      BY <1>1, InSaid, Zenon
    <3>4. \A x : x \in Masked(SaidBy(n), 32) <=> x \in SaidBy(n) /\ x < 32
      BY InMasked, Zenon
    <3>5. Taken(n) = Masked(SaidBy(n), 32)
      BY <2>2 DEF Taken
    <3>6. \A x : x \in Taken(n) <=> x \in SaidBy(n) /\ x < 32
      BY <3>4, <3>5
    <3>7. \A x : x \in 0..31 => x \in Nat
      BY SMT
    <3> QED
      BY <3>1, <3>2, <3>3, <3>6, Zenon
  <2> QED
    BY <2>1, <2>2
<1>5. ASSUME NEW x PROVE x \in Taken(n) <=> x \in MemoryBits(v)
  BY <1>3, <1>4
<1>6. /\ Taken(n) = {x \in Taken(n) : TRUE}
      /\ MemoryBits(v) = {x \in MemoryBits(v) : TRUE}
  <2>1. Taken(n) = {x \in Taken(n) : TRUE}
    <3>1. CASE op = "decode"
      <4>1. SaidBy(n) = {x \in SaidBy(n) : TRUE}
        BY Zenon DEF SaidBy
      <4> QED
        BY <3>1, <4>1, Zenon DEF Taken
    <3>2. CASE op # "decode"
      <4>1. Masked(SaidBy(n), 32) = {x \in Masked(SaidBy(n), 32) : TRUE}
        BY Zenon DEF Masked
      <4> QED
        BY <3>2, <4>1, Zenon DEF Taken
    <3> QED
      BY <3>1, <3>2
  <2>2. MemoryBits(v) = {x \in MemoryBits(v) : TRUE}
    BY Zenon DEF MemoryBits
  <2> QED
    BY <2>1, <2>2
<1>7. {x \in Taken(n) : TRUE} = {x \in MemoryBits(v) : TRUE}
  BY <1>5, Zenon
<1>8. Taken(n) = MemoryBits(v)
  BY <1>6, <1>7
<1> QED
  BY <1>8 DEF v

LEMMA Answered ==
  ASSUME DecoderInv, pc \in Outcomes
  PROVE  AsModelled
<1>1. Known /\ input \in Seq(Octet) /\ op \in {"decode", "decode32"} /\ (Finished \/ Ended \/ Refused)
  BY Zenon DEF DecoderInv, Running, Outcomes, Known
<1>2. CASE Finished
  <2>1. pc = "done" /\ pos >= 1 /\ MarkedTo(pos - 1) /\ Good(pos) /\ ~HasMark(input[pos]) /\ result = Taken(pos)
    BY <1>2 DEF Finished
  <2>2. pos \in 1..Len(input) /\ Ends # {} /\ Min(Ends) = pos
    BY <1>1, <2>1, Stops, Zenon
  <2>3. VarintBytes(Stream) = Prefix(pos)
    BY <1>1, <2>2, BytesOfStream
  <2>4. \A i \in 1..pos : Good(i)
    <3>1. \A i \in 1..pos : i \in 1..(pos - 1) \/ i = pos
      BY <2>2, SMT
    <3> QED
      BY <2>1, <3>1, Zenon DEF MarkedTo
  <2>5. FitsAll(Prefix(pos))
    BY <1>1, <2>2, <2>4, FitIs, Zenon
  <2>6. Made.s.ok /\ Made.s.at = pos /\ Made.v = Ungroup(GroupsOf(Prefix(pos)), Width)
    BY <1>1, <2>2, <2>3, <2>5, Succeeds, Zenon
  <2>7. result = MemoryBits(Ungroup(GroupsOf(Prefix(pos)), Width))
    BY <1>1, <2>1, <2>2, <2>4, TakenFits, Zenon
  <2>8. result = MemoryBits(Made.v)
    BY <2>6, <2>7
  <2> QED
    BY <1>1, <2>1, <2>6, <2>8, AnswersAlike, Zenon
<1>3. ASSUME Ended \/ Refused PROVE ~FitsAll(VarintBytes(Stream))
  <2>1. CASE Ends = {}
    BY <1>1, <2>1, BytesOfStream, NothingFits
  <2>2. CASE Ends # {}
    <3> DEFINE e == Min(Ends)
    <3>1. e \in Ends /\ VarintBytes(Stream) = Prefix(e)
      BY <1>1, <2>2, BytesOfStream, Zenon
    <3>2. e \in 1..Len(input) /\ ~HasMark(input[e])
      <4>1. e \in 1..Len(input)
        BY <3>1, Zenon DEF Ends
      <4> QED
        BY <1>1, <3>1, <4>1, Marks, Zenon
    <3>3. Refused
      <4>1. Ended => e \in 1..pos
        BY <3>2 DEF Ended
      <4> QED
        BY <1>3, <3>2, <4>1, Zenon DEF Ended, MarkedTo
    <3>4. pos >= 1 /\ MarkedTo(pos - 1) /\ ~Good(pos)
      BY <3>3 DEF Refused
    <3>5. e >= pos
      BY <1>1, <3>1, <3>4, Stops, Zenon
    <3> HIDE DEF e
    <3>6. pos \in 1..e
      BY <1>1, <3>2, <3>4, <3>5, Marks, SMT
    <3>7. ~FitsAll(Prefix(e))
      BY <1>1, <3>2, <3>4, <3>6, FitIs, Zenon
    <3> QED
      BY <3>1, <3>7
  <2> QED
    BY <2>1, <2>2
<1>4. CASE Ended \/ Refused
  <2>1. pc # "done" /\ ~Made.s.ok
    BY <1>3, <1>4, Fails, Zenon DEF Ended, Refused
  <2> QED
    BY <1>1, <2>1, AnswersAlike, Zenon
<1> QED
  BY <1>1, <1>2, <1>4, Zenon

LEMMA SaidIs == Said = SaidBy(Len(input))
BY Zenon DEF Said, SaidBy

\* A whole number ends at the byte without a mark.
LEMMA EndsWhole ==
  ASSUME Known, Complete
  PROVE  /\ Len(input) \in Nat /\ Len(input) >= 1 /\ Len(input) \in 1..Len(input)
         /\ ~HasMark(input[Len(input)])
         /\ \A i \in 1..Len(input) : HasMark(input[i]) <=> i < Len(input)
         /\ Finished => pos = Len(input)
         /\ ~Ended
<1>1. Len(input) \in Nat /\ Len(input) >= 1 /\ Len(input) \in 1..Len(input)
  <2>1. input # <<>> /\ input \in Seq(Octet)
    BY DEF Complete, Known
  <2> QED
    BY <2>1, SMT
<1>2. \A i \in 1..Len(input) : HasMark(input[i]) <=> i < Len(input)
  BY Zenon DEF Complete, HasMark
<1>3. ~(Len(input) < Len(input))
  BY <1>1, SMT
<1>4. ~HasMark(input[Len(input)])
  BY <1>1, <1>2, <1>3, Zenon
<1>5. ASSUME Finished PROVE pos = Len(input)
  <2>1. pos >= 1 /\ ~HasMark(input[pos])
    BY <1>5 DEF Finished
  <2>2. pos \in 1..Len(input)
    BY <2>1, Marks, SMT
  <2>3. ~(pos < Len(input))
    BY <1>2, <2>1, <2>2, Zenon
  <2> QED
    BY <1>1, <2>2, <2>3, SMT
<1>6. ~Ended
  BY <1>1, <1>4, Zenon DEF Ended, MarkedTo
<1> QED
  BY <1>1, <1>2, <1>4, <1>5, <1>6

\* A bit that a byte says.
LEMMA SaysBit ==
  ASSUME NEW n \in Nat, NEW i \in 1..n, NEW b \in 0..6
  PROVE  /\ b + 7 * (i - 1) \in Nat
         /\ b + 7 * (i - 1) \in SaidBy(n) <=> b \in ByteBits(input[i])
<1> DEFINE x == b + 7 * (i - 1)
<1>1. x \in Nat /\ x \div 7 + 1 = i /\ x % 7 = b
  BY SMT
<1> HIDE DEF x
<1>2. x \in SaidBy(n) <=> b \in ByteBits(input[i])
  BY <1>1, InSaid, Zenon
<1> QED
  BY <1>1, <1>2 DEF x

LEMMA DecoderTakes64 ==
  ASSUME DecoderInv, pc \in Outcomes
  PROVE  Takes64
<1> SUFFICES ASSUME op = "decode", Complete, Len(input) <= 10
             PROVE  (pc = "done" <=> Said \subseteq 0..63) /\ (pc = "done" => result = Said)
  BY Zenon DEF Takes64
<1>1. Known /\ (Finished \/ Ended \/ Refused)
  BY Zenon DEF DecoderInv, Running, Outcomes
<1> DEFINE n == Len(input)
<1>2. /\ n \in Nat /\ n >= 1 /\ n \in 1..n /\ ~HasMark(input[n]) /\ ~Ended
      /\ \A i \in 1..n : HasMark(input[i]) <=> i < n
      /\ Finished => pos = n
  BY <1>1, EndsWhole, Zenon
<1>3. CASE Finished
  <2>1. pc = "done" /\ result = SaidBy(n)
    BY <1>2, <1>3, Zenon DEF Finished, Taken
  <2>2. SaidBy(n) \subseteq 0..63
    <3> SUFFICES ASSUME NEW x \in SaidBy(n) PROVE x \in 0..63
      OBVIOUS
    <3> DEFINE i == x \div 7 + 1
               b == x % 7
    <3>1. x \in Nat /\ i \in 1..n /\ b \in ByteBits(input[i])
      BY <1>2, InSaid, Zenon
    <3>2. i \in 1..(pos - 1) \/ i = pos
      <4> HIDE DEF i
      <4> QED
        BY <1>2, <1>3, <3>1, SMT
    <3>3. Good64(i)
      BY <1>3, <3>2, Zenon DEF Finished, MarkedTo, Good
    <3>4. i <= 10 /\ (i = 10 => b = 0)
      BY <3>1, <3>3, Zenon DEF Good64
    <3> QED
      BY <3>1, <3>4, SMT
  <2> QED
    BY <2>1, <2>2, SaidIs
<1>4. CASE Refused
  <2>1. pc # "done" /\ pos >= 1 /\ ~Good64(pos)
    BY <1>4, Zenon DEF Refused, Good
  <2>2. pos \in 1..n /\ pos <= 10
    <3>1. pos \in Nat /\ pos <= n
      BY <1>1, Marks, Zenon
    <3> HIDE DEF n
    <3>2. n <= 10
      BY DEF n
    <3> QED
      BY <1>2, <2>1, <3>1, <3>2, SMT
  <2>3. pos = 10 /\ ~(ByteBits(input[pos]) \subseteq {0})
    BY <2>1, <2>2, Zenon DEF Good64
  <2>4. PICK b \in ByteBits(input[pos]) : b # 0
    BY <2>3, Zenon
  <2>5. pos = n
    <3> HIDE DEF n
    <3>1. n <= 10
      BY DEF n
    <3> QED
      BY <1>2, <2>2, <2>3, <3>1, SMT
  <2>6. b \in 0..7 /\ b # 7
    <3>1. input[pos] \in Octet
      BY <1>1, <2>2, Marks, Zenon
    <3>2. 7 \notin ByteBits(input[pos]) /\ ByteBits(input[pos]) \subseteq 0..7
      BY <1>2, <2>5, <3>1, OctetFacts, ZenonT(40)
    <3> QED
      BY <2>4, <3>2, Zenon
  <2>7. b \in 0..6 /\ b + 7 * (pos - 1) \notin 0..63
    BY <2>3, <2>4, <2>6, SMT
  <2>8. b + 7 * (pos - 1) \in SaidBy(n)
    BY <1>2, <2>2, <2>4, <2>7, SaysBit, Zenon
  <2>9. ~(SaidBy(n) \subseteq 0..63)
    BY <2>7, <2>8, Zenon
  <2> QED
    BY <2>1, <2>9, SaidIs
<1> QED
  BY <1>1, <1>2, <1>3, <1>4

\* A number of 32 bits is refused nowhere, and neither is a negative one of 64.
LEMMA Padded ==
  ASSUME Known, Complete, Len(input) <= 10, NEW i \in 1..Len(input), op # "decode",
         Said \subseteq 0..31 \/ (31..63 \subseteq Said /\ Said \subseteq 0..63)
  PROVE  Good(i)
<1> DEFINE n == Len(input)
           c == ByteBits(input[i])
<1>1. /\ n \in Nat /\ n >= 1 /\ n \in 1..n /\ ~HasMark(input[n])
      /\ \A j \in 1..n : HasMark(input[j]) <=> j < n
  BY EndsWhole, Zenon
<1>2. c \subseteq 0..7 /\ (HasMark(input[i]) <=> 7 \in c)
  <2>1. input[i] \in Octet
    BY Marks, Zenon
  <2> QED
    BY <2>1, OctetFacts, Zenon
<1>3. \A b \in 0..6 : b + 7 * (i - 1) \in Said <=> b \in c
  BY <1>1, SaidIs, SaysBit, Zenon
<1>4. i \in 1..10
  <2> HIDE DEF n
  <2>1. n <= 10 /\ i \in 1..n
    BY DEF n
  <2> QED
    BY <1>1, <2>1, SMT
<1>5. /\ \A b \in 0..7 : b \in 0..6 \/ b = 7
      /\ \A b \in 0..7 : b < 7 => b \in 0..6
  BY SMT
<1> HIDE DEF n, c
<1>6. CASE Said \subseteq 0..31
  <2>1. ASSUME i = 5 PROVE Fifth(c)
    <3>1. 4 + 7 * (i - 1) \notin 0..31 /\ 5 + 7 * (i - 1) \notin 0..31 /\ 6 + 7 * (i - 1) \notin 0..31
      BY <2>1, SMT
    <3>2. 4 \in 0..6 /\ 5 \in 0..6 /\ 6 \in 0..6
      BY SMT
    <3>3. 4 \notin c /\ 5 \notin c /\ 6 \notin c
      BY <1>3, <1>6, <3>1, <3>2, Zenon
    <3>4. c \cap {4, 5, 6} = {}
      BY <3>3, Zenon
    <3> QED
      BY <3>4, Zenon DEF Fifth
  <2>2. ASSUME i > 5 PROVE Sixth(i, c)
    <3>1. ASSUME NEW b \in 0..6 PROVE b + 7 * (i - 1) \notin 0..31
      <4>1. i - 1 >= 5 /\ i - 1 \in Nat
        BY <1>4, <2>2, SMT
      <4> DEFINE j == i - 1
      <4> HIDE DEF j
      <4>2. j \in Nat => (j >= 5 => b + 7 * j \notin 0..31)
        BY SMT
      <4> QED
        BY <4>1, <4>2 DEF j
    <3>2. \A b \in 0..6 : b \notin c
      BY <1>3, <1>6, <3>1, Zenon
    <3>3. \A b : b \in Masked(c, 7) <=> b \in c /\ b < 7
      BY InMasked, Zenon
    <3>4. Masked(c, 7) = {}
      <4>1. \A b : b \notin Masked(c, 7)
        BY <1>2, <1>5, <3>2, <3>3, Zenon
      <4> QED
        BY <4>1, Zenon
    <3> QED
      BY <3>4, Zenon DEF Sixth
  <2>3. i <= 10
    BY <1>4, SMT
  <2> QED
    BY <2>1, <2>2, <2>3 DEF Good, Good32, c
<1>7. CASE 31..63 \subseteq Said /\ Said \subseteq 0..63
  <2>1. n = 10
    <3>1. 63 \in 31..63 /\ 63 \in Nat /\ 63 \div 7 + 1 = 10
      BY SMT
    <3>2. 63 \in SaidBy(n)
      BY <1>7, <3>1, SaidIs DEF n
    <3>3. 10 \in 1..n
      <4>1. 63 \div 7 + 1 \in 1..n
        BY <1>1, <3>2, InSaid, Zenon
      <4> QED
        BY <3>1, <4>1
    <3>4. n <= 10
      BY DEF n
    <3> QED
      BY <1>1, <3>3, <3>4, SMT
  <2>2. ASSUME i = 5 PROVE Fifth(c)
    <3>1. /\ 3 + 7 * (i - 1) \in 31..63 /\ 4 + 7 * (i - 1) \in 31..63
          /\ 5 + 7 * (i - 1) \in 31..63 /\ 6 + 7 * (i - 1) \in 31..63
      BY <2>2, SMT
    <3>2. 3 \in 0..6 /\ 4 \in 0..6 /\ 5 \in 0..6 /\ 6 \in 0..6
      BY SMT
    <3>3. 3 \in c /\ 4 \in c /\ 5 \in c /\ 6 \in c
      BY <1>3, <1>7, <3>1, <3>2, Zenon
    <3> QED
      BY <3>3, Zenon DEF Fifth
  <2>3. ASSUME i > 5 PROVE Sixth(i, c)
    <3>1. 3 \in ByteBits(input[5])
      <4>1. /\ 31 \in 31..63 /\ 31 \in Nat /\ 31 \div 7 + 1 = 5 /\ 31 % 7 = 3
        BY SMT
      <4>2. 31 \in SaidBy(n)
        BY <1>7, <4>1, SaidIs DEF n
      <4> QED
        BY <1>1, <4>1, <4>2, InSaid
    <3>2. CASE i < 10
      <4>1. \A b \in 0..6 : b + 7 * (i - 1) \in 31..63
        BY <1>4, <2>3, <3>2, SMT
      <4>2. \A b \in 0..6 : b \in c
        BY <1>3, <1>7, <4>1, Zenon
      <4>3. 7 \in c
        <5>1. HasMark(input[i])
          BY <1>1, <2>1, <3>2 DEF n
        <5> QED
          BY <1>2, <5>1
      <4>4. c = 0..7
        BY <1>2, <1>5, <4>2, <4>3, Zenon
      <4> QED
        BY <3>1, <3>2, <4>4 DEF Sixth
    <3>3. CASE ~(i < 10)
      <4>1. i = 10
        BY <1>4, <3>3, SMT
      <4>2. 0 \in 0..6 /\ 0 + 7 * (i - 1) \in 31..63
        BY <4>1, SMT
      <4>3. 0 \in c
        BY <1>3, <1>7, <4>2, Zenon
      <4>4. \A b \in 0..6 : b # 0 => b + 7 * (i - 1) \notin 0..63
        BY <4>1, SMT
      <4>5. \A b \in 0..6 : b # 0 => b \notin c
        BY <1>3, <1>7, <4>4, Zenon
      <4>6. 7 \notin c
        BY <1>1, <1>2, <2>1, <4>1
      <4>7. c = {0}
        BY <1>2, <1>5, <4>3, <4>5, <4>6, Zenon
      <4> QED
        BY <3>1, <3>3, <4>7 DEF Sixth
    <3> QED
      BY <3>2, <3>3
  <2>4. i <= 10
    BY <1>4, SMT
  <2> QED
    BY <2>2, <2>3, <2>4 DEF Good, Good32, c
<1> QED
  BY <1>6, <1>7

LEMMA DecoderTakes32 ==
  ASSUME DecoderInv, pc \in Outcomes
  PROVE  Takes32
<1> SUFFICES ASSUME op = "decode32", Complete, Len(input) <= 10
             PROVE  /\ Said \subseteq 0..31 \/ (31..63 \subseteq Said /\ Said \subseteq 0..63) => pc = "done"
                    /\ pc = "done" => result = Masked(Said, 32)
  BY Zenon DEF Takes32
<1>1. Known /\ (Finished \/ Ended \/ Refused) /\ op # "decode"
  BY Zenon DEF DecoderInv, Running, Outcomes
<1>2. ~Ended /\ (Finished => pos = Len(input))
  BY <1>1, EndsWhole, Zenon
<1>3. CASE Finished
  <2>1. pc = "done" /\ result = Masked(SaidBy(Len(input)), 32)
    BY <1>1, <1>2, <1>3 DEF Finished, Taken
  <2> QED
    BY <2>1, SaidIs
<1>4. CASE Refused
  <2>1. pc # "done" /\ pos >= 1 /\ ~Good(pos)
    BY <1>4, Zenon DEF Refused
  <2>2. pos \in 1..Len(input)
    BY <1>1, <2>1, Marks, SMT
  <2>3. ~(Said \subseteq 0..31 \/ (31..63 \subseteq Said /\ Said \subseteq 0..63))
    BY <1>1, <2>1, <2>2, Padded, Zenon
  <2> QED
    BY <2>1, <2>3
<1> QED
  BY <1>1, <1>2, <1>3, <1>4

LEMMA FewRead ==
  ASSUME DecoderInv
  PROVE  pos <= 11
<1>1. Known /\ pos \in Nat
  <2>1. Known
    BY DEF DecoderInv
  <2> QED
    BY <2>1, Marks, Zenon
<1>2. \A i \in Nat : Good(i) => i <= 10
  BY Zenon DEF Good, Good64, Good32
<1>3. ASSUME MarkedTo(pos) PROVE pos <= 11
  <2>1. pos >= 1 => pos \in 1..pos
    BY <1>1, SMT
  <2>2. pos >= 1 => pos <= 10
    BY <1>1, <1>2, <1>3, <2>1, Zenon DEF MarkedTo
  <2> QED
    BY <1>1, <2>2, SMT
<1>4. ASSUME MarkedTo(pos - 1), pos >= 1 PROVE pos <= 11
  <2>1. pos > 1 => pos - 1 \in 1..(pos - 1) /\ pos - 1 \in Nat
    BY <1>1, SMT
  <2>2. pos > 1 => pos - 1 <= 10
    BY <1>2, <1>4, <2>1, Zenon DEF MarkedTo
  <2> QED
    BY <1>1, <2>2, SMT
<1> QED
  BY <1>3, <1>4, Zenon DEF DecoderInv, Running, Finished, Ended, Refused

(***************************************************************************)
(* The two together.                                                       *)
(***************************************************************************)
VarintInv == EncoderInv /\ (op = "encode" \/ DecoderInv)

LEMMA VarintStarts == VarintInit => VarintInv
BY EncoderStarts, DecoderStarts, Zenon DEF VarintInv

LEMMA VarintKeeps ==
  ASSUME VarintInv, [VarintNext]_varint_vars
  PROVE  VarintInv'
<1>1. CASE op = "encode"
  <2>1. CASE VarintNext
    <3>1. EncoderInv'
      BY <1>1, <2>1, EncoderOwn, Zenon DEF VarintInv
    <3>2. op' = op
      BY <2>1, Zenon DEF VarintNext, Encoder, Decoder, Start, Low, Join, High, PutLast,
                         TooShort, Byte64, First32, Byte32, Decoding
    <3> QED
      BY <1>1, <3>1, <3>2, Zenon DEF VarintInv
  <2>2. CASE UNCHANGED varint_vars
    <3>1. EncoderInv' = EncoderInv /\ op' = op
      BY <2>2 DEF varint_vars, EncoderInv, Starting, InLowWord, InHighWord, Marking, Beyond, GroupOf,
                  PutsGroups
    <3> QED
      BY <1>1, <3>1, Zenon DEF VarintInv
  <2> QED
    BY <2>1, <2>2
<1>2. CASE op # "encode"
  <2>1. DecoderInv
    BY <1>2 DEF VarintInv
  <2>2. DecoderInv'
    <3>1. CASE VarintNext
      BY <2>1, <3>1, DecoderNext, Zenon
    <3>2. CASE UNCHANGED varint_vars
      <4>1. /\ op' = op /\ input' = input /\ pos' = pos /\ pc' = pc /\ bitpos' = bitpos
            /\ result' = result
        BY <3>2, Zenon DEF varint_vars
      <4>2. /\ \A i : Good(i)' = Good(i)
            /\ \A i : Taken(i)' = Taken(i)
            /\ \A i : MarkedTo(i)' = MarkedTo(i)
        BY <4>1 DEF Good, Good64, Good32, Sixth, Taken, SaidBy, MarkedTo
      <4>3. (Known => Known') /\ (Running => Running') /\ (Finished => Finished')
        BY <4>1, <4>2, Zenon DEF Known, Running, Finished
      <4>4. (Ended => Ended') /\ (Refused => Refused')
        BY <4>1, <4>2, Zenon DEF Ended, Refused
      <4> QED
        BY <2>1, <4>3, <4>4, Zenon DEF DecoderInv
    <3> QED
      BY <3>1, <3>2
  <2>3. op' # "encode"
    BY <2>2, Zenon DEF DecoderInv, Known
  <2> QED
    BY <2>2, <2>3, Zenon DEF VarintInv, EncoderInv
<1> QED
  BY <1>1, <1>2

LEMMA VarintShows == VarintInv => VarintsExact
<1> SUFFICES ASSUME VarintInv PROVE VarintsExact
  OBVIOUS
<1>1. PutsGroups
  <2>1. CASE op = "encode" /\ pc = "done"
    BY <2>1, Zenon DEF VarintInv, EncoderInv, Starting, InLowWord, InHighWord
  <2>2. CASE ~(op = "encode" /\ pc = "done")
    BY <2>2, Zenon DEF PutsGroups
  <2> QED
    BY <2>1, <2>2
<1>2. pos <= 11
  <2>1. CASE op = "encode"
    <3>1. pos = 0
      BY <2>1 DEF VarintInv, EncoderInv
    <3> QED
      BY <3>1, SMT
  <2>2. CASE op # "encode"
    BY <2>2, FewRead, Zenon DEF VarintInv
  <2> QED
    BY <2>1, <2>2
<1>3. ASSUME pc \in Outcomes, op # "encode" PROVE AsModelled /\ Takes64 /\ Takes32
  <2>1. DecoderInv
    BY <1>3 DEF VarintInv
  <2> QED
    BY <1>3, <2>1, Answered, DecoderTakes64, DecoderTakes32, Zenon
<1> QED
  BY <1>1, <1>2, <1>3, Zenon DEF VarintsExact

\* Whatever the value and whatever the bytes: the encoder's loops over its two 32-bit words
\* put out the value's groups of seven and no byte more, and the decoders, turn by turn,
\* take and refuse what the rest of the model has pb_decode_varint and pb_decode_varint32
\* take and refuse, with every bit in its place, and never read more than eleven bytes.
THEOREM VarintsAreExact == VarintSpec => []VarintsExact
<1>1. VarintInit => VarintInv
  BY VarintStarts
<1>2. VarintInv /\ [VarintNext]_varint_vars => VarintInv'
  BY VarintKeeps
<1>3. VarintInv => VarintsExact
  BY VarintShows
<1> QED
  BY <1>1, <1>2, <1>3, PTL DEF VarintSpec

(***************************************************************************)
(* Sequences laid end to end.                                              *)
(***************************************************************************)
Written(info, at, words) == \A j \in 1..Len(words) : info[at + j] = words[j]
Lays(g, s) == g[0] = <<>> /\ \A i \in 1..Len(s) : g[i] = g[i - 1] \o s[i]

LEMMA FlattenIs ==
  ASSUME NEW D, NEW s \in Seq(Seq(D)), Len(s) >= 1
  PROVE  \E g \in [0..Len(s) -> Seq(D)] : Lays(g, s) /\ FlattenSeq(s) = g[Len(s)]
<1> DEFINE n == Len(s)
           step == [p \in Seq(D) \X (1..n) |-> p[1] \o s[p[2]]]
           flatten[i \in 1..n] == IF i = 1 THEN s[i] ELSE flatten[i - 1] \o s[i]
<1>1. n \in Nat /\ n >= 1 /\ \A i \in 1..n : s[i] \in Seq(D)
  BY SMT
<1>2. FlattenSeq(s) = flatten[n]
  <2>1. Len(s) # 0
    BY SMT
  <2> QED
    BY <2>1, Zenon DEF FlattenSeq
<1> HIDE DEF n
<1>3. step \in [Seq(D) \X (1..n) -> Seq(D)]
  <2>1. \A a \in Seq(D), b \in Seq(D) : a \o b \in Seq(D)
    BY SMT
  <2>2. \A p \in Seq(D) \X (1..n) : p[1] \in Seq(D) /\ p[2] \in 1..n
    BY SMT
  <2> QED
    BY <1>1, <2>1, <2>2, Zenon
<1>4. PICK g \in [0..n -> Seq(D)] : Steps(g, step, <<>>, n)
  <2> HIDE DEF step
  <2>1. <<>> \in Seq(D)
    BY SMT
  <2> QED
    BY <1>1, <1>3, <2>1, StepsExist, Zenon
<1>5. g[0] = <<>> /\ \A i \in 1..n : i - 1 \in 0..n /\ i \in 0..n /\ g[i] = g[i - 1] \o s[i]
  <2>1. g[0] = <<>>
    BY <1>4, Zenon DEF Steps
  <2>2. \A i \in 1..n : i - 1 \in 0..n /\ i \in 0..n
    BY <1>1, SMT
  <2>3. ASSUME NEW i \in 1..n PROVE g[i] = g[i - 1] \o s[i]
    <3>1. <<g[i - 1], i>> \in Seq(D) \X (1..n)
      BY <1>4, <2>2, Zenon
    <3>2. step[g[i - 1], i] = g[i - 1] \o s[i]
      BY <3>1, Zenon
    <3> QED
      BY <1>4, <3>2, Zenon DEF Steps
  <2> QED
    BY <2>1, <2>2, <2>3, Zenon
<1>6. g[1] = s[1] /\ 1 \in 1..n /\ n \in 1..n
  <2>1. 1 \in 1..n /\ 1 - 1 = 0 /\ n \in 1..n
    BY <1>1, SMT
  <2>2. \A a \in Seq(D) : <<>> \o a = a
    BY SMT
  <2>3. s[1] \in Seq(D) /\ g[1] = g[1 - 1] \o s[1]
    BY <1>1, <1>5, <2>1, Zenon
  <2>4. g[1] = <<>> \o s[1]
    BY <1>5, <2>1, <2>3
  <2> QED
    BY <2>1, <2>2, <2>3, <2>4
<1> DEFINE f == [i \in 1..n |-> g[i]]
<1>7. f = [i \in 1..n |-> IF i = 1 THEN s[i] ELSE f[i - 1] \o s[i]]
  <2>1. \A i \in 1..n : i # 1 => i - 1 \in 1..n
    BY <1>1, SMT
  <2>2. \A i \in 1..n : f[i] = IF i = 1 THEN s[i] ELSE f[i - 1] \o s[i]
    BY <1>5, <1>6, <2>1, Zenon
  <2> QED
    BY <2>2, Zenon
<1> HIDE DEF f
<1>8. flatten = [i \in 1..n |-> IF i = 1 THEN s[i] ELSE flatten[i - 1] \o s[i]]
  BY <1>7, Zenon
<1> HIDE DEF flatten
<1>9. \A i \in 0..(n - 1) : flatten[i + 1] = g[i + 1]
  <2> DEFINE S == {i \in 0..(n - 1) : flatten[i + 1] = g[i + 1]}
  <2>1. n - 1 \in Nat /\ 0 \in 0..(n - 1) /\ 0 + 1 = 1
    BY <1>1, SMT
  <2>2. 0 \in S
    <3>1. flatten[1] = s[1]
      BY <1>6, <1>8, Zenon
    <3> QED
      BY <1>6, <2>1, <3>1
  <2>3. ASSUME NEW i \in 1..(n - 1), i - 1 \in S PROVE i \in S
    <3>1. i \in 0..(n - 1) /\ i + 1 \in 1..n /\ i + 1 # 1 /\ (i + 1) - 1 = i /\ (i - 1) + 1 = i
      BY <1>1, SMT
    <3>2. flatten[i + 1] = flatten[i] \o s[i + 1]
      BY <1>8, <3>1, Zenon
    <3>3. flatten[i] = g[i]
      BY <2>3, <3>1
    <3>4. g[i + 1] = g[i] \o s[i + 1]
      BY <1>5, <3>1, Zenon
    <3> QED
      BY <3>1, <3>2, <3>3, <3>4
  <2> HIDE DEF S
  <2>4. \A i \in 0..(n - 1) : i \in S
    BY <2>1, <2>2, <2>3, UpTo, Zenon
  <2> QED
    BY <2>4 DEF S
<1>10. flatten[n] = g[n]
  <2>1. n - 1 \in 0..(n - 1) /\ (n - 1) + 1 = n
    BY <1>1, SMT
  <2> QED
    BY <1>9, <2>1
<1>11. Lays(g, s)
  BY <1>5, Zenon DEF Lays, n
<1> QED
  BY <1>2, <1>4, <1>10, <1>11 DEF n

\* Where each of them begins, and what is found there.
LEMMA LaidAt ==
  ASSUME NEW D, NEW s \in Seq(Seq(D)), NEW g \in [0..Len(s) -> Seq(D)], Lays(g, s)
  PROVE  /\ \A i \in 1..Len(s) : Len(g[i]) = Len(g[i - 1]) + Len(s[i])
         /\ \A i \in 1..Len(s) : Written(g[Len(s)], Len(g[i - 1]), s[i])
<1> DEFINE n == Len(s)
<1>1. n \in Nat /\ \A i \in 1..n : i - 1 \in 0..n /\ i \in 0..n /\ s[i] \in Seq(D)
  BY SMT
<1> HIDE DEF n
<1>2. \A a \in Seq(D), b \in Seq(D) :
         /\ Len(a \o b) = Len(a) + Len(b) /\ Len(a) \in Nat
         /\ \A k \in 1..Len(a) : (a \o b)[k] = a[k] /\ k \in 1..Len(a \o b)
         /\ \A j \in Nat : j >= 1 /\ j <= Len(b) =>
              (a \o b)[Len(a) + j] = b[j] /\ Len(a) + j \in 1..Len(a \o b)
  <2> TAKE a \in Seq(D), b \in Seq(D)
  <2>1. Len(a \o b) = Len(a) + Len(b) /\ Len(a) \in Nat /\ Len(b) \in Nat
    BY SMT
  <2>2. \A k \in 1..Len(a) : (a \o b)[k] = a[k] /\ k \in 1..Len(a \o b)
    BY SMT
  <2>3. ASSUME NEW j \in Nat, j >= 1, j <= Len(b)
        PROVE  (a \o b)[Len(a) + j] = b[j] /\ Len(a) + j \in 1..Len(a \o b)
    BY <2>1, <2>3, SMT
  <2> QED
    BY <2>1, <2>2, <2>3, Zenon
<1>3. \A i \in 1..n : g[i] = g[i - 1] \o s[i] /\ g[i - 1] \in Seq(D)
  BY <1>1, Zenon DEF Lays, n
<1>4. \A i \in 1..n : Len(g[i]) = Len(g[i - 1]) + Len(s[i])
  <2> TAKE i \in 1..n
  <2>1. g[i - 1] \in Seq(D) /\ s[i] \in Seq(D) /\ g[i] = g[i - 1] \o s[i]
    BY <1>1, <1>3, Zenon
  <2>2. Len(g[i - 1] \o s[i]) = Len(g[i - 1]) + Len(s[i])
    BY <1>2, <2>1, Zenon
  <2> QED
    BY <2>1, <2>2
<1>5. ASSUME NEW i \in 1..n, NEW j \in Nat, j >= 1, j <= Len(s[i])
      PROVE  g[n][Len(g[i - 1]) + j] = s[i][j]
  <2> DEFINE x == Len(g[i - 1]) + j
             S == {k \in 0..n : k >= i => x \in 1..Len(g[k]) /\ g[k][x] = s[i][j]}
  <2>1. 0 \in S
    BY <1>1, SMT
  <2>2. ASSUME NEW k \in 1..n, k - 1 \in S PROVE k \in S
    <3>1. k \in 0..n /\ k - 1 \in 0..n
      BY <1>1, Zenon
    <3>2. CASE k = i
      <4>1. g[i] = g[i - 1] \o s[i] /\ g[i - 1] \in Seq(D) /\ s[i] \in Seq(D)
        BY <1>1, <1>3, Zenon
      <4>2. (g[i - 1] \o s[i])[x] = s[i][j] /\ x \in 1..Len(g[i - 1] \o s[i])
        BY <1>2, <1>5, <4>1, Zenon
      <4>3. g[i][x] = s[i][j] /\ x \in 1..Len(g[i])
        BY <4>1, <4>2
      <4> QED
        BY <3>1, <3>2, <4>3, Zenon
    <3>3. CASE k > i
      <4>1. k - 1 >= i
        BY <1>1, <3>3, SMT
      <4>2. x \in 1..Len(g[k - 1]) /\ g[k - 1][x] = s[i][j]
        BY <2>2, <4>1, Zenon
      <4>3. g[k] = g[k - 1] \o s[k] /\ g[k - 1] \in Seq(D) /\ s[k] \in Seq(D)
        BY <1>1, <1>3, Zenon
      <4>4. (g[k - 1] \o s[k])[x] = g[k - 1][x] /\ x \in 1..Len(g[k - 1] \o s[k])
        BY <1>2, <4>2, <4>3, Zenon
      <4>5. g[k][x] = s[i][j] /\ x \in 1..Len(g[k])
        BY <4>2, <4>3, <4>4
      <4> QED
        BY <3>1, <4>5, Zenon
    <3>4. k = i \/ k > i \/ ~(k >= i)
      BY <1>1, SMT
    <3> QED
      BY <3>1, <3>2, <3>3, <3>4, Zenon
  <2> HIDE DEF S
  <2>3. \A k \in 0..n : k \in S
    BY <1>1, <2>1, <2>2, UpTo, Zenon
  <2>4. n \in 0..n /\ n >= i
    BY <1>1, SMT
  <2> QED
    BY <2>3, <2>4, Zenon DEF S
<1>6. ASSUME NEW i \in 1..n PROVE Written(g[n], Len(g[i - 1]), s[i])
  <2>1. s[i] \in Seq(D)
    BY <1>1, Zenon
  <2>2. \A j \in 1..Len(s[i]) : j \in Nat /\ j >= 1 /\ j <= Len(s[i])
    BY <2>1, SMT
  <2> QED
    BY <1>5, <2>2, Zenon DEF Written
<1> QED
  BY <1>4, <1>6, Zenon DEF n

(***************************************************************************)
(* What is packed into a word, and taken out of it.                        *)
(***************************************************************************)
LEMMA InPut ==
  ASSUME NEW n \in Nat, NEW width \in 0..31, NEW shift \in Nat
  PROVE  /\ \A x \in Put(n, width, shift) : x \in Nat /\ x >= shift /\ x < shift + width
         /\ \A b \in 0..(width - 1) : b + shift \in Put(n, width, shift) <=> Bit(n, b)
<1>1. \A b \in 0..(width - 1) : b \in Nat /\ b + shift \in Nat /\ b + shift >= shift /\ b + shift < shift + width
  BY SMT
<1>2. \A b \in BitsOf(n, width) : b \in 0..(width - 1) /\ Bit(n, b)
  BY Zenon DEF BitsOf
<1>3. ASSUME NEW x \in Put(n, width, shift) PROVE x \in Nat /\ x >= shift /\ x < shift + width
  <2>1. PICK b \in BitsOf(n, width) : x = b + shift
    BY Zenon DEF Put
  <2> QED
    BY <1>1, <1>2, <2>1
<1>4. ASSUME NEW b \in 0..(width - 1) PROVE b + shift \in Put(n, width, shift) <=> Bit(n, b)
  <2>1. ASSUME Bit(n, b) PROVE b + shift \in Put(n, width, shift)
    BY <2>1, Zenon DEF Put, BitsOf
  <2>2. ASSUME b + shift \in Put(n, width, shift) PROVE Bit(n, b)
    <3>1. PICK c \in BitsOf(n, width) : b + shift = c + shift
      BY <2>2, Zenon DEF Put
    <3>2. c \in 0..(width - 1) /\ Bit(n, c)
      BY <1>2, <3>1, Zenon
    <3>3. b = c
      BY <3>1, <3>2, SMT
    <3> QED
      BY <3>2, <3>3
  <2> QED
    BY <2>1, <2>2
<1> QED
  BY <1>3, <1>4

\* A word has n in width bits from shift on.
Has(word, n, width, shift) ==
  /\ Put(n, width, shift) \subseteq word
  /\ \A x \in word : x \in Nat /\ (x \in Put(n, width, shift) \/ x < shift \/ x >= shift + width)

LEMMA HadPart ==
  ASSUME NEW n \in Nat, NEW width \in 0..31, NEW shift \in Nat, NEW word, Has(word, n, width, shift)
  PROVE  /\ Part(word, shift, width) = n % Power[width]
         /\ PB_FITS(n, width) => Part(word, shift, width) = n
<1>1. \A b \in word : b \in Nat
  BY DEF Has
<1>2. ASSUME NEW b \in 0..(width - 1) PROVE b + shift \in word <=> Bit(n, b)
  <2>1. ~(b + shift < shift) /\ ~(b + shift >= shift + width)
    BY SMT
  <2>2. b + shift \in word <=> b + shift \in Put(n, width, shift)
    BY <2>1, Zenon DEF Has
  <2> QED
    BY <2>2, InPut, Zenon
<1>3. Part(word, shift, width) = n % Power[width]
  BY <1>1, <1>2, PartIs, Zenon
<1>4. ASSUME PB_FITS(n, width) PROVE n % Power[width] = n
  <2> DEFINE p == Power[width]
  <2>1. p \in Nat /\ n < p
    BY <1>4, PowerPositive DEF PB_FITS
  <2> HIDE DEF p
  <2>2. n % p = n
    BY <2>1, SMT
  <2> QED
    BY <2>2 DEF p
<1> QED
  BY <1>3, <1>4

LEMMA CodeIs ==
  ASSUME NEW types, NEW t, Len(types) \in Nat, DOMAIN types = 1..Len(types), t \in ToSet(types)
  PROVE  /\ CodeOf(types, t) \in 0..(Len(types) - 1) /\ types[CodeOf(types, t) + 1] = t
<1>1. PICK i \in DOMAIN types : types[i] = t
  BY Zenon DEF ToSet
<1>2. i - 1 \in 0..(Len(types) - 1) /\ (i - 1) + 1 = i
  BY SMT
<1>3. types[(i - 1) + 1] = t
  BY <1>1, <1>2
<1>4. \E n \in 0..(Len(types) - 1) : types[n + 1] = t
  BY <1>2, <1>3, Zenon
<1> QED
  BY <1>4, Zenon DEF CodeOf

LEMMA FieldFacts ==
  ASSUME NEW f, IsField(f)
  PROVE  /\ f.tag \in Nat /\ f.tag >= 1 /\ f.off \in Nat /\ f.size \in Nat
         /\ f.delta \in 0..255 /\ f.count \in Nat /\ f.count >= 1
<1>1. f.tag \in Nat \ {0} /\ f.count \in Nat \ {0}
  BY Zenon DEF IsField
<1>2. f.off \in Nat /\ f.size \in Nat /\ f.delta \in 0..255
  BY Zenon DEF IsField
<1> QED
  BY <1>1, <1>2, SMT

TypeIs(f) == [lt |-> f.lt, ht |-> f.ht, at |-> f.at]

LEMMA Codes ==
  ASSUME NEW f, IsField(f)
  PROVE  /\ CodeOf(LTypes, f.lt) \in 0..15 /\ LTypes[CodeOf(LTypes, f.lt) + 1] = f.lt
         /\ CodeOf(HTypes, f.ht) \in 0..3 /\ HTypes[CodeOf(HTypes, f.ht) + 1] = f.ht
         /\ CodeOf(ATypes, f.at) \in 0..3 /\ ATypes[CodeOf(ATypes, f.at) + 1] = f.at
<1>1. /\ Len(LTypes) = 12 /\ DOMAIN LTypes = 1..Len(LTypes) /\ Len(LTypes) \in Nat
      /\ Len(HTypes) = 4 /\ DOMAIN HTypes = 1..Len(HTypes) /\ Len(HTypes) \in Nat
      /\ Len(ATypes) = 3 /\ DOMAIN ATypes = 1..Len(ATypes) /\ Len(ATypes) \in Nat
  <2>1. Len(LTypes) = 12 /\ DOMAIN LTypes = 1..12
    BY DEF LTypes
  <2>2. Len(HTypes) = 4 /\ DOMAIN HTypes = 1..4
    BY DEF HTypes
  <2>3. Len(ATypes) = 3 /\ DOMAIN ATypes = 1..3
    BY DEF ATypes
  <2> QED
    BY <2>1, <2>2, <2>3
<1>2. f.lt \in ToSet(LTypes) /\ f.ht \in ToSet(HTypes) /\ f.at \in ToSet(ATypes)
  BY DEF IsField
<1>3. /\ CodeOf(LTypes, f.lt) \in 0..(Len(LTypes) - 1) /\ LTypes[CodeOf(LTypes, f.lt) + 1] = f.lt
      /\ CodeOf(HTypes, f.ht) \in 0..(Len(HTypes) - 1) /\ HTypes[CodeOf(HTypes, f.ht) + 1] = f.ht
      /\ CodeOf(ATypes, f.at) \in 0..(Len(ATypes) - 1) /\ ATypes[CodeOf(ATypes, f.at) + 1] = f.at
  BY <1>1, <1>2, CodeIs, Zenon
<1> DEFINE l == CodeOf(LTypes, f.lt)
           h == CodeOf(HTypes, f.ht)
           a == CodeOf(ATypes, f.at)
<1>4. l \in 0..(12 - 1) /\ h \in 0..(4 - 1) /\ a \in 0..(3 - 1)
  BY <1>1, <1>3
<1> HIDE DEF l, h, a
<1>5. l \in 0..15 /\ h \in 0..3 /\ a \in 0..3
  BY <1>4, SMT
<1> QED
  BY <1>3, <1>5 DEF l, h, a

\* The first word of every format, with whatever the format has above it.
LEMMA FirstHas ==
  ASSUME NEW f, IsField(f), NEW len \in 0..3, NEW rest, \A x \in rest : x \in Nat /\ x >= 16,
         NEW word, word = FirstWord(f, len) \cup rest
  PROVE  /\ Part(word, 0, 2) = len /\ Part(word, 2, 6) = f.tag % 64 /\ TypeOf(word) = TypeIs(f)
         /\ \A x \in word : x \in Nat /\ (x \in rest \/ x < 16)
<1> DEFINE l == CodeOf(LTypes, f.lt)
           h == CodeOf(HTypes, f.ht)
           a == CodeOf(ATypes, f.at)
           P == Put(len, 2, 0)
           T == Put(f.tag, 6, 2)
           L == Put(l, 4, 8)
           H == Put(h, 2, 12)
           A == Put(a, 2, 14)
<1>1. /\ l \in 0..15 /\ h \in 0..3 /\ a \in 0..3 /\ f.tag \in Nat /\ len \in Nat
      /\ LTypes[l + 1] = f.lt /\ HTypes[h + 1] = f.ht /\ ATypes[a + 1] = f.at
  <2>1. f.tag \in Nat /\ len \in Nat
    BY FieldFacts, SMT
  <2>2. /\ CodeOf(LTypes, f.lt) \in 0..15 /\ LTypes[CodeOf(LTypes, f.lt) + 1] = f.lt
        /\ CodeOf(HTypes, f.ht) \in 0..3 /\ HTypes[CodeOf(HTypes, f.ht) + 1] = f.ht
        /\ CodeOf(ATypes, f.at) \in 0..3 /\ ATypes[CodeOf(ATypes, f.at) + 1] = f.at
    BY Codes
  <2> QED
    BY <2>1, <2>2
<1>2. l \in Nat /\ h \in Nat /\ a \in Nat
  <2> HIDE DEF l, h, a
  <2> QED
    BY <1>1, SMT
<1> HIDE DEF l, h, a
<1>3. {b + 8 : b \in TypeBits(f)} = L \cup H \cup A
  <2>1. \A n \in Nat, w, s \in Nat : {b + 8 : b \in Put(n, w, s)} = Put(n, w, s + 8)
    <3> SUFFICES ASSUME NEW n \in Nat, NEW w, NEW s \in Nat
                 PROVE  {b + 8 : b \in Put(n, w, s)} = Put(n, w, s + 8)
      BY Zenon
    <3>1. BitsOf(n, w) \subseteq Int
      BY SMT DEF BitsOf
    <3>2. \A b \in Int : (b + s) + 8 = b + (s + 8)
      BY SMT
    <3> QED
      BY <3>1, <3>2, Zenon DEF Put
  <2>2. 0 \in Nat /\ 4 \in Nat /\ 6 \in Nat /\ 0 + 8 = 8 /\ 4 + 8 = 12 /\ 6 + 8 = 14
    BY SMT
  <2>3. /\ {b + 8 : b \in Put(l, 4, 0)} = L /\ {b + 8 : b \in Put(h, 2, 4)} = H
        /\ {b + 8 : b \in Put(a, 2, 6)} = A
    BY <1>2, <2>1, <2>2
  <2>4. TypeBits(f) = Put(l, 4, 0) \cup Put(h, 2, 4) \cup Put(a, 2, 6)
    BY DEF TypeBits, l, h, a
  <2>5. {b + 8 : b \in TypeBits(f)} =
          {b + 8 : b \in Put(l, 4, 0)} \cup {b + 8 : b \in Put(h, 2, 4)} \cup {b + 8 : b \in Put(a, 2, 6)}
    BY <2>4, Zenon
  <2> QED
    BY <2>3, <2>5
<1>4. word = P \cup T \cup (L \cup H \cup A) \cup rest
  BY <1>3 DEF FirstWord
<1>5. /\ \A x \in P : x \in Nat /\ x >= 0 /\ x < 0 + 2
      /\ \A x \in T : x \in Nat /\ x >= 2 /\ x < 2 + 6
      /\ \A x \in L : x \in Nat /\ x >= 8 /\ x < 8 + 4
      /\ \A x \in H : x \in Nat /\ x >= 12 /\ x < 12 + 2
      /\ \A x \in A : x \in Nat /\ x >= 14 /\ x < 14 + 2
  <2>1. 2 \in 0..31 /\ 6 \in 0..31 /\ 4 \in 0..31 /\ 0 \in Nat /\ 2 \in Nat /\ 8 \in Nat /\ 12 \in Nat /\ 14 \in Nat
    BY SMT
  <2> QED
    BY <1>1, <1>2, <2>1, InPut, Zenon
<1>6. Has(word, len, 2, 0) /\ Has(word, f.tag, 6, 2) /\ Has(word, l, 4, 8) /\ Has(word, h, 2, 12) /\ Has(word, a, 2, 14)
  <2> HIDE DEF P, T, L, H, A
  <2>1. /\ P \subseteq word /\ T \subseteq word /\ L \subseteq word /\ H \subseteq word /\ A \subseteq word
        /\ \A x \in word : x \in P \/ x \in T \/ x \in L \/ x \in H \/ x \in A \/ x \in rest
    BY <1>4, Zenon
  <2>2. \A x \in word : x \in Nat /\ (x \in P \/ x < 0 \/ x >= 0 + 2)
    BY <1>5, <2>1, SMT
  <2>3. \A x \in word : x \in Nat /\ (x \in T \/ x < 2 \/ x >= 2 + 6)
    BY <1>5, <2>1, SMT
  <2>4. \A x \in word : x \in Nat /\ (x \in L \/ x < 8 \/ x >= 8 + 4)
    BY <1>5, <2>1, SMT
  <2>5. \A x \in word : x \in Nat /\ (x \in H \/ x < 12 \/ x >= 12 + 2)
    BY <1>5, <2>1, SMT
  <2>6. \A x \in word : x \in Nat /\ (x \in A \/ x < 14 \/ x >= 14 + 2)
    BY <1>5, <2>1, SMT
  <2> QED
    BY <2>1, <2>2, <2>3, <2>4, <2>5, <2>6 DEF Has, P, T, L, H, A
<1>7. /\ 2 \in 0..31 /\ 6 \in 0..31 /\ 4 \in 0..31
      /\ 0 \in Nat /\ 2 \in Nat /\ 8 \in Nat /\ 12 \in Nat /\ 14 \in Nat
  BY SMT
<1>8. PB_FITS(len, 2) /\ PB_FITS(l, 4) /\ PB_FITS(h, 2) /\ PB_FITS(a, 2) /\ Power[6] = 64
  BY <1>1, Powers, SMT DEF PB_FITS
<1>9. /\ Part(word, 0, 2) = len /\ Part(word, 2, 6) = f.tag % Power[6]
      /\ Part(word, 8, 4) = l /\ Part(word, 12, 2) = h /\ Part(word, 14, 2) = a
  <2>0. PB_FITS(len, 2) /\ PB_FITS(l, 4) /\ PB_FITS(h, 2) /\ PB_FITS(a, 2) /\ len \in Nat /\ f.tag \in Nat
    BY <1>1, <1>8
  <2>1. Part(word, 0, 2) = len
    BY <2>0, <1>6, <1>7, HadPart, SMT
  <2>2. Part(word, 2, 6) = f.tag % Power[6]
    BY <2>0, <1>6, <1>7, HadPart, SMT
  <2>3. Part(word, 8, 4) = l
    BY <2>0, <1>2, <1>6, <1>7, HadPart, SMT
  <2>4. Part(word, 12, 2) = h
    BY <2>0, <1>2, <1>6, <1>7, HadPart, SMT
  <2>5. Part(word, 14, 2) = a
    BY <2>0, <1>2, <1>6, <1>7, HadPart, SMT
  <2> QED
    BY <2>1, <2>2, <2>3, <2>4, <2>5
<1>10. TypeOf(word) = TypeIs(f)
  BY <1>1, <1>9 DEF TypeOf, TypeIs
<1>11. \A x \in word : x \in Nat /\ (x \in rest \/ x < 16)
  <2> HIDE DEF P, T, L, H, A
  <2> QED
    BY <1>4, <1>5, SMT
<1> QED
  BY <1>8, <1>9, <1>10, <1>11

\* Up to three numbers, one above the other, over what a word has already.
Under(old, l) == \A x \in old : x \in Nat /\ x < l
Above(word, old, l) == old \subseteq word /\ \A x \in word : x \in old \/ (x \in Nat /\ x >= l)
Room1(l, wa, sa) == l \in Nat /\ wa \in 0..31 /\ sa \in Nat /\ l <= sa
Room2(l, wa, sa, wb, sb) == Room1(l, wa, sa) /\ Room1(sa + wa, wb, sb)
Room3(l, wa, sa, wb, sb, wc, sc) == Room2(l, wa, sa, wb, sb) /\ Room1(sb + wb, wc, sc)
Holds1(word, old, a, wa, sa) == word = old \cup Put(a, wa, sa)
Holds2(word, old, a, wa, sa, b, wb, sb) == word = old \cup Put(a, wa, sa) \cup Put(b, wb, sb)
Holds3(word, old, a, wa, sa, b, wb, sb, c, wc, sc) ==
  word = old \cup Put(a, wa, sa) \cup Put(b, wb, sb) \cup Put(c, wc, sc)

LEMMA ThreeHad ==
  ASSUME NEW old, NEW l, Under(old, l),
         NEW a \in Nat, NEW wa, NEW sa, NEW b \in Nat, NEW wb, NEW sb,
         NEW c \in Nat, NEW wc, NEW sc, Room3(l, wa, sa, wb, sb, wc, sc),
         NEW word, Holds3(word, old, a, wa, sa, b, wb, sb, c, wc, sc)
  PROVE  /\ Part(word, sa, wa) = a % Power[wa] /\ (PB_FITS(a, wa) => Part(word, sa, wa) = a)
         /\ Part(word, sb, wb) = b % Power[wb] /\ (PB_FITS(b, wb) => Part(word, sb, wb) = b)
         /\ Part(word, sc, wc) = c % Power[wc] /\ (PB_FITS(c, wc) => Part(word, sc, wc) = c)
         /\ Above(word, old, l)
<1>0. /\ l \in Nat /\ wa \in 0..31 /\ sa \in Nat /\ l <= sa
      /\ wb \in 0..31 /\ sb \in Nat /\ sa + wa <= sb
      /\ wc \in 0..31 /\ sc \in Nat /\ sb + wb <= sc
  BY Zenon DEF Room1, Room2, Room3
<1>a. wa \in 0..31 /\ sa \in Nat /\ wb \in 0..31 /\ sb \in Nat /\ wc \in 0..31 /\ sc \in Nat
  BY <1>0, Zenon
<1> DEFINE A == Put(a, wa, sa)
           B == Put(b, wb, sb)
           C == Put(c, wc, sc)
<1>1. \A x \in A : x \in Nat /\ x >= sa /\ x < sa + wa
  BY <1>a, InPut, Zenon
<1>2. \A x \in B : x \in Nat /\ x >= sb /\ x < sb + wb
  BY <1>a, InPut, Zenon
<1>3. \A x \in C : x \in Nat /\ x >= sc /\ x < sc + wc
  BY <1>a, InPut, Zenon
<1>4. A \subseteq word /\ B \subseteq word /\ C \subseteq word
  BY Zenon DEF Holds3
<1>5. \A x \in word : (x \in Nat /\ x < l) \/ x \in A \/ x \in B \/ x \in C
  BY Zenon DEF Holds3, Under
<1> HIDE DEF A, B, C
<1>6. Has(word, a, wa, sa)
  <2>1. \A x \in word : x \in Nat /\ (x \in A \/ x < sa \/ x >= sa + wa)
    BY <1>0, <1>1, <1>2, <1>3, <1>5, SMT
  <2> QED
    BY <1>4, <2>1 DEF Has, A
<1>7. Has(word, b, wb, sb)
  <2>1. \A x \in word : x \in Nat /\ (x \in B \/ x < sb \/ x >= sb + wb)
    BY <1>0, <1>1, <1>2, <1>3, <1>5, SMT
  <2> QED
    BY <1>4, <2>1 DEF Has, B
<1>8. Has(word, c, wc, sc)
  <2>1. \A x \in word : x \in Nat /\ (x \in C \/ x < sc \/ x >= sc + wc)
    BY <1>0, <1>1, <1>2, <1>3, <1>5, SMT
  <2> QED
    BY <1>4, <2>1 DEF Has, C
<1>9. Part(word, sa, wa) = a % Power[wa] /\ (PB_FITS(a, wa) => Part(word, sa, wa) = a)
  BY <1>6, <1>a, HadPart, SMT
<1>10. Part(word, sb, wb) = b % Power[wb] /\ (PB_FITS(b, wb) => Part(word, sb, wb) = b)
  BY <1>7, <1>a, HadPart, SMT
<1>11. Part(word, sc, wc) = c % Power[wc] /\ (PB_FITS(c, wc) => Part(word, sc, wc) = c)
  BY <1>8, <1>a, HadPart, SMT
<1>12. Above(word, old, l)
  <2>1. old \subseteq word /\ \A x \in word : x \in old \/ x \in A \/ x \in B \/ x \in C
    BY Zenon DEF Holds3, A, B, C
  <2>2. \A x \in word : x \in old \/ (x \in Nat /\ x >= l)
    BY <1>0, <1>1, <1>2, <1>3, <2>1, SMT
  <2> QED
    BY <2>1, <2>2 DEF Above
<1> QED
  BY <1>9, <1>10, <1>11, <1>12, Zenon

LEMMA OneHad ==
  ASSUME NEW old, NEW l, Under(old, l),
         NEW a \in Nat, NEW wa, NEW sa, Room1(l, wa, sa),
         NEW word, Holds1(word, old, a, wa, sa)
  PROVE  /\ Part(word, sa, wa) = a % Power[wa] /\ (PB_FITS(a, wa) => Part(word, sa, wa) = a)
         /\ Above(word, old, l)
<1>0. l \in Nat /\ wa \in 0..31 /\ sa \in Nat /\ l <= sa
  BY Zenon DEF Room1
<1>a. wa \in 0..31 /\ sa \in Nat
  BY <1>0, Zenon
<1> DEFINE A == Put(a, wa, sa)
<1>1. \A x \in A : x \in Nat /\ x >= sa /\ x < sa + wa
  BY <1>a, InPut, Zenon
<1>2. A \subseteq word /\ \A x \in word : (x \in Nat /\ x < l) \/ x \in A
  BY Zenon DEF Holds1, Under
<1> HIDE DEF A
<1>3. \A x \in word : x \in Nat /\ (x \in A \/ x < sa \/ x >= sa + wa)
  BY <1>0, <1>1, <1>2, SMT
<1>4. Has(word, a, wa, sa)
  BY <1>2, <1>3 DEF Has, A
<1>5. Part(word, sa, wa) = a % Power[wa] /\ (PB_FITS(a, wa) => Part(word, sa, wa) = a)
  BY <1>4, <1>a, HadPart, SMT
<1>6. Above(word, old, l)
  <2>1. old \subseteq word /\ \A x \in word : x \in old \/ x \in A
    BY Zenon DEF Holds1, A
  <2>2. \A x \in word : x \in old \/ (x \in Nat /\ x >= l)
    BY <1>0, <1>1, <2>1, SMT
  <2> QED
    BY <2>1, <2>2 DEF Above
<1> QED
  BY <1>5, <1>6, Zenon

LEMMA TwoHad ==
  ASSUME NEW old, NEW l, Under(old, l),
         NEW a \in Nat, NEW wa, NEW sa, NEW b \in Nat, NEW wb, NEW sb,
         Room2(l, wa, sa, wb, sb),
         NEW word, Holds2(word, old, a, wa, sa, b, wb, sb)
  PROVE  /\ Part(word, sa, wa) = a % Power[wa] /\ (PB_FITS(a, wa) => Part(word, sa, wa) = a)
         /\ Part(word, sb, wb) = b % Power[wb] /\ (PB_FITS(b, wb) => Part(word, sb, wb) = b)
         /\ Above(word, old, l)
<1>0. /\ l \in Nat /\ wa \in 0..31 /\ sa \in Nat /\ l <= sa
      /\ wb \in 0..31 /\ sb \in Nat /\ sa + wa <= sb
  BY Zenon DEF Room1, Room2
<1>a. wa \in 0..31 /\ sa \in Nat /\ wb \in 0..31 /\ sb \in Nat
  BY <1>0, Zenon
<1> DEFINE A == Put(a, wa, sa)
           B == Put(b, wb, sb)
<1>1. \A x \in A : x \in Nat /\ x >= sa /\ x < sa + wa
  BY <1>a, InPut, Zenon
<1>2. \A x \in B : x \in Nat /\ x >= sb /\ x < sb + wb
  BY <1>a, InPut, Zenon
<1>3. A \subseteq word /\ B \subseteq word
  BY Zenon DEF Holds2
<1>4. \A x \in word : (x \in Nat /\ x < l) \/ x \in A \/ x \in B
  BY Zenon DEF Holds2, Under
<1> HIDE DEF A, B
<1>5. Has(word, a, wa, sa)
  <2>1. \A x \in word : x \in Nat /\ (x \in A \/ x < sa \/ x >= sa + wa)
    BY <1>0, <1>1, <1>2, <1>4, SMT
  <2> QED
    BY <1>3, <2>1 DEF Has, A
<1>6. Has(word, b, wb, sb)
  <2>1. \A x \in word : x \in Nat /\ (x \in B \/ x < sb \/ x >= sb + wb)
    BY <1>0, <1>1, <1>2, <1>4, SMT
  <2> QED
    BY <1>3, <2>1 DEF Has, B
<1>7. Part(word, sa, wa) = a % Power[wa] /\ (PB_FITS(a, wa) => Part(word, sa, wa) = a)
  BY <1>5, <1>a, HadPart, SMT
<1>8. Part(word, sb, wb) = b % Power[wb] /\ (PB_FITS(b, wb) => Part(word, sb, wb) = b)
  BY <1>6, <1>a, HadPart, SMT
<1>9. Above(word, old, l)
  <2>1. old \subseteq word /\ \A x \in word : x \in old \/ x \in A \/ x \in B
    BY Zenon DEF Holds2, A, B
  <2>2. \A x \in word : x \in old \/ (x \in Nat /\ x >= l)
    BY <1>0, <1>1, <1>2, <2>1, SMT
  <2> QED
    BY <2>1, <2>2 DEF Above
<1> QED
  BY <1>7, <1>8, <1>9, Zenon

LEMMA PutBits ==
  ASSUME NEW n \in Nat, NEW width \in 0..31
  PROVE  BitsOf(n, width) = Put(n, width, 0)
<1>1. \A b \in BitsOf(n, width) : b + 0 = b
  BY SMT DEF BitsOf
<1> QED
  BY <1>1, Zenon DEF Put

LEMMA LowBits ==
  ASSUME NEW n \in Nat, NEW width \in 0..31, NEW w \in 0..width
  PROVE  Part(BitsOf(n, width), 0, w) = n % Power[w]
<1>1. \A b \in BitsOf(n, width) : b \in Nat
  BY SMT DEF BitsOf
<1>2. ASSUME NEW b \in 0..(w - 1) PROVE b + 0 \in BitsOf(n, width) <=> Bit(n, b)
  <2>1. b + 0 = b /\ b \in 0..(width - 1)
    BY SMT
  <2> QED
    BY <2>1, Zenon DEF BitsOf
<1>3. 0 \in Nat /\ w \in 0..31
  BY SMT
<1> QED
  BY <1>1, <1>2, <1>3, PartIs, Zenon

LEMMA OneOfThree ==
  ASSUME NEW f, IsField(f) PROVE f.at \in {"STATIC", "CALLBACK", "POINTER"}
<1>1. f.at \in ToSet(ATypes)
  BY Zenon DEF IsField
<1>2. PICK i \in DOMAIN ATypes : f.at = ATypes[i]
  BY <1>1, Zenon DEF ToSet
<1>3. DOMAIN ATypes = 1..3
  BY DEF ATypes
<1>4. ATypes[1] = "STATIC" /\ ATypes[2] = "CALLBACK" /\ ATypes[3] = "POINTER"
  BY DEF ATypes
<1>5. i = 1 \/ i = 2 \/ i = 3
  BY <1>3, SMT
<1> QED
  BY <1>2, <1>4, <1>5

LEMMA Places ==
  ASSUME NEW f, IsField(f)
  PROVE  PB_SIZE_OFFSET(f) \in 0..255 /\ PB_ARRAY_SIZE(f) \in Nat /\ PB_ARRAY_SIZE(f) >= 1
<1>1. f.delta \in 0..255 /\ f.count \in Nat /\ f.count >= 1 /\ 0 \in 0..255
  BY FieldFacts, SMT
<1>2. PB_SIZE_OFFSET(f) = 0 \/ PB_SIZE_OFFSET(f) = f.delta
  BY OneOfThree, Zenon DEF PB_SIZE_OFFSET
<1>3. PB_ARRAY_SIZE(f) = f.count \/ PB_ARRAY_SIZE(f) = 1
  BY Zenon DEF PB_ARRAY_SIZE
<1>4. PB_SIZE_OFFSET(f) \in 0..255
  BY <1>1, <1>2
<1> QED
  BY <1>1, <1>3, <1>4, SMT

LEMMA LoadedFrom1 ==
  ASSUME NEW info, NEW at, Part(info[at + 1], 0, 2) = 0
  PROVE  LET r == Loaded(info, at)
             w == info[at + 1]
         IN /\ r.tag = Part(w, 2, 6) /\ r.type = TypeOf(w) /\ r.array_size = 1
            /\ r.size_offset = Part(w, 24, 4) /\ r.data_offset = Part(w, 16, 8)
            /\ r.data_size = Part(w, 28, 4)
BY SMT DEF Loaded

LEMMA LoadedFrom2 ==
  ASSUME NEW info, NEW at, Part(info[at + 1], 0, 2) = 1
  PROVE  LET r == Loaded(info, at)
             w == info[at + 1]
             v == info[at + 2]
         IN /\ r.tag = Part(w, 2, 6) + 64 * Part(v, 28, 4) /\ r.type = TypeOf(w)
            /\ r.array_size = Part(w, 16, 12) /\ r.size_offset = Part(w, 28, 4)
            /\ r.data_offset = Part(v, 0, 16) /\ r.data_size = Part(v, 16, 12)
BY SMT DEF Loaded

LEMMA LoadedFromMore ==
  ASSUME NEW info, NEW at, NEW len \in {2, 3}, Part(info[at + 1], 0, 2) = len
  PROVE  LET r == Loaded(info, at)
             w == info[at + 1]
             v == info[at + 2]
         IN /\ r.tag = (Part(w, 2, 6) + 64 * Part(v, 8, 24)) % 65536 /\ r.type = TypeOf(w)
            /\ r.array_size = IF len = 2 THEN Part(w, 16, 16) ELSE Part(info[at + 5], 0, 16)
            /\ r.size_offset = Part(v, 0, 8)
            /\ r.data_offset = Part(info[at + 3], 0, 31) /\ r.data_size = Part(info[at + 4], 0, 16)
BY SMT DEF Loaded

\* What is found in a field's first word, and what is loaded for the field.
Begins(word, f, len) ==
  Part(word, 0, 2) = len /\ Part(word, 2, 6) = f.tag % 64 /\ TypeOf(word) = TypeIs(f)
Loads(r, f) ==
  /\ r.tag = f.tag /\ r.type = TypeIs(f) /\ r.data_offset = f.off /\ r.data_size = f.size
  /\ r.size_offset = PB_SIZE_OFFSET(f) /\ r.array_size = PB_ARRAY_SIZE(f)

LEMMA Firsts ==
  ASSUME NEW f, IsField(f), NEW len \in 0..3
  PROVE  Under(FirstWord(f, len), 16)
<1> DEFINE word == FirstWord(f, len)
           rest == {}
<1>1. word = FirstWord(f, len) \cup rest
  BY Zenon
<1>2. \A x \in rest : x \in Nat /\ x >= 16
  OBVIOUS
<1> HIDE DEF word, rest
<1>3. \A x \in word : x \in Nat /\ (x \in rest \/ x < 16)
  BY <1>1, <1>2, FirstHas, SMT
<1> QED
  BY <1>3 DEF word, rest, Under

LEMMA FirstBegins ==
  ASSUME NEW f, IsField(f), NEW len \in 0..3, NEW word, Above(word, FirstWord(f, len), 16)
  PROVE  Begins(word, f, len)
<1> DEFINE rest == {x \in word : x \notin FirstWord(f, len)}
<1>1. word = FirstWord(f, len) \cup rest
  BY Zenon DEF Above
<1>2. \A x \in rest : x \in Nat /\ x >= 16
  BY Zenon DEF Above
<1> HIDE DEF rest
<1>3. Part(word, 0, 2) = len /\ Part(word, 2, 6) = f.tag % 64 /\ TypeOf(word) = TypeIs(f)
  BY <1>1, <1>2, FirstHas, SMT
<1> QED
  BY <1>3 DEF Begins

LEMMA Format1 ==
  ASSUME NEW f, IsField(f), PB_FIELDINFO_ASSERT(f, 0),
         NEW info, NEW at, Written(info, at, PB_FIELDINFO_1(f))
  PROVE  Begins(info[at + 1], f, 0) /\ Loads(Loaded(info, at), f)
<1> DEFINE w == info[at + 1]
           r == Loaded(info, at)
           so == PB_SIZE_OFFSET(f)
<1>1. f.tag \in Nat /\ f.off \in Nat /\ f.size \in Nat
  BY FieldFacts
<1>2. so \in 0..255 /\ so \in Nat
  <2>1. PB_SIZE_OFFSET(f) \in 0..255
    BY Places, Zenon
  <2> HIDE DEF so
  <2> QED
    BY <2>1, SMT DEF so
<1>3. /\ PB_FITS(f.tag, 6) /\ PB_FITS(f.off, 8) /\ PB_FITS(so, 4) /\ PB_FITS(f.size, 4)
      /\ PB_FITS(PB_ARRAY_SIZE(f), 1)
  BY SMT DEF PB_FIELDINFO_ASSERT
<1>4. Holds3(w, FirstWord(f, 0), f.off, 8, 16, so, 4, 24, f.size, 4, 28)
  <2>1. Len(PB_FIELDINFO_1(f)) = 1
    BY DEF PB_FIELDINFO_1
  <2>2. w = FirstWord(f, 0) \cup Put(f.off, 8, 16) \cup Put(so, 4, 24) \cup Put(f.size, 4, 28)
    BY <2>1 DEF PB_FIELDINFO_1, Written
  <2> HIDE DEF w, so
  <2> QED
    BY <2>2, Zenon DEF Holds3
<1> HIDE DEF w, so, r
<1>5. Under(FirstWord(f, 0), 16)
  BY Firsts, SMT
<1>6. /\ Part(w, 16, 8) = f.off /\ Part(w, 24, 4) = so /\ Part(w, 28, 4) = f.size
      /\ Above(w, FirstWord(f, 0), 16)
  <2>1. Room3(16, 8, 16, 4, 24, 4, 28)
    BY SMT DEF Room1, Room2, Room3
  <2> QED
    BY <1>1, <1>2, <1>3, <1>4, <1>5, <2>1, ThreeHad, SMT
<1>7. Begins(w, f, 0)
  BY <1>6, FirstBegins, SMT
<1>8. f.tag % 64 = f.tag /\ PB_ARRAY_SIZE(f) = 1
  BY <1>1, <1>3, Places, Powers, SMT DEF PB_FITS
<1>9. Loads(r, f)
  <2>1. /\ r.tag = Part(w, 2, 6) /\ r.type = TypeOf(w) /\ r.array_size = 1
        /\ r.size_offset = Part(w, 24, 4) /\ r.data_offset = Part(w, 16, 8)
        /\ r.data_size = Part(w, 28, 4)
    BY <1>7, LoadedFrom1 DEF r, w, Begins
  <2> QED
    BY <2>1, <1>6, <1>7, <1>8 DEF Loads, Begins, so
<1> QED
  BY <1>7, <1>9 DEF w, r

LEMMA Nothing == Under({}, 0)
BY DEF Under

\* The tag, from its low six bits and the others.
LEMMA TagIs ==
  ASSUME NEW t \in Nat
  PROVE  t \div 64 \in Nat /\ (t % 64) + 64 * (t \div 64) = t /\ t \div 64 <= t
BY SMT

LEMMA Format2 ==
  ASSUME NEW f, IsField(f), PB_FIELDINFO_ASSERT(f, 1),
         NEW info, NEW at, Written(info, at, PB_FIELDINFO_2(f))
  PROVE  Begins(info[at + 1], f, 1) /\ Loads(Loaded(info, at), f)
<1> DEFINE w == info[at + 1]
           v == info[at + 2]
           r == Loaded(info, at)
           so == PB_SIZE_OFFSET(f)
           size == PB_ARRAY_SIZE(f)
           up == f.tag \div 64
<1>1. f.tag \in Nat /\ f.off \in Nat /\ f.size \in Nat
  BY FieldFacts
<1>2. so \in Nat /\ size \in Nat
  <2>1. PB_SIZE_OFFSET(f) \in 0..255 /\ PB_ARRAY_SIZE(f) \in Nat
    BY Places, Zenon
  <2> HIDE DEF so, size
  <2> QED
    BY <2>1, SMT DEF so, size
<1>3. /\ PB_FITS(f.tag, 10) /\ PB_FITS(f.off, 16) /\ PB_FITS(so, 4) /\ PB_FITS(f.size, 12)
      /\ PB_FITS(size, 12)
  BY SMT DEF PB_FIELDINFO_ASSERT
<1>4. /\ Holds2(w, FirstWord(f, 1), size, 12, 16, so, 4, 28)
      /\ Holds3(v, {}, f.off, 16, 0, f.size, 12, 16, up, 4, 28)
  <2>0. Len(PB_FIELDINFO_2(f)) = 2
    BY DEF PB_FIELDINFO_2
  <2>1. w = FirstWord(f, 1) \cup Put(size, 12, 16) \cup Put(so, 4, 28)
    BY <2>0 DEF PB_FIELDINFO_2, Written
  <2>2. v = Put(f.off, 16, 0) \cup Put(f.size, 12, 16) \cup Put(up, 4, 28)
    BY <2>0 DEF PB_FIELDINFO_2, Written
  <2> HIDE DEF w, v, so, size, up
  <2> QED
    BY <2>1, <2>2, Zenon DEF Holds2, Holds3
<1>5. up \in Nat /\ (f.tag % 64) + 64 * up = f.tag
  BY <1>1, TagIs
<1>6. PB_FITS(up, 4)
  <2> HIDE DEF up
  <2> QED
    BY <1>1, <1>3, <1>5, Powers, SMT DEF PB_FITS
<1> HIDE DEF w, v, so, size, up, r
<1>7. /\ Part(w, 16, 12) = size /\ Part(w, 28, 4) = so /\ Above(w, FirstWord(f, 1), 16)
  <2>1. Room2(16, 12, 16, 4, 28)
    BY SMT DEF Room1, Room2
  <2>2. Under(FirstWord(f, 1), 16)
    BY Firsts, SMT
  <2> QED
    BY <1>2, <1>3, <1>4, <2>1, <2>2, TwoHad, SMT
<1>8. Part(v, 0, 16) = f.off /\ Part(v, 16, 12) = f.size /\ Part(v, 28, 4) = up
  <2>1. Room3(0, 16, 0, 12, 16, 4, 28)
    BY SMT DEF Room1, Room2, Room3
  <2> QED
    BY <1>1, <1>3, <1>4, <1>5, <1>6, <2>1, Nothing, ThreeHad, SMT
<1>9. Begins(w, f, 1)
  BY <1>7, FirstBegins, SMT
<1>10. Loads(r, f)
  <2>1. /\ r.tag = Part(w, 2, 6) + 64 * Part(v, 28, 4) /\ r.type = TypeOf(w)
        /\ r.array_size = Part(w, 16, 12) /\ r.size_offset = Part(w, 28, 4)
        /\ r.data_offset = Part(v, 0, 16) /\ r.data_size = Part(v, 16, 12)
    BY <1>9, LoadedFrom2 DEF r, w, v, Begins
  <2> QED
    BY <2>1, <1>5, <1>7, <1>8, <1>9 DEF Loads, Begins, so, size
<1> QED
  BY <1>9, <1>10 DEF w, r

LEMMA Fits24 == \A n \in Nat : PB_FITS(n, 16) => PB_FITS(n, 24) /\ PB_FITS(n, 31)
<1>1. Power[16] \in Nat /\ Power[24] >= Power[16] /\ Power[31] >= Power[16] /\ Power[24] \in Nat /\ Power[31] \in Nat
  BY PowerIs, Powers, SMT
<1> QED
  BY <1>1, SMT DEF PB_FITS

\* What the two widest formats have in common.
LEMMA FormatMore ==
  ASSUME NEW f, IsField(f), NEW len \in {2, 3}, PB_FIELDINFO_ASSERT(f, len),
         NEW info, NEW at, Begins(info[at + 1], f, len),
         info[at + 2] = Second(f), info[at + 3] = BitsOf(f.off, 31), info[at + 4] = BitsOf(f.size, 31),
         PB_ARRAY_SIZE(f) = IF len = 2 THEN Part(info[at + 1], 16, 16) ELSE Part(info[at + 5], 0, 16)
  PROVE  Loads(Loaded(info, at), f)
<1> DEFINE w == info[at + 1]
           v == info[at + 2]
           r == Loaded(info, at)
           so == PB_SIZE_OFFSET(f)
           up == f.tag \div 64
<1>1. f.tag \in Nat /\ f.off \in Nat /\ f.size \in Nat
  BY FieldFacts
<1>2. so \in 0..255 /\ so \in Nat
  <2>1. PB_SIZE_OFFSET(f) \in 0..255
    BY Places, Zenon
  <2> HIDE DEF so
  <2> QED
    BY <2>1, SMT DEF so
<1>3. PB_FITS(f.tag, 16) /\ PB_FITS(f.off, 16) /\ PB_FITS(f.size, 16)
  <2>1. len # 0 /\ len # 1
    BY SMT
  <2> QED
    BY <2>1, Zenon DEF PB_FIELDINFO_ASSERT
<1>4. Holds2(v, {}, so, 8, 0, up, 24, 8)
  BY Zenon DEF Second, Holds2
<1>5. up \in Nat /\ (f.tag % 64) + 64 * up = f.tag /\ up <= f.tag
  BY <1>1, TagIs
<1> HIDE DEF up, so, v, w, r
<1>6. PB_FITS(up, 24) /\ PB_FITS(so, 8) /\ PB_FITS(f.off, 31) /\ f.size % Power[16] = f.size /\ f.tag % 65536 = f.tag
  <2>1. PB_FITS(up, 16)
    BY <1>1, <1>3, <1>5, Powers, SMT DEF PB_FITS
  <2>2. PB_FITS(so, 8) /\ f.size % Power[16] = f.size /\ f.tag % 65536 = f.tag
    BY <1>1, <1>2, <1>3, Powers, SMT DEF PB_FITS
  <2> QED
    BY <1>1, <1>3, <1>5, <2>1, <2>2, Fits24
<1>7. Part(v, 0, 8) = so /\ Part(v, 8, 24) = up
  <2>1. Room2(0, 8, 0, 24, 8)
    BY SMT DEF Room1, Room2
  <2> QED
    BY <1>2, <1>4, <1>5, <1>6, <2>1, Nothing, TwoHad, SMT
<1>8. Part(info[at + 3], 0, 31) = f.off
  <2>1. Part(info[at + 3], 0, 31) = f.off % Power[31]
    BY <1>1, LowBits, SMT
  <2>2. Power[31] \in Nat /\ Power[31] >= 1
    BY PowerPositive, SMT
  <2> DEFINE p == Power[31]
  <2>3. f.off < p
    BY <1>6 DEF PB_FITS
  <2> HIDE DEF p
  <2>4. f.off % p = f.off
    BY <1>1, <2>2, <2>3, SMT DEF p
  <2> QED
    BY <2>1, <2>4 DEF p
<1>9. Part(info[at + 4], 0, 16) = f.size
  BY <1>1, <1>6, LowBits, SMT
<1>10. /\ r.tag = (Part(w, 2, 6) + 64 * Part(v, 8, 24)) % 65536 /\ r.type = TypeOf(w)
       /\ r.array_size = PB_ARRAY_SIZE(f)
       /\ r.size_offset = Part(v, 0, 8)
       /\ r.data_offset = Part(info[at + 3], 0, 31) /\ r.data_size = Part(info[at + 4], 0, 16)
  BY LoadedFromMore DEF r, w, v, Begins
<1>11. Part(w, 2, 6) = f.tag % 64 /\ TypeOf(w) = TypeIs(f)
  BY DEF Begins, w
<1>12. r.tag = f.tag
  BY <1>5, <1>6, <1>7, <1>10, <1>11
<1>13. Loads(r, f)
  BY <1>7, <1>8, <1>9, <1>10, <1>11, <1>12 DEF Loads, so
<1> QED
  BY <1>13 DEF r

LEMMA Format4 ==
  ASSUME NEW f, IsField(f), PB_FIELDINFO_ASSERT(f, 2),
         NEW info, NEW at, Written(info, at, PB_FIELDINFO_4(f))
  PROVE  Begins(info[at + 1], f, 2) /\ Loads(Loaded(info, at), f)
<1> DEFINE w == info[at + 1]
           n == PB_ARRAY_SIZE(f)
<1>1. n \in Nat
  BY Places, Zenon
<1>2. PB_FITS(n, 16)
  BY SMT DEF PB_FIELDINFO_ASSERT
<1>3. /\ w = FirstWord(f, 2) \cup Put(n, 16, 16)
      /\ info[at + 2] = Second(f) /\ info[at + 3] = BitsOf(f.off, 31) /\ info[at + 4] = BitsOf(f.size, 31)
  <2>1. Len(PB_FIELDINFO_4(f)) = 4
    BY DEF PB_FIELDINFO_4
  <2> QED
    BY <2>1 DEF PB_FIELDINFO_4, Written
<1> HIDE DEF w, n
<1>4. Holds1(w, FirstWord(f, 2), n, 16, 16)
  BY <1>3, Zenon DEF Holds1
<1>5. Part(w, 16, 16) = n /\ Above(w, FirstWord(f, 2), 16)
  <2>1. Room1(16, 16, 16)
    BY SMT DEF Room1
  <2>2. Under(FirstWord(f, 2), 16)
    BY Firsts, SMT
  <2> QED
    BY <1>1, <1>2, <1>4, <2>1, <2>2, OneHad, SMT
<1>6. Begins(w, f, 2)
  BY <1>5, FirstBegins, SMT
<1>7. PB_ARRAY_SIZE(f) = IF 2 = 2 THEN Part(info[at + 1], 16, 16) ELSE Part(info[at + 5], 0, 16)
  BY <1>5 DEF n, w
<1>8. Begins(info[at + 1], f, 2) /\ 2 \in {2, 3}
  BY <1>6 DEF w
<1> QED
  BY <1>3, <1>7, <1>8, FormatMore, Zenon

LEMMA Format8 ==
  ASSUME NEW f, IsField(f), PB_FIELDINFO_ASSERT(f, 3),
         NEW info, NEW at, Written(info, at, PB_FIELDINFO_8(f))
  PROVE  Begins(info[at + 1], f, 3) /\ Loads(Loaded(info, at), f)
<1> DEFINE w == info[at + 1]
           n == PB_ARRAY_SIZE(f)
<1>1. n \in Nat
  BY Places, Zenon
<1>2. PB_FITS(n, 16)
  BY SMT DEF PB_FIELDINFO_ASSERT
<1>3. /\ w = FirstWord(f, 3)
      /\ info[at + 2] = Second(f) /\ info[at + 3] = BitsOf(f.off, 31) /\ info[at + 4] = BitsOf(f.size, 31)
      /\ info[at + 5] = BitsOf(n, 31)
  <2>1. Len(PB_FIELDINFO_8(f)) = 8
    BY DEF PB_FIELDINFO_8
  <2> QED
    BY <2>1 DEF PB_FIELDINFO_8, Written
<1> HIDE DEF w, n
<1>4. Above(w, FirstWord(f, 3), 16)
  BY <1>3, Zenon DEF Above
<1>5. Begins(w, f, 3)
  BY <1>4, FirstBegins, SMT
<1>6. Part(info[at + 5], 0, 16) = n
  <2>1. n % Power[16] = n
    BY <1>1, <1>2, Powers, SMT DEF PB_FITS
  <2>2. Part(BitsOf(n, 31), 0, 16) = n % Power[16]
    BY <1>1, LowBits, SMT
  <2> QED
    BY <1>3, <2>1, <2>2
<1>7. PB_ARRAY_SIZE(f) = IF 3 = 2 THEN Part(info[at + 1], 16, 16) ELSE Part(info[at + 5], 0, 16)
  BY <1>6 DEF n
<1>8. Begins(info[at + 1], f, 3) /\ 3 \in {2, 3}
  BY <1>5 DEF w
<1> QED
  BY <1>3, <1>7, <1>8, FormatMore, Zenon

\* Whatever the format, what was packed is what is loaded.
LEMMA Unpacked ==
  ASSUME NEW m, NEW f, IsField(f), Len2(m, f) \in 0..3, PB_FIELDINFO_ASSERT(f, Len2(m, f)),
         NEW info, NEW at, Written(info, at, FieldWords(m, f))
  PROVE  Begins(info[at + 1], f, Len2(m, f)) /\ Loads(Loaded(info, at), f)
<1>1. CASE Len2(m, f) = 0
  <2>1. PB_FIELDINFO_ASSERT(f, 0) /\ Written(info, at, PB_FIELDINFO_1(f))
    BY <1>1 DEF FieldWords
  <2> QED
    BY <1>1, <2>1, Format1
<1>2. CASE Len2(m, f) = 1
  <2>1. PB_FIELDINFO_ASSERT(f, 1) /\ Written(info, at, PB_FIELDINFO_2(f))
    BY <1>2 DEF FieldWords
  <2> QED
    BY <1>2, <2>1, Format2
<1>3. CASE Len2(m, f) = 2
  <2>1. PB_FIELDINFO_ASSERT(f, 2) /\ Written(info, at, PB_FIELDINFO_4(f))
    BY <1>3 DEF FieldWords
  <2> QED
    BY <1>3, <2>1, Format4
<1>4. CASE Len2(m, f) = 3
  <2>1. PB_FIELDINFO_ASSERT(f, 3) /\ Written(info, at, PB_FIELDINFO_8(f))
    BY <1>4 DEF FieldWords
  <2> QED
    BY <1>4, <2>1, Format8
<1> QED
  BY <1>1, <1>2, <1>3, <1>4, SMT

Words == SUBSET Nat

LEMMA FieldWordsAre ==
  ASSUME NEW m, NEW f, IsField(f), Len2(m, f) \in 0..3
  PROVE  FieldWords(m, f) \in Seq(Words) /\ Len(FieldWords(m, f)) = Power[Len2(m, f)]
<1>1. \A n \in Nat, w \in 0..31, s \in Nat : Put(n, w, s) \in Words
  <2> TAKE n \in Nat, w \in 0..31, s \in Nat
  <2>1. \A x \in Put(n, w, s) : x \in Nat
    BY InPut, Zenon
  <2> QED
    BY <2>1, Zenon DEF Words
<1>2. \A n \in Nat : BitsOf(n, 31) \in Words
  <2> TAKE n \in Nat
  <2>1. BitsOf(n, 31) = Put(n, 31, 0)
    BY PutBits, SMT
  <2> QED
    BY <1>1, <2>1, SMT
<1>3. \A len \in 0..3 : FirstWord(f, len) \in Words
  BY Firsts, Zenon DEF Under, Words
<1>4. /\ f.tag \in Nat /\ f.off \in Nat /\ f.size \in Nat
      /\ PB_SIZE_OFFSET(f) \in Nat /\ PB_ARRAY_SIZE(f) \in Nat /\ f.tag \div 64 \in Nat
  <2>1. f.tag \in Nat /\ f.off \in Nat /\ f.size \in Nat
    BY FieldFacts
  <2>2. PB_SIZE_OFFSET(f) \in 0..255 /\ PB_ARRAY_SIZE(f) \in Nat
    BY Places, Zenon
  <2>3. \A n \in 0..255 : n \in Nat
    BY SMT
  <2>4. f.tag \div 64 \in Nat
    BY <2>1, TagIs
  <2> QED
    BY <2>1, <2>2, <2>3, <2>4
<1>5. \A x, y \in Words : x \cup y \in Words
  BY DEF Words
<1>6. {} \in Words
  BY DEF Words
<1> HIDE DEF Words
<1>7. Second(f) \in Words
  <2>1. Put(PB_SIZE_OFFSET(f), 8, 0) \in Words /\ Put(f.tag \div 64, 24, 8) \in Words
    BY <1>1, <1>4, SMT
  <2> QED
    BY <1>5, <2>1, Zenon DEF Second
<1>8. CASE Len2(m, f) = 0
  <2>1. /\ Put(f.off, 8, 16) \in Words /\ Put(PB_SIZE_OFFSET(f), 4, 24) \in Words /\ Put(f.size, 4, 28) \in Words
        /\ FirstWord(f, 0) \in Words
    BY <1>1, <1>3, <1>4, SMT
  <2>2. FirstWord(f, 0) \cup Put(f.off, 8, 16) \cup Put(PB_SIZE_OFFSET(f), 4, 24) \cup Put(f.size, 4, 28) \in Words
    BY <1>5, <2>1, Zenon
  <2>3. PB_FIELDINFO_1(f) \in Seq(Words) /\ Len(PB_FIELDINFO_1(f)) = 1
    BY <2>2 DEF PB_FIELDINFO_1
  <2> QED
    BY <1>8, <2>3, Powers, SMT DEF FieldWords
<1>9. CASE Len2(m, f) = 1
  <2>1. /\ Put(PB_ARRAY_SIZE(f), 12, 16) \in Words /\ Put(PB_SIZE_OFFSET(f), 4, 28) \in Words
        /\ Put(f.off, 16, 0) \in Words /\ Put(f.size, 12, 16) \in Words /\ Put(f.tag \div 64, 4, 28) \in Words
        /\ FirstWord(f, 1) \in Words
    BY <1>1, <1>3, <1>4, SMT
  <2>2. /\ FirstWord(f, 1) \cup Put(PB_ARRAY_SIZE(f), 12, 16) \cup Put(PB_SIZE_OFFSET(f), 4, 28) \in Words
        /\ Put(f.off, 16, 0) \cup Put(f.size, 12, 16) \cup Put(f.tag \div 64, 4, 28) \in Words
    BY <1>5, <2>1, Zenon
  <2>3. PB_FIELDINFO_2(f) \in Seq(Words) /\ Len(PB_FIELDINFO_2(f)) = 2
    BY <2>2 DEF PB_FIELDINFO_2
  <2> QED
    BY <1>9, <2>3, Powers, SMT DEF FieldWords
<1>10. CASE Len2(m, f) = 2
  <2>1. Put(PB_ARRAY_SIZE(f), 16, 16) \in Words /\ FirstWord(f, 2) \in Words
    BY <1>1, <1>3, <1>4, SMT
  <2>2. FirstWord(f, 2) \cup Put(PB_ARRAY_SIZE(f), 16, 16) \in Words
    BY <1>5, <2>1, Zenon
  <2>3. PB_FIELDINFO_4(f) \in Seq(Words) /\ Len(PB_FIELDINFO_4(f)) = 4
    BY <1>2, <1>4, <1>7, <2>2 DEF PB_FIELDINFO_4
  <2> QED
    BY <1>10, <2>3, Powers, SMT DEF FieldWords
<1>11. CASE Len2(m, f) = 3
  <2>1. FirstWord(f, 3) \in Words
    BY <1>3, SMT
  <2>2. PB_FIELDINFO_8(f) \in Seq(Words) /\ Len(PB_FIELDINFO_8(f)) = 8
    BY <1>2, <1>4, <1>6, <1>7, <2>1 DEF PB_FIELDINFO_8
  <2> QED
    BY <1>11, <2>2, Powers, SMT DEF FieldWords
<1> QED
  BY <1>8, <1>9, <1>10, <1>11, SMT

LEMMA Len2Is ==
  ASSUME NEW m, IsMessage(m), NEW f PROVE Len2(m, f) \in 0..3
<1>1. m.width \in {0, 1, 2, 3, AUTO}
  BY Zenon DEF IsMessage
<1>2. PB_FIELDINFO_WIDTH_AUTO(f) \in 0..1
  BY SMT DEF PB_FIELDINFO_WIDTH_AUTO
<1>3. m.width = AUTO \/ m.width \in 0..3
  BY <1>1, SMT
<1> QED
  BY <1>2, <1>3, SMT DEF Len2

\* The sums of the first so many numbers of w.
Sums(w, n) ==
  LET sum[k \in 0..n] == IF k = 0 THEN 0 ELSE sum[k - 1] + w[k]
  IN sum

LEMMA SumsAre ==
  ASSUME NEW n \in Nat, NEW w \in [1..n -> Nat]
  PROVE  /\ Sums(w, n) \in [0..n -> Nat] /\ Sums(w, n)[0] = 0
         /\ \A k \in 1..n : Sums(w, n)[k] = Sums(w, n)[k - 1] + w[k]
<1> DEFINE step == [p \in Nat \X (1..n) |-> p[1] + w[p[2]]]
           sum[k \in 0..n] == IF k = 0 THEN 0 ELSE sum[k - 1] + w[k]
<1>1. \A k \in 1..n : k - 1 \in 0..n /\ k \in 0..n /\ k # 0 /\ w[k] \in Nat
  BY SMT
<1>2. step \in [Nat \X (1..n) -> Nat]
  BY <1>1, SMT
<1>3. PICK f \in [0..n -> Nat] : Steps(f, step, 0, n)
  <2> HIDE DEF step
  <2>1. 0 \in Nat
    BY SMT
  <2> QED
    BY <1>2, <2>1, StepsExist, Zenon
<1>4. ASSUME NEW k \in 1..n PROVE f[k] = f[k - 1] + w[k]
  <2>1. <<f[k - 1], k>> \in Nat \X (1..n)
    BY <1>1, Zenon
  <2>2. step[f[k - 1], k] = f[k - 1] + w[k]
    BY <2>1, Zenon
  <2> QED
    BY <1>3, <2>2, Zenon DEF Steps
<1>5. f = [k \in 0..n |-> IF k = 0 THEN 0 ELSE f[k - 1] + w[k]]
  <2>1. \A k \in 0..n : k # 0 => k \in 1..n
    BY SMT
  <2>2. \A k \in 0..n : f[k] = IF k = 0 THEN 0 ELSE f[k - 1] + w[k]
    BY <1>3, <1>4, <2>1, Zenon DEF Steps
  <2>3. f = [k \in 0..n |-> f[k]]
    BY Zenon
  <2> QED
    BY <2>2, <2>3, Zenon
<1>6. sum = [k \in 0..n |-> IF k = 0 THEN 0 ELSE sum[k - 1] + w[k]]
  BY <1>5, Zenon
<1>7. Sums(w, n) = sum
  BY Zenon DEF Sums
<1> HIDE DEF sum
<1>8. sum[0] = 0 /\ \A k \in 1..n : sum[k] = sum[k - 1] + w[k]
  <2>1. 0 \in 0..n
    BY SMT
  <2> QED
    BY <1>1, <1>6, <2>1, Zenon
<1>9. \A k \in 0..n : sum[k] \in Nat
  <2> DEFINE S == {k \in 0..n : sum[k] \in Nat}
  <2>1. 0 \in S
    BY <1>8, SMT
  <2>2. ASSUME NEW k \in 1..n, k - 1 \in S PROVE k \in S
    BY <1>1, <1>8, <2>2, SMT
  <2> HIDE DEF S
  <2>3. \A k \in 0..n : k \in S
    BY <2>1, <2>2, UpTo, Zenon
  <2> QED
    BY <2>3, Zenon DEF S
<1>10. sum \in [0..n -> Nat]
  BY <1>6, <1>9, Zenon
<1> QED
  BY <1>7, <1>8, <1>10, Zenon

\* Where sequences laid end to end begin, when their lengths are known.
LEMMA LaidSums ==
  ASSUME NEW D, NEW s \in Seq(Seq(D)), Len(s) >= 1, NEW w \in [1..Len(s) -> Nat],
         \A i \in 1..Len(s) : Len(s[i]) = w[i]
  PROVE  \A i \in 1..Len(s) : Written(FlattenSeq(s), Sums(w, Len(s))[i - 1], s[i])
<1>1. PICK g \in [0..Len(s) -> Seq(D)] : Lays(g, s) /\ FlattenSeq(s) = g[Len(s)]
  BY FlattenIs, Zenon
<1> DEFINE n == Len(s)
           sum == Sums(w, n)
<1>2. n \in Nat /\ \A k \in 1..n : k - 1 \in 0..n
  BY SMT
<1>3. \A i \in 1..n : Len(g[i]) = Len(g[i - 1]) + Len(s[i]) /\ Written(FlattenSeq(s), Len(g[i - 1]), s[i])
  <2>1. Lays(g, s)
    BY <1>1, Zenon
  <2>2. \A i \in 1..Len(s) : Len(g[i]) = Len(g[i - 1]) + Len(s[i])
    BY <2>1, LaidAt
  <2>3. \A i \in 1..Len(s) : Written(g[Len(s)], Len(g[i - 1]), s[i])
    BY <2>1, LaidAt
  <2> QED
    BY <1>1, <2>2, <2>3
<1>4. sum[0] = 0 /\ \A k \in 1..n : sum[k] = sum[k - 1] + w[k]
  <2>1. w \in [1..n -> Nat]
    BY Zenon
  <2> HIDE DEF n
  <2> QED
    BY <1>2, <2>1, SumsAre, Zenon
<1>5. \A i \in 0..n : Len(g[i]) = sum[i]
  <2> HIDE DEF sum, n
  <2> DEFINE S == {i \in 0..n : Len(g[i]) = sum[i]}
  <2>1. 0 \in S
    <3>1. Len(g[0]) = 0
      <4>1. g[0] = <<>>
        BY <1>1, Zenon DEF Lays
      <4> QED
        BY <4>1
    <3> QED
      BY <1>2, <1>4, <3>1, SMT
  <2>2. ASSUME NEW k \in 1..n, k - 1 \in S PROVE k \in S
    <3>1. Len(g[k]) = Len(g[k - 1]) + Len(s[k]) /\ sum[k] = sum[k - 1] + w[k] /\ Len(s[k]) = w[k]
      BY <1>3, <1>4 DEF n
    <3>2. k \in 0..n
      BY <1>2, SMT
    <3> QED
      BY <2>2, <3>1, <3>2
  <2> HIDE DEF S
  <2>3. \A k \in 0..n : k \in S
    BY <1>2, <2>1, <2>2, UpTo, Zenon
  <2> QED
    BY <2>3, Zenon DEF S
<1> HIDE DEF sum
<1>6. ASSUME NEW i \in 1..n PROVE Written(FlattenSeq(s), sum[i - 1], s[i])
  <2>1. sum[i - 1] = Len(g[i - 1])
    BY <1>2, <1>5, Zenon
  <2> QED
    BY <1>3, <2>1
<1> QED
  BY <1>6 DEF sum

(***************************************************************************)
(* What PB_BIND makes of a message.                                        *)
(***************************************************************************)
IsSub(f) == IF PB_LTYPE_IS_SUBMSG(f.lt) THEN 1 ELSE 0
IsRequired(f) == IF f.ht = "REQUIRED" THEN 1 ELSE 0

\* The words, message types and required fields of the first so many fields.
Place(m) == Sums([i \in 1..Len(m.fields) |-> Power[Len2(m, m.fields[i])]], Len(m.fields))
SubPlace(m) == Sums([i \in 1..Len(m.fields) |-> IsSub(m.fields[i])], Len(m.fields))
Required(m) == Sums([i \in 1..Len(m.fields) |-> IsRequired(m.fields[i])], Len(m.fields))

LEMMA Counts ==
  ASSUME NEW m, IsMessage(m)
  PROVE  /\ Place(m)[0] = 0 /\ SubPlace(m)[0] = 0 /\ Required(m)[0] = 0
         /\ \A i \in 1..Len(m.fields) :
              /\ Place(m)[i] = Place(m)[i - 1] + Power[Len2(m, m.fields[i])]
              /\ SubPlace(m)[i] = SubPlace(m)[i - 1] + IsSub(m.fields[i])
              /\ Required(m)[i] = Required(m)[i - 1] + IsRequired(m.fields[i])
         /\ \A i \in 0..Len(m.fields) : Required(m)[i] \in Nat
<1> DEFINE n == Len(m.fields)
           w == [i \in 1..n |-> Power[Len2(m, m.fields[i])]]
           b == [i \in 1..n |-> IsSub(m.fields[i])]
           r == [i \in 1..n |-> IsRequired(m.fields[i])]
<1>1. n \in Nat
  BY Zenon DEF IsMessage
<1>2. w \in [1..n -> Nat]
  <2>1. \A f : Len2(m, f) \in 0..3
    BY Len2Is, Zenon
  <2>2. \A k \in 0..3 : Power[k] \in Nat
    <3>1. \A k \in 0..3 : k \in 0..31
      BY SMT
    <3> QED
      BY <3>1, PowerPositive, Zenon
  <2> QED
    BY <2>1, <2>2, Zenon
<1>3. b \in [1..n -> Nat] /\ r \in [1..n -> Nat]
  <2>1. \A f : IsSub(f) \in Nat /\ IsRequired(f) \in Nat
    BY SMT DEF IsSub, IsRequired
  <2> QED
    BY <2>1, Zenon
<1>4. Place(m) = Sums(w, n) /\ SubPlace(m) = Sums(b, n) /\ Required(m) = Sums(r, n)
  BY Zenon DEF Place, SubPlace, Required
<1>5. \A i \in 1..n : w[i] = Power[Len2(m, m.fields[i])] /\ b[i] = IsSub(m.fields[i]) /\ r[i] = IsRequired(m.fields[i])
  BY Zenon
<1> HIDE DEF w, b, r, n
<1>6. Sums(w, n)[0] = 0 /\ \A k \in 1..n : Sums(w, n)[k] = Sums(w, n)[k - 1] + w[k]
  BY <1>1, <1>2, SumsAre, Zenon
<1>7. Sums(b, n)[0] = 0 /\ \A k \in 1..n : Sums(b, n)[k] = Sums(b, n)[k - 1] + b[k]
  BY <1>1, <1>3, SumsAre, Zenon
<1>8. /\ Sums(r, n)[0] = 0 /\ \A k \in 1..n : Sums(r, n)[k] = Sums(r, n)[k - 1] + r[k]
      /\ Sums(r, n) \in [0..n -> Nat]
  BY <1>1, <1>3, SumsAre, Zenon
<1>9. \A i \in 0..n : Sums(r, n)[i] \in Nat
  BY <1>8, Zenon
<1> QED
  BY <1>4, <1>5, <1>6, <1>7, <1>8, <1>9, Zenon DEF n

LEMMA Described ==
  ASSUME NEW m, IsMessage(m), NEW i \in 1..Len(m.fields)
  PROVE  LET f == m.fields[i]
             d == PB_BIND(m)
         IN /\ Begins(d.field_info[Place(m)[i - 1] + 1], f, Len2(m, f))
            /\ Loads(Loaded(d.field_info, Place(m)[i - 1]), f)
            /\ PB_LTYPE_IS_SUBMSG(f.lt) => d.submsg_info[SubPlace(m)[i - 1] + 1] = f.sub
<1> DEFINE n == Len(m.fields)
           s == [k \in 1..n |-> FieldWords(m, m.fields[k])]
           u == [k \in 1..n |-> SubmsgInfo(m.fields[k])]
           w == [k \in 1..n |-> Power[Len2(m, m.fields[k])]]
           b == [k \in 1..n |-> IsSub(m.fields[k])]
<1>1. n \in Nat /\ n >= 1
  <2>1. n \in Nat \ {0}
    BY Zenon DEF IsMessage
  <2> QED
    BY <2>1, SMT
<1>2. \A k \in 1..n : /\ IsField(m.fields[k]) /\ Len2(m, m.fields[k]) \in 0..3
                      /\ PB_FIELDINFO_ASSERT(m.fields[k], Len2(m, m.fields[k]))
  BY Len2Is, Zenon DEF IsMessage
<1>3. s \in Seq(Seq(Words)) /\ Len(s) = n /\ \A k \in 1..n : s[k] = FieldWords(m, m.fields[k])
  <2>1. \A k \in 1..n : FieldWords(m, m.fields[k]) \in Seq(Words)
    BY <1>2, FieldWordsAre, Zenon
  <2> HIDE DEF n
  <2> QED
    BY <1>1, <2>1, SMT
<1>4. \A k \in 1..n : SubmsgInfo(m.fields[k]) \in Seq(Names) /\ Len(SubmsgInfo(m.fields[k])) = IsSub(m.fields[k])
  <2> TAKE k \in 1..n
  <2>1. m.fields[k].sub \in Names
    BY <1>2, Zenon DEF IsField
  <2> QED
    BY <2>1, SMT DEF SubmsgInfo, IsSub
<1>5. u \in Seq(Seq(Names)) /\ Len(u) = n /\ \A k \in 1..n : u[k] = SubmsgInfo(m.fields[k])
  <2>1. \A k \in 1..n : SubmsgInfo(m.fields[k]) \in Seq(Names)
    BY <1>4, Zenon
  <2> HIDE DEF n
  <2> QED
    BY <1>1, <2>1, SMT
<1>6. w \in [1..n -> Nat] /\ \A k \in 1..n : Len(s[k]) = w[k]
  <2>1. \A k \in 0..3 : Power[k] \in Nat
    <3>1. \A k \in 0..3 : k \in 0..31
      BY SMT
    <3> QED
      BY <3>1, PowerPositive, Zenon
  <2>2. \A k \in 1..n : Power[Len2(m, m.fields[k])] \in Nat
    BY <1>2, <2>1, Zenon
  <2>3. \A k \in 1..n : Len(s[k]) = Power[Len2(m, m.fields[k])]
    BY <1>2, <1>3, FieldWordsAre, Zenon
  <2> QED
    BY <2>2, <2>3, Zenon
<1>7. b \in [1..n -> Nat] /\ \A k \in 1..n : Len(u[k]) = b[k]
  <2>1. \A f : IsSub(f) \in Nat
    BY SMT DEF IsSub
  <2>2. \A k \in 1..n : Len(u[k]) = IsSub(m.fields[k])
    BY <1>4, <1>5, Zenon
  <2> QED
    BY <2>1, <2>2, Zenon
<1>8. Place(m) = Sums(w, n) /\ SubPlace(m) = Sums(b, n)
  BY Zenon DEF Place, SubPlace
<1>9. PB_BIND(m).field_info = FlattenSeq(s) /\ PB_BIND(m).submsg_info = FlattenSeq(u)
  BY DEF PB_BIND
<1> HIDE DEF n, s, u, w, b
<1>10. Written(FlattenSeq(s), Sums(w, n)[i - 1], s[i])
  <2>1. /\ s \in Seq(Seq(Words)) /\ Len(s) >= 1 /\ w \in [1..Len(s) -> Nat]
        /\ \A k \in 1..Len(s) : Len(s[k]) = w[k]
    BY <1>1, <1>3, <1>6
  <2>2. \A k \in 1..Len(s) : Written(FlattenSeq(s), Sums(w, Len(s))[k - 1], s[k])
    BY <2>1, LaidSums, Zenon
  <2> QED
    BY <1>3, <2>2 DEF n
<1>11. Written(FlattenSeq(u), Sums(b, n)[i - 1], u[i])
  <2>1. /\ u \in Seq(Seq(Names)) /\ Len(u) >= 1 /\ b \in [1..Len(u) -> Nat]
        /\ \A k \in 1..Len(u) : Len(u[k]) = b[k]
    BY <1>1, <1>5, <1>7
  <2>2. \A k \in 1..Len(u) : Written(FlattenSeq(u), Sums(b, Len(u))[k - 1], u[k])
    BY <2>1, LaidSums, Zenon
  <2> QED
    BY <1>5, <2>2 DEF n
<1> DEFINE f == m.fields[i]
           at == Place(m)[i - 1]
           info == PB_BIND(m).field_info
<1>12. i \in 1..n
  BY DEF n
<1>13. Written(info, at, FieldWords(m, f))
  BY <1>3, <1>8, <1>9, <1>10, <1>12, Zenon
<1>14. IsField(f) /\ Len2(m, f) \in 0..3 /\ PB_FIELDINFO_ASSERT(f, Len2(m, f))
  BY <1>2, <1>12, Zenon
<1>15. Written(PB_BIND(m).submsg_info, SubPlace(m)[i - 1], SubmsgInfo(f))
  BY <1>5, <1>8, <1>9, <1>11, <1>12, Zenon
<1> HIDE DEF f, at, info
<1>16. Begins(info[at + 1], f, Len2(m, f)) /\ Loads(Loaded(info, at), f)
  BY <1>13, <1>14, Unpacked, Zenon
<1>17. PB_LTYPE_IS_SUBMSG(f.lt) => PB_BIND(m).submsg_info[SubPlace(m)[i - 1] + 1] = f.sub
  <2> SUFFICES ASSUME PB_LTYPE_IS_SUBMSG(f.lt)
               PROVE  PB_BIND(m).submsg_info[SubPlace(m)[i - 1] + 1] = f.sub
    OBVIOUS
  <2>1. SubmsgInfo(f) = <<f.sub>>
    BY Zenon DEF SubmsgInfo
  <2>2. Len(<<f.sub>>) = 1 /\ <<f.sub>>[1] = f.sub /\ 1 \in 1..1
    BY SMT
  <2> QED
    BY <1>15, <2>1, <2>2 DEF Written
<1> QED
  BY <1>16, <1>17 DEF f, at, info

\* The same, for a field by its number from 0.
LEMMA Held ==
  ASSUME NEW m, IsMessage(m), NEW k \in 0..(Len(m.fields) - 1)
  PROVE  LET f == m.fields[k + 1]
             d == PB_BIND(m)
         IN /\ k + 1 \in 1..Len(m.fields) /\ IsField(f)
            /\ Begins(d.field_info[Place(m)[k] + 1], f, Len2(m, f))
            /\ Loads(Loaded(d.field_info, Place(m)[k]), f)
            /\ PB_LTYPE_IS_SUBMSG(f.lt) => d.submsg_info[SubPlace(m)[k] + 1] = f.sub
            /\ Place(m)[k + 1] = Place(m)[k] + Power[Len2(m, f)]
            /\ SubPlace(m)[k + 1] = SubPlace(m)[k] + IsSub(f)
            /\ Required(m)[k + 1] = Required(m)[k] + IsRequired(f)
<1> DEFINE i == k + 1
<1>1. i \in 1..Len(m.fields) /\ i - 1 = k
  <2>1. Len(m.fields) \in Nat
    BY Zenon DEF IsMessage
  <2> QED
    BY <2>1, SMT
<1> HIDE DEF i
<1>2. IsField(m.fields[i])
  BY <1>1, Zenon DEF IsMessage
<1>3. LET f == m.fields[i]
          d == PB_BIND(m)
      IN /\ Begins(d.field_info[Place(m)[k] + 1], f, Len2(m, f))
         /\ Loads(Loaded(d.field_info, Place(m)[k]), f)
         /\ PB_LTYPE_IS_SUBMSG(f.lt) => d.submsg_info[SubPlace(m)[k] + 1] = f.sub
  BY <1>1, Described
<1>4. /\ Place(m)[i] = Place(m)[k] + Power[Len2(m, m.fields[i])]
      /\ SubPlace(m)[i] = SubPlace(m)[k] + IsSub(m.fields[i])
      /\ Required(m)[i] = Required(m)[k] + IsRequired(m.fields[i])
  BY <1>1, Counts
<1> QED
  BY <1>1, <1>2, <1>3, <1>4 DEF i

LEMMA RequiredIs ==
  ASSUME NEW m, IsMessage(m), NEW k \in 0..Len(m.fields)
  PROVE  Required(m)[k] = Cardinality({i \in 1..k : m.fields[i].ht = "REQUIRED"})
<1> DEFINE n == Len(m.fields)
           R(j) == {i \in 1..j : m.fields[i].ht = "REQUIRED"}
           S == {j \in 0..n : Required(m)[j] = Cardinality(R(j))}
<1>1. n \in Nat
  BY Zenon DEF IsMessage
<1>2. \A j \in 0..n : IsFiniteSet(R(j))
  <2> TAKE j \in 0..n
  <2>1. IsFiniteSet(1..j)
    <3>1. j \in Int /\ 1 \in Int
      BY <1>1, SMT
    <3> QED
      BY <3>1, FS_Interval, Zenon
  <2> QED
    BY <2>1, FS_Subset, Zenon
<1>3. 0 \in S
  <2>1. R(0) = {}
    <3>1. 1..0 = {}
      BY SMT
    <3> QED
      BY <3>1, Zenon
  <2>2. 0 \in 0..n
    BY <1>1, SMT
  <2> QED
    BY <2>1, <2>2, Counts, FS_EmptySet, Zenon
<1>4. ASSUME NEW j \in 1..n, j - 1 \in S PROVE j \in S
  <2>1. j \in 0..n /\ j - 1 \in 0..n /\ j \notin 1..(j - 1) /\ 1..j = (1..(j - 1)) \cup {j}
    BY <1>1, SMT
  <2>2. Required(m)[j] = Cardinality(R(j - 1)) + IsRequired(m.fields[j]) /\ Cardinality(R(j - 1)) \in Nat
    <3>1. Required(m)[j] = Required(m)[j - 1] + IsRequired(m.fields[j]) /\ Required(m)[j - 1] \in Nat
      BY <2>1, Counts, Zenon
    <3> QED
      BY <1>4, <3>1
  <2>3. CASE m.fields[j].ht = "REQUIRED"
    <3>1. R(j) = R(j - 1) \cup {j} /\ j \notin R(j - 1)
      BY <2>1, <2>3, Zenon
    <3>2. IsFiniteSet(R(j - 1))
      BY <1>2, <2>1, Zenon
    <3> HIDE DEF R
    <3>3. Cardinality(R(j)) = Cardinality(R(j - 1)) + 1
      BY <3>1, <3>2, FS_AddElement, Zenon
    <3>4. IsRequired(m.fields[j]) = 1
      BY <2>3, Zenon DEF IsRequired
    <3> QED
      BY <2>1, <2>2, <3>3, <3>4
  <2>4. CASE m.fields[j].ht # "REQUIRED"
    <3>1. R(j) = R(j - 1)
      BY <2>1, <2>4, Zenon
    <3>2. IsRequired(m.fields[j]) = 0
      BY <2>4, Zenon DEF IsRequired
    <3> HIDE DEF R
    <3> QED
      BY <2>1, <2>2, <3>1, <3>2, SMT
  <2> QED
    BY <2>3, <2>4, Zenon
<1> HIDE DEF S
<1>5. \A j \in 0..n : j \in S
  BY <1>1, <1>3, <1>4, UpTo, Zenon
<1> QED
  BY <1>5 DEF S

\* The tags grow.
LEMMA Growing ==
  ASSUME NEW m, IsMessage(m)
  PROVE  /\ \A i, j \in 1..Len(m.fields) : i < j => m.fields[i].tag < m.fields[j].tag
         /\ \A i \in 1..Len(m.fields) : m.fields[i].tag <= PB_BIND(m).largest_tag
         /\ PB_BIND(m).largest_tag \in Nat
<1> DEFINE n == Len(m.fields)
           t(i) == m.fields[i].tag
<1>1. n \in Nat /\ n >= 1
  <2>1. n \in Nat \ {0}
    BY Zenon DEF IsMessage
  <2> QED
    BY <2>1, SMT
<1>2. \A i \in 1..n : t(i) \in Nat
  BY FieldFacts DEF IsMessage
<1>3. \A i \in 1..n : i > 1 => t(i - 1) < t(i)
  BY Zenon DEF IsMessage
<1> HIDE DEF n, t
<1>4. ASSUME NEW i \in 1..n PROVE \A j \in 0..n : i < j => t(i) < t(j)
  <2> DEFINE S == {j \in 0..n : i < j => t(i) < t(j)}
  <2>1. 0 \in S
    BY <1>1, SMT
  <2>2. ASSUME NEW j \in 1..n, j - 1 \in S PROVE j \in S
    <3>1. CASE i = j - 1
      BY <1>1, <1>3, <3>1, SMT
    <3>2. CASE i < j - 1
      <4>1. t(i) < t(j - 1) /\ j - 1 \in 1..n /\ j > 1
        BY <1>1, <2>2, <3>2, SMT
      <4>2. t(j - 1) < t(j) /\ t(i) \in Nat /\ t(j) \in Nat /\ t(j - 1) \in Nat
        BY <1>2, <1>3, <4>1, Zenon
      <4>3. t(i) < t(j)
        BY <4>1, <4>2, SMT
      <4> QED
        BY <4>3, SMT
    <3>3. CASE ~(i <= j - 1)
      BY <1>1, <3>3, SMT
    <3> QED
      BY <1>1, <3>1, <3>2, <3>3, SMT
  <2> HIDE DEF S
  <2>3. \A j \in 0..n : j \in S
    BY <1>1, <2>1, <2>2, UpTo, Zenon
  <2> QED
    BY <2>3, Zenon DEF S
<1>5. PB_BIND(m).largest_tag = t(n)
  <2>1. m.fields # <<>>
    BY <1>1 DEF n
  <2> QED
    BY <2>1 DEF PB_BIND, t, n
<1>6. \A i \in 1..n : t(i) <= t(n)
  <2> TAKE i \in 1..n
  <2>1. i = n \/ (i < n /\ n \in 0..n)
    BY <1>1, SMT
  <2>2. n \in 1..n
    BY <1>1, SMT
  <2> QED
    BY <1>2, <1>4, <2>1, <2>2, SMT
<1>7. \A j \in 1..n : j \in 0..n
  BY <1>1, SMT
<1>8. \A i, j \in 1..n : i < j => t(i) < t(j)
  BY <1>4, <1>7, Zenon
<1>9. \A i \in 1..n : t(i) <= PB_BIND(m).largest_tag
  BY <1>5, <1>6, Zenon
<1>10. PB_BIND(m).largest_tag \in Nat
  <2>1. n \in 1..n
    BY <1>1, SMT
  <2> QED
    BY <1>2, <1>5, <2>1, Zenon
<1> QED
  BY <1>8, <1>9, <1>10, Zenon DEF n, t

(***************************************************************************)
(* The iterator.                                                           *)
(***************************************************************************)
\* The four counters belong to one field of the message.
Bound == message \in Messages /\ desc = PB_BIND(message)
Counted ==
  /\ index \in 0..(Len(message.fields) - 1)
  /\ field_info_index = Place(message)[index] /\ submessage_index = SubPlace(message)[index]
  /\ required_field_index = Required(message)[index]
HasLoaded == field = LoadAt(field_info_index, submessage_index)

\* A field the find is to stop at, counted from 0; and what it has passed, going round from
\* start to index, has none.
Sought(tag, j) ==
  /\ j \in 0..(Len(message.fields) - 1)
  /\ message.fields[j + 1].tag = tag /\ message.fields[j + 1].lt # "EXTENSION"
StillAhead(i, j, back) == (i < back => i < j /\ j < back) /\ (i > back => j > i \/ j < back)
Looking ==
  /\ start \in 0..(Len(message.fields) - 1) /\ index # start
  /\ \A j : Sought(want, j) => StillAhead(index, j, start)

IterInv ==
  /\ Bound /\ Counted /\ doing \in {"idle", "find", "find_extension"}
  /\ doing = "idle" => HasLoaded
  /\ doing = "find" => Looking

LEMMA BoundIs ==
  ASSUME Bound
  PROVE  IsMessage(message) /\ Len(message.fields) \in Nat /\ Len(message.fields) >= 1
         /\ desc.field_count = Len(message.fields)
<1>1. IsMessage(message)
  BY MessagesAssumption, Zenon DEF Bound
<1>2. Len(message.fields) \in Nat \ {0}
  BY <1>1, Zenon DEF IsMessage
<1>3. desc.field_count = Len(message.fields)
  BY DEF Bound, PB_BIND
<1> QED
  BY <1>1, <1>2, <1>3, SMT

LEMMA OneFieldIs == ASSUME Bound, Counted, HasLoaded PROVE OneField
<1> DEFINE f == message.fields[index + 1]
<1>1. IsMessage(message) /\ index \in 0..(Len(message.fields) - 1)
  BY BoundIs DEF Counted
<1>2. /\ IsField(f) /\ Loads(Loaded(desc.field_info, Place(message)[index]), f)
      /\ PB_LTYPE_IS_SUBMSG(f.lt) => desc.submsg_info[SubPlace(message)[index] + 1] = f.sub
      /\ index \in 0..Len(message.fields)
  <2>1. /\ IsField(f) /\ Loads(Loaded(PB_BIND(message).field_info, Place(message)[index]), f)
        /\ PB_LTYPE_IS_SUBMSG(f.lt) => PB_BIND(message).submsg_info[SubPlace(message)[index] + 1] = f.sub
    BY <1>1, Held
  <2>2. index \in 0..Len(message.fields)
    BY <1>1, BoundIs, SMT
  <2> QED
    BY <2>1, <2>2 DEF Bound
<1>3. field.loaded = Loaded(desc.field_info, Place(message)[index])
  BY DEF HasLoaded, LoadAt, WithMessage, Counted
<1>4. field.loaded.type.lt = f.lt
  BY <1>2, <1>3 DEF Loads, TypeIs
<1>5. field.submsg = f.sub
  <2>1. field.submsg = IF PB_LTYPE_IS_SUBMSG(f.lt) THEN desc.submsg_info[SubPlace(message)[index] + 1] ELSE ""
    <3>1. field.submsg =
            IF PB_LTYPE_IS_SUBMSG(Loaded(desc.field_info, field_info_index).type.lt)
            THEN desc.submsg_info[submessage_index + 1] ELSE ""
      BY DEF HasLoaded, LoadAt, WithMessage
    <3> QED
      BY <3>1, <1>3, <1>4 DEF Counted
  <2>2. PB_LTYPE_IS_SUBMSG(f.lt) <=> f.sub # ""
    BY <1>2, Zenon DEF IsField
  <2> QED
    BY <1>2, <2>1, <2>2, Zenon
<1>6. required_field_index = Cardinality({i \in 1..index : message.fields[i].ht = "REQUIRED"})
  BY <1>1, <1>2, RequiredIs DEF Counted
<1> QED
  BY <1>2, <1>3, <1>5, <1>6 DEF OneField, Current, Loads, TypeIs

LEMMA Advanced ==
  ASSUME Bound, Counted, Bound', message' = message, NEW i, i = index \/ i = Len(message.fields),
         advance_iterator(i)
  PROVE  Counted' /\ index' = IF i + 1 >= Len(message.fields) THEN 0 ELSE i + 1
<1> DEFINE n == Len(message.fields)
<1>1. IsMessage(message) /\ n \in Nat /\ n >= 1 /\ desc.field_count = n
  BY BoundIs
<1>2. CASE i + 1 >= n
  <2>1. index' = 0 /\ field_info_index' = 0 /\ submessage_index' = 0 /\ required_field_index' = 0
    BY <1>1, <1>2, Zenon DEF advance_iterator, Rewound
  <2>2. 0 \in 0..(n - 1)
    BY <1>1, SMT
  <2>3. Place(message)[0] = 0 /\ SubPlace(message)[0] = 0 /\ Required(message)[0] = 0
    BY <1>1, Counts
  <2> QED
    BY <1>2, <2>1, <2>2, <2>3 DEF Counted
<1>3. CASE ~(i + 1 >= n)
  <2>1. i = index /\ index \in 0..(n - 1) /\ i \in 0..(n - 1) /\ i + 1 \in 0..(n - 1)
    <3>1. index \in 0..(n - 1)
      BY DEF Counted
    <3> QED
      BY <1>1, <1>3, <3>1, SMT
  <2> DEFINE f == message.fields[i + 1]
             word == desc.field_info[field_info_index + 1]
  <2>2. /\ index' = i + 1 /\ field_info_index' = field_info_index + Power[Part(word, 0, 2)]
        /\ required_field_index' = required_field_index + (IF TypeOf(word).ht = "REQUIRED" THEN 1 ELSE 0)
        /\ submessage_index' = submessage_index + (IF PB_LTYPE_IS_SUBMSG(TypeOf(word).lt) THEN 1 ELSE 0)
    BY <1>1, <1>3, Zenon DEF advance_iterator
  <2>3. /\ Begins(PB_BIND(message).field_info[Place(message)[i] + 1], f, Len2(message, f))
        /\ Place(message)[i + 1] = Place(message)[i] + Power[Len2(message, f)]
        /\ SubPlace(message)[i + 1] = SubPlace(message)[i] + IsSub(f)
        /\ Required(message)[i + 1] = Required(message)[i] + IsRequired(f)
    BY <1>1, <2>1, Held
  <2>4. Begins(word, f, Len2(message, f))
    BY <2>1, <2>3 DEF Bound, Counted
  <2>5. Part(word, 0, 2) = Len2(message, f) /\ TypeOf(word).ht = f.ht /\ TypeOf(word).lt = f.lt
    BY <2>4 DEF Begins, TypeIs
  <2>6. /\ field_info_index' = Place(message)[i + 1] /\ submessage_index' = SubPlace(message)[i + 1]
        /\ required_field_index' = Required(message)[i + 1]
    BY <2>1, <2>2, <2>3, <2>5, Zenon DEF Counted, IsSub, IsRequired
  <2> QED
    BY <1>3, <2>1, <2>2, <2>6 DEF Counted
<1> QED
  BY <1>2, <1>3

LEMMA There ==
  ASSUME Bound, Bound', message' = message, desc' = desc, Counted'
  PROVE  /\ index' \in 0..(Len(message.fields) - 1)
         /\ \A tag : ~Candidate(tag) => message.fields[index' + 1].tag # tag
         /\ load_descriptor_values =>
              /\ HasLoaded' /\ field'.loaded.tag = message.fields[index' + 1].tag
              /\ field'.loaded.type.lt = message.fields[index' + 1].lt
<1> DEFINE f == message.fields[index' + 1]
<1>1. IsMessage(message) /\ index' \in 0..(Len(message.fields) - 1) /\ field_info_index' = Place(message)[index']
  BY BoundIs DEF Counted
<1>2. /\ Begins(PB_BIND(message).field_info[Place(message)[index'] + 1], f, Len2(message, f))
      /\ Loads(Loaded(PB_BIND(message).field_info, Place(message)[index']), f)
  BY <1>1, Held
<1>3. /\ Begins(desc.field_info[field_info_index' + 1], f, Len2(message, f))
      /\ Loads(Loaded(desc.field_info, field_info_index'), f)
  BY <1>1, <1>2 DEF Bound
<1>4. ASSUME NEW tag, ~Candidate(tag) PROVE f.tag # tag
  <2>1. Part(desc.field_info[field_info_index' + 1], 2, 6) = f.tag % 64
    BY <1>3 DEF Begins
  <2>2. f.tag % 64 # tag % 64
    BY <1>4, <2>1 DEF Candidate
  <2> QED
    BY <2>2, Zenon
<1>5. ASSUME load_descriptor_values
      PROVE  HasLoaded' /\ field'.loaded.tag = f.tag /\ field'.loaded.type.lt = f.lt
  <2>1. field' = LoadAt(field_info_index', submessage_index')
    BY <1>5 DEF load_descriptor_values
  <2>2. HasLoaded'
    BY <2>1 DEF HasLoaded, LoadAt, WithMessage
  <2>3. field'.loaded = Loaded(desc.field_info, field_info_index')
    BY <2>1 DEF LoadAt, WithMessage
  <2> QED
    BY <1>3, <2>2, <2>3 DEF Loads, TypeIs
<1> QED
  BY <1>1, <1>4, <1>5

\* The next field is sought, or what is sought lies ahead of it.
Toward(tag, i, back) == \A j : Sought(tag, j) => j = i \/ (i # back /\ StillAhead(i, j, back))

LEMMA TurnFinds ==
  ASSUME Bound, Bound', message' = message, desc' = desc, Counted',
         NEW tag, NEW from, NEW back, Turn(tag, from, back), Toward(tag, index', back)
  PROVE  /\ doing' \in {"idle", "find"}
         /\ doing' = "idle" =>
              /\ HasLoaded' /\ answer' => field'.loaded.tag = tag
              /\ HasLoaded' /\ ~answer' => index' = back /\ \A j : ~Sought(tag, j)
              /\ HasLoaded'
         /\ doing' = "find" => index' # back /\ \A j : Sought(tag, j) => StillAhead(index', j, back)
<1> DEFINE f == message.fields[index' + 1]
           right == f.tag = tag /\ f.lt # "EXTENSION"
<1>1. /\ ~Candidate(tag) => f.tag # tag
      /\ load_descriptor_values => HasLoaded' /\ field'.loaded.tag = f.tag /\ field'.loaded.type.lt = f.lt
  BY There
<1>2. CASE Candidate(tag) /\ right
  <2>1. load_descriptor_values /\ doing' = "idle" /\ answer' = TRUE
    BY <1>1, <1>2 DEF Turn, Answer
  <2> QED
    BY <1>1, <1>2, <2>1
<1>3. ASSUME ~right PROVE \A j : Sought(tag, j) => index' # back /\ StillAhead(index', j, back)
  <2>1. ~Sought(tag, index')
    BY <1>3, Zenon DEF Sought
  <2> QED
    BY <2>1, Zenon DEF Toward
<1>4. CASE Candidate(tag) /\ ~right
  <2>1. load_descriptor_values
    BY <1>4, Zenon DEF Turn
  <2>2. IF Passed(back) THEN Answer(FALSE) ELSE doing' = "find" /\ UNCHANGED answer
    BY <1>1, <1>4, <2>1, Zenon DEF Turn
  <2>3. CASE index' = back
    <3>1. doing' = "idle" /\ answer' = FALSE
      BY <2>2, <2>3 DEF Passed, Answer
    <3> QED
      BY <1>1, <1>3, <1>4, <2>1, <2>3, <3>1
  <2>4. CASE index' # back
    <3>1. doing' = "find"
      BY <2>2, <2>4 DEF Passed
    <3> QED
      BY <1>3, <1>4, <2>4, <3>1
  <2> QED
    BY <2>3, <2>4
<1>5. CASE ~Candidate(tag)
  <2>1. ~right
    BY <1>1, <1>5
  <2>2. IF Passed(back) THEN load_descriptor_values /\ Answer(FALSE)
        ELSE doing' = "find" /\ UNCHANGED <<field, answer>>
    BY <1>5, Zenon DEF Turn
  <2>3. CASE index' = back
    <3>1. load_descriptor_values /\ doing' = "idle" /\ answer' = FALSE
      BY <2>2, <2>3 DEF Passed, Answer
    <3> QED
      BY <1>1, <1>3, <2>1, <2>3, <3>1
  <2>4. CASE index' # back
    <3>1. doing' = "find"
      BY <2>2, <2>4 DEF Passed
    <3> QED
      BY <1>3, <2>1, <2>4, <3>1
  <2> QED
    BY <2>3, <2>4
<1> QED
  BY <1>2, <1>4, <1>5

\* One turn on.
LEMMA OnToward ==
  ASSUME Bound, Counted, Looking, index' = IF index + 1 >= Len(message.fields) THEN 0 ELSE index + 1
  PROVE  Toward(want, index', start)
<1> DEFINE n == Len(message.fields)
<1>1. n \in Nat /\ n >= 1 /\ index \in 0..(n - 1) /\ start \in 0..(n - 1) /\ index # start
  BY BoundIs DEF Counted, Looking
<1>2. ASSUME NEW j, Sought(want, j) PROVE j = index' \/ (index' # start /\ StillAhead(index', j, start))
  <2>1. StillAhead(index, j, start)
    BY <1>2, Zenon DEF Looking
  <2>2. j \in 0..(n - 1)
    BY <1>2, Zenon DEF Sought
  <2> HIDE DEF n
  <2>3. index' = IF index + 1 >= n THEN 0 ELSE index + 1
    BY DEF n
  <2> QED
    BY <1>1, <2>1, <2>2, <2>3, SMT DEF StillAhead
<1> QED
  BY <1>2, Zenon DEF Toward

\* The first turn.
LEMMA StartToward ==
  ASSUME Bound, Counted, HasLoaded, NEW tag, tag \in Nat, field.loaded.tag # tag,
         index' = IF From(tag) + 1 >= Len(message.fields) THEN 0 ELSE From(tag) + 1
  PROVE  Toward(tag, index', index)
<1> DEFINE n == Len(message.fields)
           t(i) == message.fields[i].tag
<1>1. n \in Nat /\ n >= 1 /\ index \in 0..(n - 1) /\ desc.field_count = n /\ IsMessage(message)
  BY BoundIs DEF Counted
<1>2. field.loaded.tag = t(index + 1)
  BY OneFieldIs DEF OneField, Current
<1>3. ASSUME NEW j, Sought(tag, j) PROVE j = index' \/ (index' # index /\ StillAhead(index', j, index))
  <2>1. j \in 0..(n - 1) /\ t(j + 1) = tag
    BY <1>3, Zenon DEF Sought
  <2> HIDE DEF n
  <2>2. j # index
    BY <1>2, <2>1
  <2>3. CASE tag < field.loaded.tag
    <3>1. index' = 0
      BY <1>1, <2>3, SMT DEF From, n
    <3>2. ~(index < j)
      <4>1. j + 1 \in 1..n /\ index + 1 \in 1..n
        BY <1>1, <2>1, SMT
      <4>2. index + 1 < j + 1 => t(index + 1) < t(j + 1)
        BY <1>1, <4>1, Growing DEF n
      <4>3. t(index + 1) \in Nat
        BY <1>1, <4>1, FieldFacts DEF IsMessage, n
      <4> HIDE DEF t
      <4> QED
        BY <1>1, <1>2, <2>1, <2>3, <4>2, <4>3, SMT
    <3> QED
      BY <1>1, <2>1, <2>2, <3>1, <3>2, SMT DEF StillAhead
  <2>4. CASE ~(tag < field.loaded.tag)
    <3>1. index' = IF index + 1 >= n THEN 0 ELSE index + 1
      BY <2>4, Zenon DEF From, n
    <3> QED
      BY <1>1, <2>1, <2>2, <3>1, SMT DEF StillAhead
  <2> QED
    BY <2>3, <2>4
<1> QED
  BY <1>3, Zenon DEF Toward

LEMMA BoundStays == ASSUME Bound, message' = message, desc' = desc PROVE Bound'
BY DEF Bound

LEMMA NoneIsMissing ==
  ASSUME Bound, NEW tag, \A j : ~Sought(tag, j) PROVE Missing(tag)
<1>1. Len(message.fields) \in Nat
  BY BoundIs
<1>2. ASSUME NEW i \in 1..Len(message.fields), message.fields[i].tag = tag
      PROVE  message.fields[i].lt = "EXTENSION"
  <2> DEFINE j == i - 1
  <2>1. j \in 0..(Len(message.fields) - 1) /\ j + 1 = i
    BY <1>1, SMT
  <2> HIDE DEF j
  <2>2. ~Sought(tag, j)
    OBVIOUS
  <2> QED
    BY <1>2, <2>1, <2>2, Zenon DEF Sought
<1> QED
  BY <1>2, Zenon DEF Missing

\* What an answer of a find tells.
Tells ==
  /\ doing' = "idle" /\ answer' => field'.loaded.tag = want'
  /\ doing' = "idle" /\ ~answer' => index' = start' /\ Missing(want')

LEMMA StillCounted ==
  ASSUME Bound, Counted, message' = message, UNCHANGED counters PROVE Counted'
BY DEF Counted, counters

LEMMA FindNowKeeps ==
  ASSUME IterInv, NEW tag \in Tags, FindNow(tag) PROVE IterInv' /\ Tells
<1>1. /\ doing = "idle" /\ (field.loaded.tag = tag \/ tag > desc.largest_tag)
      /\ want' = tag /\ start' = index /\ doing' = "idle" /\ answer' = (field.loaded.tag = tag)
      /\ message' = message /\ desc' = desc /\ field' = field /\ UNCHANGED counters
  BY DEF FindNow, Answer
<1>2. Bound /\ Counted /\ HasLoaded /\ Bound' /\ Counted'
  BY <1>1, BoundStays, StillCounted DEF IterInv
<1>3. /\ index' = index /\ field_info_index' = field_info_index /\ submessage_index' = submessage_index
  BY <1>1 DEF counters
<1>4. HasLoaded'
  BY <1>1, <1>2, <1>3 DEF HasLoaded, LoadAt, WithMessage
<1>5. ASSUME ~answer' PROVE Missing(tag)
  <2>1. tag > desc.largest_tag /\ tag \in Nat
    BY <1>1, <1>5, MessagesAssumption
  <2>2. ASSUME NEW i \in 1..Len(message.fields) PROVE message.fields[i].tag # tag
    <3>1. /\ message.fields[i].tag <= desc.largest_tag /\ message.fields[i].tag \in Nat
          /\ desc.largest_tag \in Nat
      <4>1. IsMessage(message) /\ desc = PB_BIND(message)
        BY <1>2, BoundIs DEF Bound
      <4>2. IsField(message.fields[i])
        BY <4>1, Zenon DEF IsMessage
      <4>3. message.fields[i].tag <= PB_BIND(message).largest_tag /\ PB_BIND(message).largest_tag \in Nat
        BY <4>1, Growing, Zenon
      <4>4. message.fields[i].tag \in Nat
        BY <4>2, FieldFacts
      <4> QED
        BY <4>1, <4>3, <4>4
    <3> QED
      BY <2>1, <3>1, SMT
  <2> QED
    BY <2>2, Zenon DEF Missing
<1>6. Tells
  BY <1>1, <1>3, <1>5 DEF Tells
<1> QED
  BY <1>1, <1>2, <1>4, <1>6 DEF IterInv

LEMMA TurnKeeps ==
  ASSUME Bound, Counted, message' = message, desc' = desc, Toward(want', index', start'),
         start' \in 0..(Len(message.fields) - 1),
         NEW from, from = index \/ from = Len(message.fields), Turn(want', from, start')
  PROVE  IterInv' /\ Tells
<1>1. Bound'
  BY BoundStays
<1>2. Counted'
  BY <1>1, Advanced DEF Turn
<1>3. /\ doing' \in {"idle", "find"}
      /\ doing' = "idle" =>
           /\ HasLoaded' /\ answer' => field'.loaded.tag = want'
           /\ HasLoaded' /\ ~answer' => index' = start' /\ \A j : ~Sought(want', j)
           /\ HasLoaded'
      /\ doing' = "find" => index' # start' /\ \A j : Sought(want', j) => StillAhead(index', j, start')
  BY <1>1, <1>2, TurnFinds
<1>4. Tells
  BY <1>3, NoneIsMissing DEF Tells
<1>5. ASSUME doing' = "find" PROVE Looking'
  <2>1. \A j : Sought(want, j)' => Sought(want', j)
    BY DEF Sought
  <2>2. index' # start' /\ \A j : Sought(want', j) => StillAhead(index', j, start')
    BY <1>3, <1>5
  <2> QED
    BY <2>1, <2>2, Zenon DEF Looking, StillAhead
<1> QED
  BY <1>1, <1>2, <1>3, <1>4, <1>5 DEF IterInv

LEMMA FindStartKeeps ==
  ASSUME IterInv, NEW tag \in Tags, FindStart(tag) PROVE IterInv' /\ Tells
<1>1. /\ doing = "idle" /\ field.loaded.tag # tag /\ want' = tag /\ start' = index
      /\ Turn(tag, From(tag), index) /\ message' = message /\ desc' = desc /\ tag \in Nat
  BY MessagesAssumption DEF FindStart
<1>2. Bound /\ Counted /\ HasLoaded /\ Bound' /\ index \in 0..(Len(message.fields) - 1)
  BY <1>1, BoundStays DEF IterInv, Counted
<1>3. From(tag) = index \/ From(tag) = Len(message.fields)
  BY <1>2, BoundIs DEF From
<1> DEFINE from == From(tag)
<1> HIDE DEF from
<1>4. (from = index \/ from = Len(message.fields)) /\ advance_iterator(from)
  BY <1>1, <1>3 DEF Turn, from
<1>5. index' = IF from + 1 >= Len(message.fields) THEN 0 ELSE from + 1
  BY <1>1, <1>2, <1>4, Advanced
<1>6. Toward(tag, index', index)
  BY <1>1, <1>2, <1>5, StartToward DEF from
<1> QED
  BY <1>1, <1>2, <1>3, <1>6, TurnKeeps

LEMMA FindOnKeeps ==
  ASSUME IterInv, FindOn PROVE IterInv' /\ Tells
<1>1. /\ doing = "find" /\ Turn(want, index, start) /\ want' = want /\ start' = start
      /\ message' = message /\ desc' = desc
  BY DEF FindOn
<1>2. Bound /\ Counted /\ Looking /\ Bound' /\ start \in 0..(Len(message.fields) - 1)
  BY <1>1, BoundStays DEF IterInv, Looking
<1>3. index' = IF index + 1 >= Len(message.fields) THEN 0 ELSE index + 1
  BY <1>1, <1>2, Advanced DEF Turn
<1>4. Toward(want, index', start)
  BY <1>2, <1>3, OnToward
<1> QED
  BY <1>1, <1>2, <1>4, TurnKeeps

LEMMA IterStarts == IterInit => IterInv
<1> SUFFICES ASSUME IterInit PROVE IterInv
  OBVIOUS
<1>1. /\ message \in Messages /\ desc = PB_BIND(message)
      /\ index = 0 /\ field_info_index = 0 /\ submessage_index = 0 /\ required_field_index = 0
      /\ field = LoadAt(0, 0) /\ doing = "idle"
  BY Zenon DEF IterInit
<1>2. Bound
  BY <1>1 DEF Bound
<1>3. Counted
  <2>1. 0 \in 0..(Len(message.fields) - 1)
    BY <1>2, BoundIs, SMT
  <2>2. Place(message)[0] = 0 /\ SubPlace(message)[0] = 0 /\ Required(message)[0] = 0
    BY <1>2, BoundIs, Counts
  <2> QED
    BY <1>1, <2>1, <2>2 DEF Counted
<1>4. HasLoaded
  BY <1>1 DEF HasLoaded
<1> QED
  BY <1>1, <1>2, <1>3, <1>4 DEF IterInv

LEMMA FindKeeps == ASSUME IterInv, AFind PROVE IterInv' /\ Tells
<1>1. CASE FindOn
  BY <1>1, FindOnKeeps
<1>2. ASSUME NEW tag \in Tags, FindNow(tag) PROVE IterInv' /\ Tells
  BY <1>2, FindNowKeeps
<1>3. ASSUME NEW tag \in Tags, FindStart(tag) PROVE IterInv' /\ Tells
  BY <1>3, FindStartKeeps
<1> QED
  BY <1>1, <1>2, <1>3, Zenon DEF AFind

LEMMA OtherKeeps ==
  ASSUME IterInv, pb_field_iter_next \/ ExtensionNow \/ ExtensionStart \/ ExtensionOn
  PROVE  IterInv'
<1>1. message' = message /\ desc' = desc
  BY DEF pb_field_iter_next, ExtensionNow, ExtensionStart, ExtensionOn
<1>2. Bound /\ Counted /\ Bound'
  BY <1>1, BoundStays DEF IterInv
<1>3. CASE pb_field_iter_next
  <2>1. doing = "idle" /\ doing' = doing /\ advance_iterator(index) /\ load_descriptor_values
    BY <1>3 DEF pb_field_iter_next
  <2>2. Counted'
    BY <1>1, <1>2, <2>1, Advanced
  <2>3. HasLoaded'
    BY <1>1, <1>2, <2>1, <2>2, There
  <2> QED
    BY <1>2, <2>1, <2>2, <2>3 DEF IterInv
<1>4. CASE ExtensionNow
  <2>1. doing = "idle" /\ doing' = "idle" /\ field' = field /\ UNCHANGED counters
    BY <1>4 DEF ExtensionNow, Answer
  <2>2. Counted'
    BY <1>1, <1>2, <2>1, StillCounted
  <2>3. HasLoaded
    BY <2>1 DEF IterInv
  <2>4. field_info_index' = field_info_index /\ submessage_index' = submessage_index
    BY <2>1 DEF counters
  <2>5. HasLoaded'
    BY <1>1, <2>1, <2>3, <2>4 DEF HasLoaded, LoadAt, WithMessage
  <2> QED
    BY <1>2, <2>1, <2>2, <2>5 DEF IterInv
<1>5. ASSUME NEW back, ExtensionTurn(back) PROVE IterInv'
  <2>1. advance_iterator(index)
    BY <1>5, Zenon DEF ExtensionTurn
  <2>2. Counted'
    BY <1>1, <1>2, <2>1, Advanced
  <2>3. \/ load_descriptor_values /\ doing' = "idle"
        \/ doing' = "find_extension"
    BY <1>5, Zenon DEF ExtensionTurn, Answer
  <2>4. load_descriptor_values => HasLoaded'
    BY <1>1, <1>2, <2>2, There
  <2> QED
    BY <1>2, <2>2, <2>3, <2>4 DEF IterInv
<1>6. CASE ExtensionStart
  BY <1>5, <1>6 DEF ExtensionStart
<1>7. CASE ExtensionOn
  BY <1>5, <1>7 DEF ExtensionOn
<1> QED
  BY <1>3, <1>4, <1>6, <1>7

LEMMA IterStill == ASSUME IterInv, UNCHANGED iter_vars PROVE IterInv'
<1>1. /\ message' = message /\ desc' = desc /\ field' = field /\ doing' = doing /\ want' = want
      /\ start' = start /\ UNCHANGED counters
  BY DEF iter_vars
<1>2. /\ index' = index /\ field_info_index' = field_info_index /\ submessage_index' = submessage_index
  BY <1>1 DEF counters
<1>3. Bound' /\ Counted'
  BY <1>1, BoundStays, StillCounted DEF IterInv
<1>4. HasLoaded => HasLoaded'
  BY <1>1, <1>2 DEF HasLoaded, LoadAt, WithMessage
<1>5. Looking => Looking'
  <2>1. \A j : Sought(want, j)' => Sought(want, j)
    BY <1>1 DEF Sought
  <2> QED
    BY <1>1, <1>2, <2>1 DEF Looking, StillAhead
<1> QED
  BY <1>1, <1>3, <1>4, <1>5 DEF IterInv

LEMMA IterKeeps == IterInv /\ [IterNext]_iter_vars => IterInv'
<1> SUFFICES ASSUME IterInv, [IterNext]_iter_vars PROVE IterInv'
  OBVIOUS
<1>1. CASE AFind
  BY <1>1, FindKeeps
<1>2. CASE pb_field_iter_next \/ ExtensionNow \/ ExtensionStart \/ ExtensionOn
  BY <1>2, OtherKeeps
<1>3. CASE UNCHANGED iter_vars
  BY <1>3, IterStill
<1> QED
  BY <1>1, <1>2, <1>3, Zenon DEF IterNext, Loop, AFind

OneWhenIdle == doing = "idle" => OneField

LEMMA IterShowsOne == IterInv => OneWhenIdle
BY OneFieldIs DEF IterInv, OneWhenIdle

LEMMA IterShows == IterInv /\ OneWhenIdle' => [FindsStep]_iter_vars
<1> SUFFICES ASSUME IterInv, OneWhenIdle', doing' = "idle"
             PROVE  /\ OneField'
                    /\ AFind /\ answer' => field'.loaded.tag = want'
                    /\ AFind /\ ~answer' => index' = start' /\ Missing(want')
  BY DEF FindsStep
<1>1. OneField'
  BY DEF OneWhenIdle
<1>2. AFind => Tells
  BY FindKeeps
<1> QED
  BY <1>1, <1>2 DEF Tells

\* nanopb's field iterator, for every message whose descriptor passes the asserts of its
\* width, every tag and every order of the calls: after each call it holds one declared
\* field, with its own type, place, sizes and message type; a find stops at a field of that
\* tag, or has passed them all, found none and is back where it was.
THEOREM IteratorFinds == IterSpec => Finds
<1>1. IterInit => IterInv
  BY IterStarts
<1>2. IterInv /\ [IterNext]_iter_vars => IterInv'
  BY IterKeeps
<1>3. IterInv => OneWhenIdle
  BY IterShowsOne
<1>4. IterInv /\ OneWhenIdle' => [FindsStep]_iter_vars
  BY IterShows
<1> QED
  BY <1>1, <1>2, <1>3, <1>4, PTL DEF IterSpec, Finds
================================================================================
