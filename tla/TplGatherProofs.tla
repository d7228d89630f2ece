---------------------------- MODULE TplGatherProofs ----------------------------
(***************************************************************************)
(* Whatever is written, however it is cut into reads, and whatever fails:  *)
(* tpl_gather hands over the images of the stream, each once, in order.    *)
(***************************************************************************)
EXTENDS TplGather, TLAPS

(***************************************************************************)
(* The preamble, wherever in a sequence it lies.                           *)
(***************************************************************************)
LEMMA LenType ==
  ASSUME NEW S, NEW s \in Seq(S)
  PROVE  Len(s) \in Nat
OBVIOUS

LEMMA ByteIsInt ==
  ASSUME NEW v \in Byte
  PROVE  v \in Int
BY DEF Byte

LEMMA ElementType ==
  ASSUME NEW s \in Seq(Byte), NEW i \in Nat \ {0}, i <= Len(s)
  PROVE  s[i] \in Byte /\ s[i] \in Int
<1>1. s[i] \in Byte
  BY SMT
<1>. QED
  BY <1>1, ByteIsInt

LEMMA PieceOf ==
  ASSUME NEW S, NEW s \in Seq(S), NEW n \in Nat, NEW k \in Nat, n + k <= Len(s)
  PROVE  /\ SubSeq(s, n + 1, n + k) \in Seq(S)
         /\ Len(SubSeq(s, n + 1, n + k)) = k
         /\ \A i \in 1..k : SubSeq(s, n + 1, n + k)[i] = s[n + i]
<1>1. SubSeq(s, n + 1, n + k) \in Seq(S)
  OBVIOUS
<1>2. Len(SubSeq(s, n + 1, n + k)) = k
  OBVIOUS
<1>3. ASSUME NEW i \in 1..k
      PROVE  SubSeq(s, n + 1, n + k)[i] = s[n + i]
  OBVIOUS
<1>. QED
  BY <1>1, <1>2, <1>3

\* Sequences with the same elements are equal.
LEMMA SameElements ==
  ASSUME NEW s \in Seq(Byte), NEW r \in Seq(Byte), Len(s) = Len(r),
         \A i \in 1..Len(s) : s[i] = r[i]
  PROVE  s = r
OBVIOUS

LEMMA AtMostEight ==
  ASSUME NEW k \in Nat, k <= 8
  PROVE  ~(8 < k) /\ (8 <= k => k = 8)
OBVIOUS

\* From n + 1 on, s holds the same k elements as r from m + 1 on.
Alike(s, n, r, m, k) == \A i \in 1..k : s[n + i] = r[m + i]

LEMMA AlikePart ==
  ASSUME NEW s, NEW r, NEW n \in Nat, NEW m \in Nat, NEW k \in Nat,
         NEW j \in Nat, NEW l \in Nat, j + l <= k, Alike(s, n, r, m, k)
  PROVE  Alike(s, n + j, r, m + j, l)
<1>. SUFFICES ASSUME NEW i \in 1..l
              PROVE  s[n + j + i] = r[m + j + i]
  BY DEF Alike
<1>1. i \in Nat /\ j + i \in 1..k
  OBVIOUS
<1>2. n + j + i = n + (j + i) /\ m + j + i = m + (j + i)
  BY <1>1
<1>3. s[n + (j + i)] = r[m + (j + i)]
  BY <1>1, Zenon DEF Alike
<1>. QED
  BY <1>2, <1>3

LEMMA SamePieces ==
  ASSUME NEW s \in Seq(Byte), NEW r \in Seq(Byte), NEW n \in Nat, NEW m \in Nat,
         NEW k \in Nat, n + k <= Len(s), m + k <= Len(r), Alike(s, n, r, m, k)
  PROVE  SubSeq(s, n + 1, n + k) = SubSeq(r, m + 1, m + k)
<1>1. /\ SubSeq(s, n + 1, n + k) \in Seq(Byte) /\ SubSeq(r, m + 1, m + k) \in Seq(Byte)
      /\ Len(SubSeq(s, n + 1, n + k)) = k /\ Len(SubSeq(r, m + 1, m + k)) = k
      /\ \A i \in 1..k : SubSeq(s, n + 1, n + k)[i] = s[n + i]
      /\ \A i \in 1..k : SubSeq(r, m + 1, m + k)[i] = r[m + i]
  BY PieceOf
<1>2. \A i \in 1..k : SubSeq(s, n + 1, n + k)[i] = SubSeq(r, m + 1, m + k)[i]
  BY <1>1 DEF Alike
<1>. QED
  BY <1>1, <1>2, SameElements

\* A sequence that is alike a piece of another one is that piece.
LEMMA WholePiece ==
  ASSUME NEW s \in Seq(Byte), NEW r \in Seq(Byte), NEW m \in Nat,
         m + Len(s) <= Len(r), Alike(s, 0, r, m, Len(s))
  PROVE  s = SubSeq(r, m + 1, m + Len(s))
<1>1. Len(s) \in Nat
  BY LenType
<1>2. /\ SubSeq(r, m + 1, m + Len(s)) \in Seq(Byte)
      /\ Len(SubSeq(r, m + 1, m + Len(s))) = Len(s)
      /\ \A i \in 1..Len(s) : SubSeq(r, m + 1, m + Len(s))[i] = r[m + i]
  BY <1>1, PieceOf
<1>3. \A i \in 1..Len(s) : s[i] = r[m + i]
  BY DEF Alike
<1>. QED
  BY <1>2, <1>3, SameElements

\* The length word of an image is a number.
LEMMA NumberType ==
  ASSUME NEW w, w[1] \in Int, w[2] \in Int, w[3] \in Int, w[4] \in Int
  PROVE  Number(w) \in Int
BY DEF Number

LEMMA WordType ==
  ASSUME NEW s \in Seq(Byte), NEW n \in Nat, n + 4 <= Len(s), NEW swap
  PROVE  WordAt(s, n + 1, swap) \in Int
<1> DEFINE w == SubSeq(s, n + 1, n + 4)
<1>1. w \in Seq(Byte) /\ Len(w) = 4
  BY PieceOf
<1>2. SubSeq(s, n + 1, n + 1 + 3) = w
  OBVIOUS
<1>3. WordAt(s, n + 1, swap) = Number(IF BigEndian # swap THEN tpl_byteswap(w) ELSE w)
  BY <1>2, Zenon DEF WordAt
<1>. HIDE DEF w
<1>4. w[1] \in Int /\ w[2] \in Int /\ w[3] \in Int /\ w[4] \in Int
  <2>1. /\ 1 \in Nat \ {0} /\ 2 \in Nat \ {0} /\ 3 \in Nat \ {0} /\ 4 \in Nat \ {0}
        /\ 1 <= Len(w) /\ 2 <= Len(w) /\ 3 <= Len(w) /\ 4 <= Len(w)
    BY <1>1
  <2>. QED
    BY <1>1, <2>1, ElementType, Zenon
<1>5. tpl_byteswap(w) = [i \in 1..4 |-> w[(4 - i) + 1]]
  BY <1>1, Zenon DEF tpl_byteswap, Reverse
<1>6. /\ tpl_byteswap(w)[1] = w[4] /\ tpl_byteswap(w)[2] = w[3]
      /\ tpl_byteswap(w)[3] = w[2] /\ tpl_byteswap(w)[4] = w[1]
  BY <1>5
<1>7. Number(w) \in Int /\ Number(tpl_byteswap(w)) \in Int
  BY <1>4, <1>6, NumberType
<1>. QED
  BY <1>3, <1>7

LEMMA LengthType ==
  ASSUME NEW s \in Seq(Byte), NEW n \in Nat, n + PREAMBLE <= Len(s)
  PROVE  tpllen(s, n) \in Int
<1>1. n + 4 \in Nat /\ n + 4 + 4 <= Len(s) /\ n + 4 + 1 = n + 5
  BY LenType DEF PREAMBLE
<1>2. WordAt(s, n + 4 + 1, tpl_needs_endian_swap(SubSeq(s, n + 1, n + PREAMBLE))) \in Int
  BY <1>1, WordType
<1>. QED
  BY <1>1, <1>2 DEF tpllen

\* Equal preambles announce equal images.
LEMMA SamePreamble ==
  ASSUME NEW s \in Seq(Byte), NEW r \in Seq(Byte), NEW n \in Nat, NEW m \in Nat,
         n + 8 <= Len(s), m + 8 <= Len(r), Alike(s, n, r, m, 8)
  PROVE  tpllen(s, n) = tpllen(r, m) /\ (Prefixed(s, n) <=> Prefixed(r, m))
<1> DEFINE swap == tpl_needs_endian_swap(SubSeq(s, n + 1, n + 8))
<1>1. SubSeq(s, n + 1, n + 8) = SubSeq(r, m + 1, m + 8)
  BY SamePieces
<1>2. SubSeq(s, n + 1, n + 3) = SubSeq(r, m + 1, m + 3)
  <2>1. n + 3 <= Len(s) /\ m + 3 <= Len(r)
    BY LenType
  <2>3. n + 0 = n /\ m + 0 = m
    OBVIOUS
  <2>2. Alike(s, n + 0, r, m + 0, 3)
    <3>1. 0 \in Nat /\ 3 \in Nat /\ 8 \in Nat /\ 0 + 3 <= 8
      OBVIOUS
    <3>. QED
      BY <3>1, AlikePart, Zenon
  <2>. QED
    BY <2>1, <2>2, <2>3, SamePieces
<1>3. SubSeq(s, n + 5, n + 5 + 3) = SubSeq(r, m + 5, m + 5 + 3)
  <2>1. n + 4 \in Nat /\ m + 4 \in Nat /\ n + 4 + 4 <= Len(s) /\ m + 4 + 4 <= Len(r)
    BY LenType
  <2>2. Alike(s, n + 4, r, m + 4, 4)
    BY AlikePart
  <2>3. SubSeq(s, n + 4 + 1, n + 4 + 4) = SubSeq(r, m + 4 + 1, m + 4 + 4)
    BY <2>1, <2>2, SamePieces
  <2>4. n + 4 + 1 = n + 5 /\ n + 4 + 4 = n + 5 + 3 /\ m + 4 + 1 = m + 5 /\ m + 4 + 4 = m + 5 + 3
    OBVIOUS
  <2>. QED
    BY <2>3, <2>4
<1> HIDE DEF swap
<1>4. WordAt(s, n + 5, swap) = WordAt(r, m + 5, swap)
  <2> DEFINE a == n + 5
             b == m + 5
  <2>1. SubSeq(s, a, a + 3) = SubSeq(r, b, b + 3)
    BY <1>3
  <2> HIDE DEF a, b
  <2>2. WordAt(s, a, swap) = WordAt(r, b, swap)
    BY <2>1, Zenon DEF WordAt
  <2>. QED
    BY <2>2 DEF a, b
<1>5. tpllen(s, n) = WordAt(s, n + 5, swap)
  BY Zenon DEF tpllen, PREAMBLE, swap
<1>6. tpllen(r, m) = WordAt(r, m + 5, swap)
  BY <1>1, Zenon DEF tpllen, PREAMBLE, swap
<1>7. Prefixed(s, n) <=> Prefixed(r, m)
  BY <1>2, Zenon DEF Prefixed
<1>. QED
  BY <1>4, <1>5, <1>6, <1>7

(***************************************************************************)
(* The stream: every cut but the last starts an image that ends at a cut,  *)
(* or bytes that are no tpl's.                                             *)
(***************************************************************************)
LEMMA StreamType ==
  ASSUME stream \in Streams
  PROVE  /\ bytes \in Seq(Byte) /\ Len(bytes) \in Nat
         /\ 0 \in stream.cuts /\ Len(bytes) \in stream.cuts
         /\ \A b \in stream.cuts : b \in Nat /\ b <= Len(bytes)
<1>1. IsStream(stream)
  BY StreamsAssumption
<1>2. bytes \in Seq(Byte) /\ Len(bytes) \in Nat
  BY <1>1, LenType, Zenon DEF IsStream, bytes
<1>3. 0 \in stream.cuts /\ Len(bytes) \in stream.cuts /\ stream.cuts \subseteq 0..Len(bytes)
  BY <1>1, Zenon DEF IsStream, bytes
<1>. QED
  BY <1>2, <1>3

LEMMA ImageEnds ==
  ASSUME stream \in Streams, NEW b \in stream.cuts, b < Len(bytes)
  PROVE  /\ b + 8 < Len(bytes)
         /\ Prefixed(bytes, b) => /\ tpllen(bytes, b) \in Int /\ 8 < tpllen(bytes, b)
                                  /\ b + tpllen(bytes, b) \in stream.cuts
<1>1. IsStream(stream)
  BY StreamsAssumption
<1>2. /\ bytes \in Seq(Byte) /\ Len(bytes) \in Nat /\ b \in Nat
  BY StreamType
<1>3. b \in stream.cuts \ {Len(bytes)}
  BY <1>2
<1>4. /\ b + PREAMBLE < Len(bytes)
      /\ Prefixed(bytes, b) =>
           tpllen(bytes, b) > PREAMBLE /\ b + tpllen(bytes, b) \in stream.cuts
  BY <1>1, <1>3, Zenon DEF IsStream, bytes
<1>5. b + PREAMBLE <= Len(bytes)
  BY <1>2, <1>4 DEF PREAMBLE
<1>6. tpllen(bytes, b) \in Int
  BY <1>2, <1>5, LengthType
<1>. QED
  BY <1>4, <1>6 DEF PREAMBLE

LEMMA NextCut ==
  ASSUME stream \in Streams, NEW b \in stream.cuts
  PROVE  EndFrom(b) \in stream.cuts /\ EndFrom(b) \in Nat /\ b <= EndFrom(b)
<1>1. b \in Nat /\ Len(bytes) \in Nat /\ b <= Len(bytes) /\ Len(bytes) \in stream.cuts
  BY StreamType
<1>2. CASE b < Len(bytes) /\ Prefixed(bytes, b)
  <2>1. EndFrom(b) = b + tpllen(bytes, b)
    BY <1>2, Zenon DEF EndFrom
  <2>2. tpllen(bytes, b) \in Int /\ 8 < tpllen(bytes, b) /\ b + tpllen(bytes, b) \in stream.cuts
    BY <1>2, ImageEnds
  <2>. QED
    BY <1>1, <2>1, <2>2
<1>3. CASE ~(b < Len(bytes) /\ Prefixed(bytes, b))
  <2>1. EndFrom(b) = Len(bytes)
    BY <1>3, Zenon DEF EndFrom
  <2>. QED
    BY <1>1, <2>1
<1>. QED
  BY <1>2, <1>3

(***************************************************************************)
(* The invariant.  What was taken and not handed over lies in gs between   *)
(* two calls, and in img from at on while a call runs or, in the blocking  *)
(* mode, between two reads.                                                *)
(***************************************************************************)
Holds(s, n) == Len(s) = n + (taken - done) /\ Alike(s, n, bytes, done, taken - done)

Kinds ==
  /\ stream \in Streams /\ mode \in Modes /\ sink \in Sinks /\ open \in BOOLEAN
  /\ pc \in {"read", "isolate", "closed"} /\ rc \in {1, 0, -1, -2, -3, -4}
  /\ written \in Nat /\ taken \in Nat /\ done \in Nat /\ at \in Nat
  /\ gs \in Seq(Byte) /\ img \in Seq(Byte)

WriterInv ==
  /\ base \in stream.cuts /\ base <= written /\ written <= EndFrom(base)
  /\ taken <= written
  /\ sink = "file" /\ open => taken = 0
  /\ FileHoldsImages

ReaderInv ==
  /\ done \in stream.cuts /\ done <= taken
  /\ pc = "read" /\ mode # "blocking" => img = <<>> /\ at = 0 /\ Holds(gs, 0)
  /\ pc = "read" /\ mode = "blocking" =>
       gs = <<>> /\ at = 0 /\ Holds(img, 0) /\ (8 <= Len(img) => Prefixed(img, 0))
  /\ pc = "isolate" => gs = <<>> /\ mode # "blocking" /\ at <= Len(img) /\ Holds(img, at)
  /\ pc = "closed" => gs = <<>> /\ img = <<>> /\ at = 0

GatherInv == Kinds /\ WriterInv /\ ReaderInv /\ NoneHeldBack

\* Reading brings n more bytes behind those that s holds.
LEMMA OneMoreChunk ==
  ASSUME Kinds, done <= taken, NEW s \in Seq(Byte), Holds(s, 0),
         NEW n \in Nat \ {0}, taken + n <= Len(bytes)
  PROVE  /\ s \o Chunk(n) \in Seq(Byte)
         /\ Len(s \o Chunk(n)) = Len(s) + n /\ Len(s) = taken - done
         /\ Alike(s \o Chunk(n), 0, bytes, done, taken + n - done)
         /\ Alike(s \o Chunk(n), 0, s, 0, Len(s))
<1>1. /\ bytes \in Seq(Byte) /\ Len(bytes) \in Nat /\ taken \in Nat /\ done \in Nat
      /\ n \in Nat /\ Len(s) \in Nat
  BY StreamType, LenType DEF Kinds
<1>2. /\ Chunk(n) \in Seq(Byte) /\ Len(Chunk(n)) = n
      /\ \A i \in 1..n : Chunk(n)[i] = bytes[taken + i]
  BY <1>1, PieceOf DEF Chunk
<1>3. Len(s) = taken - done /\ Alike(s, 0, bytes, done, taken - done)
  BY <1>1 DEF Holds
<1> DEFINE all == s \o Chunk(n)
<1>4. all \in Seq(Byte) /\ Len(all) = Len(s) + n
  BY <1>2
<1>5. ASSUME NEW i \in Nat, 1 <= i, i <= Len(s)
      PROVE  all[i] = s[i]
  BY <1>1, <1>2, <1>5
<1>6. ASSUME NEW i \in Nat, Len(s) < i, i <= Len(s) + n
      PROVE  all[i] = Chunk(n)[i - Len(s)]
  BY <1>1, <1>2, <1>6
<1> HIDE DEF all
<1>7. Alike(all, 0, s, 0, Len(s))
  BY <1>1, <1>5 DEF Alike
<1>8. ASSUME NEW i \in 1..(taken + n - done)
      PROVE  all[0 + i] = bytes[done + i]
  <2>1. i \in Nat /\ 1 <= i /\ i <= Len(s) + n /\ 0 + i = i
    BY <1>1, <1>3
  <2>2. CASE i <= Len(s)
    <3>1. i \in 1..(taken - done)
      BY <1>1, <1>3, <2>1, <2>2
    <3>2. s[0 + i] = bytes[done + i]
      BY <1>3, <3>1, Zenon DEF Alike
    <3>. QED
      BY <2>1, <2>2, <3>2, <1>5
  <2>3. CASE Len(s) < i
    <3>1. i - Len(s) \in 1..n /\ taken + (i - Len(s)) = done + i
      BY <1>1, <1>3, <2>1, <2>3
    <3>2. Chunk(n)[i - Len(s)] = bytes[done + i]
      BY <3>1, <1>2
    <3>. QED
      BY <2>1, <2>3, <3>2, <1>6
  <2>. QED
    BY <1>1, <2>1, <2>2, <2>3
<1>9. Alike(all, 0, bytes, done, taken + n - done)
  BY <1>8, Zenon DEF Alike
<1>. QED
  BY <1>3, <1>4, <1>7, <1>9 DEF all

LEMMA InsideStream ==
  ASSUME Kinds, WriterInv
  PROVE  taken <= Len(bytes) /\ written <= Len(bytes)
<1>1. EndFrom(base) \in stream.cuts /\ EndFrom(base) \in Nat
  BY NextCut DEF Kinds, WriterInv
<1>2. EndFrom(base) <= Len(bytes) /\ Len(bytes) \in Nat
  BY <1>1, StreamType DEF Kinds
<1>. QED
  BY <1>1, <1>2 DEF Kinds, WriterInv

\* A preamble that is held is that of the next image of the stream.
LEMMA Aligned ==
  ASSUME Kinds, WriterInv, done \in stream.cuts, done <= taken,
         NEW s \in Seq(Byte), NEW n \in Nat, Holds(s, n), n + 8 <= Len(s)
  PROVE  /\ tpllen(s, n) \in Int
         /\ tpllen(s, n) = tpllen(bytes, done)
         /\ Prefixed(s, n) => 8 < tpllen(s, n) /\ done + tpllen(s, n) \in stream.cuts
<1>1. /\ bytes \in Seq(Byte) /\ Len(bytes) \in Nat /\ taken \in Nat /\ done \in Nat
      /\ Len(s) \in Nat /\ taken <= Len(bytes)
  BY StreamType, LenType, InsideStream DEF Kinds
<1>2. Len(s) = n + (taken - done) /\ Alike(s, n, bytes, done, taken - done)
  BY Zenon DEF Holds
<1>3. /\ done + 8 <= Len(bytes) /\ done < Len(bytes) /\ taken - done \in Nat
      /\ 0 + 8 <= taken - done /\ 0 \in Nat /\ 8 \in Nat
  BY <1>1, <1>2
<1>4. n + 0 = n /\ done + 0 = done
  BY <1>1
<1>5. Alike(s, n + 0, bytes, done + 0, 8)
  BY <1>1, <1>2, <1>3, AlikePart, Zenon
<1>6. Alike(s, n, bytes, done, 8)
  BY <1>4, <1>5
<1>7. tpllen(s, n) = tpllen(bytes, done) /\ (Prefixed(s, n) <=> Prefixed(bytes, done))
  BY <1>1, <1>3, <1>6, SamePreamble
<1>8. Prefixed(bytes, done) => /\ 8 < tpllen(bytes, done)
                               /\ done + tpllen(bytes, done) \in stream.cuts
  BY <1>3, ImageEnds DEF Kinds
<1>9. tpllen(s, n) \in Int
  BY LengthType DEF PREAMBLE
<1>. QED
  BY <1>7, <1>8, <1>9

(***************************************************************************)
(* The steps of the writer.                                                *)
(***************************************************************************)
LEMMA WriterStep ==
  ASSUME GatherInv, UNCHANGED <<stream, mode, sink, taken, pc, kept, got, done, rc>>,
         open' \in BOOLEAN, written' \in Nat, WriterInv'
  PROVE  GatherInv'
<1>1. Kinds'
  BY DEF GatherInv, Kinds, kept
<1>2. ReaderInv'
  BY DEF GatherInv, ReaderInv, Holds, bytes, kept, Alike, Prefixed
<1>3. NoneHeldBack'
  BY DEF GatherInv, NoneHeldBack, Held, kept
<1>. QED
  BY <1>1, <1>2, <1>3 DEF GatherInv

LEMMA WriteKeeps ==
  ASSUME GatherInv, NEW n \in 1..(Len(bytes) - written), Write(n)
  PROVE  GatherInv'
<1>1. /\ Kinds /\ WriterInv /\ written \in Nat /\ taken \in Nat /\ stream \in Streams
      /\ base \in stream.cuts /\ base <= written /\ taken <= written
  BY DEF GatherInv, Kinds, WriterInv
<1>2. EndFrom(base) \in stream.cuts /\ EndFrom(base) \in Nat
  BY <1>1, NextCut
<1>3. n \in Nat /\ 1 <= n
  BY <1>1, StreamType
<1>4. /\ open /\ open' = open /\ stream' = stream /\ sink' = sink /\ taken' = taken
      /\ written' = written + n /\ written' \in Nat /\ written' <= EndFrom(base)
      /\ base' = IF written + n = EndFrom(base) THEN written + n ELSE base
  <2>1. /\ open /\ open' = open /\ stream' = stream /\ sink' = sink /\ taken' = taken
        /\ n <= EndFrom(base) - written /\ written' = written + n
        /\ base' = IF written + n = EndFrom(base) THEN written + n ELSE base
    BY Zenon DEF Write
  <2>. QED
    BY <1>1, <1>2, <1>3, <2>1
<1>5. EndFrom(base)' = IF written' = EndFrom(base) THEN EndFrom(EndFrom(base)) ELSE EndFrom(base)
  BY <1>4 DEF EndFrom, bytes
<1>6. EndFrom(base) <= EndFrom(EndFrom(base))
  BY <1>1, <1>2, NextCut
<1>7. /\ base' \in stream.cuts /\ base' <= written' /\ written' <= EndFrom(base)'
  <2>1. CASE written' = EndFrom(base)
    <3>1. base' = EndFrom(base) /\ EndFrom(base)' = EndFrom(EndFrom(base))
      BY <1>4, <1>5, <2>1
    <3>. QED
      BY <1>2, <1>4, <1>6, <2>1, <3>1
  <2>2. CASE written' # EndFrom(base)
    <3>1. base' = base /\ EndFrom(base)' = EndFrom(base)
      BY <1>4, <1>5, <2>2
    <3>2. base \in Nat
      BY <1>1, StreamType
    <3>. QED
      BY <1>1, <1>3, <1>4, <3>1, <3>2
  <2>. QED
    BY <2>1, <2>2
<1>8. taken' <= written' /\ (sink' = "file" /\ open' => taken' = 0)
  BY <1>1, <1>3, <1>4 DEF WriterInv
<1>9. WriterInv'
  BY <1>4, <1>7, <1>8 DEF WriterInv, FileHoldsImages
<1>10. UNCHANGED <<stream, mode, sink, taken, pc, kept, got, done, rc>>
  BY DEF Write
<1>11. open' \in BOOLEAN
  BY <1>4
<1>. QED
  BY <1>4, <1>9, <1>10, <1>11, WriterStep

LEMMA WriteFailsKeeps ==
  ASSUME GatherInv, WriteFails
  PROVE  GatherInv'
<1>1. /\ Kinds /\ WriterInv /\ written \in Nat /\ taken \in Nat /\ stream \in Streams
      /\ base \in stream.cuts /\ base <= written /\ taken <= written
  BY DEF GatherInv, Kinds, WriterInv
<1>2. base \in Nat /\ EndFrom(base) \in Nat /\ base <= EndFrom(base)
  BY <1>1, NextCut, StreamType
<1>3. /\ open /\ open' = FALSE /\ stream' = stream /\ sink' = sink /\ taken' = taken
      /\ written' = (IF sink = "file" THEN base ELSE written) /\ base' = base
  BY DEF WriteFails, Rewound
<1>4. EndFrom(base)' = EndFrom(base)
  BY <1>3 DEF EndFrom, bytes
<1>5. sink = "file" => taken = 0
  BY <1>1, <1>3 DEF WriterInv
<1>6. WriterInv'
  BY <1>1, <1>2, <1>3, <1>4, <1>5 DEF WriterInv, FileHoldsImages
<1>7. UNCHANGED <<stream, mode, sink, taken, pc, kept, got, done, rc>>
  BY DEF WriteFails
<1>8. written' \in Nat /\ open' \in BOOLEAN
  BY <1>1, <1>2, <1>3
<1>. QED
  BY <1>6, <1>7, <1>8, WriterStep

LEMMA CloseKeeps ==
  ASSUME GatherInv, Close
  PROVE  GatherInv'
<1>1. Len(bytes) \in stream.cuts
  BY StreamType DEF GatherInv, Kinds
<1>2. /\ open' = FALSE /\ UNCHANGED <<stream, sink, written, base, taken>> /\ written = Len(bytes)
  BY DEF Close
<1>3. EndFrom(base)' = EndFrom(base)
  BY <1>2 DEF EndFrom, bytes
<1>4. WriterInv'
  BY <1>1, <1>2, <1>3 DEF GatherInv, WriterInv, FileHoldsImages
<1>5. UNCHANGED <<stream, mode, sink, taken, pc, kept, got, done, rc>>
  BY DEF Close
<1>6. written' \in Nat /\ open' \in BOOLEAN
  BY <1>2 DEF GatherInv, Kinds
<1>. QED
  BY <1>4, <1>5, <1>6, WriterStep

(***************************************************************************)
(* The steps of the reader.  Each names the image it hands over, if any.   *)
(***************************************************************************)
HandsOver ==
  got' # got =>
    /\ done \in stream.cuts /\ done' \in stream.cuts /\ done < done'
    /\ got' = Append(got, SubSeq(bytes, done + 1, done'))

LEMMA WriterRests ==
  ASSUME WriterInv, UNCHANGED <<stream, mode, sink, writer>>,
         taken' <= written, sink = "file" /\ open => taken' = 0
  PROVE  WriterInv'
<1>1. EndFrom(base)' = EndFrom(base)
  BY DEF EndFrom, bytes, writer
<1>. QED
  BY <1>1 DEF WriterInv, FileHoldsImages, writer

LEMMA GiveUpKeeps ==
  ASSUME GatherInv, NEW code \in {1, 0, -1, -2, -3, -4}, GiveUp(code),
         UNCHANGED <<stream, mode, sink, writer>>,
         taken' \in Nat, taken' <= written, sink = "file" /\ open => taken' = 0,
         done' \in stream.cuts, done' <= taken'
  PROVE  GatherInv'
<1>1. pc' = "closed" /\ rc' = code /\ gs' = <<>> /\ img' = <<>> /\ at' = 0
  BY DEF GiveUp
<1>2. WriterInv'
  BY WriterRests DEF GatherInv
<1>3. done' \in Nat
  BY StreamType DEF GatherInv, Kinds
<1>4. <<>> \in Seq(Byte)
  OBVIOUS
<1>5. Kinds'
  BY <1>1, <1>3, <1>4 DEF GatherInv, Kinds, writer
<1>6. ReaderInv' /\ NoneHeldBack'
  BY <1>1 DEF ReaderInv, NoneHeldBack
<1>. QED
  BY <1>2, <1>5, <1>6 DEF GatherInv

\* A read takes bytes that were written, from a file only when its writer is done.
LEMMA ReadTakes ==
  ASSUME GatherInv, CanRead, NEW n \in 1..(written - taken), taken' = taken + n
  PROVE  /\ n \in Nat \ {0} /\ taken + n <= Len(bytes)
         /\ taken' \in Nat /\ taken' <= written /\ (sink = "file" /\ open => taken' = 0)
         /\ done <= taken' /\ done <= taken
<1>1. /\ written \in Nat /\ taken \in Nat /\ done \in Nat /\ done <= taken
  BY DEF GatherInv, Kinds, ReaderInv
<1>2. written <= Len(bytes) /\ Len(bytes) \in Nat
  BY InsideStream, StreamType DEF GatherInv, Kinds
<1>3. n \in Nat \ {0} /\ n <= written - taken
  BY <1>1
<1>. QED
  BY <1>1, <1>2, <1>3 DEF CanRead

LEMMA ChunkKeeps ==
  ASSUME GatherInv, NEW n \in 1..(written - taken), tpl_gather_chunk(n)
  PROVE  GatherInv' /\ HandsOver
<1>1. /\ CanRead /\ mode # "blocking" /\ pc = "read" /\ taken' = taken + n
      /\ UNCHANGED <<stream, mode, sink, writer, got, done>>
  BY DEF tpl_gather_chunk, CanRead
<1>2. /\ n \in Nat \ {0} /\ taken + n <= Len(bytes)
      /\ taken' \in Nat /\ taken' <= written /\ (sink = "file" /\ open => taken' = 0)
      /\ done <= taken' /\ done <= taken
  BY <1>1, ReadTakes
<1>3. HandsOver
  BY <1>1 DEF HandsOver
<1>4. done' \in stream.cuts /\ done' <= taken'
  BY <1>1, <1>2 DEF GatherInv, ReaderInv
<1>5. CASE TooLong(n)
  <2>1. GiveUp(-2)
    BY <1>5 DEF tpl_gather_chunk
  <2>. QED
    BY <1>1, <1>2, <1>3, <1>4, <2>1, GiveUpKeeps
<1>6. CASE ~TooLong(n)
  <2>1. pc' = "isolate" /\ img' = gs \o Chunk(n) /\ gs' = <<>> /\ at' = 0 /\ rc' = rc
    BY <1>6 DEF tpl_gather_chunk, Joined
  <2>2. Kinds /\ WriterInv /\ gs \in Seq(Byte) /\ Holds(gs, 0)
    BY <1>1 DEF GatherInv, ReaderInv, Kinds
  <2>3. /\ img' \in Seq(Byte) /\ Len(img') = Len(gs) + n /\ Len(gs) = taken - done
        /\ Alike(img', 0, bytes, done, taken + n - done)
    BY <1>2, <2>1, <2>2, OneMoreChunk
  <2>4. /\ stream' = stream /\ done' = done /\ mode' = mode /\ n \in Nat
        /\ taken \in Nat /\ done \in Nat
    BY <1>1, <1>2, <2>2 DEF Kinds
  <2>5. Holds(img, at)'
    BY <1>1, <2>1, <2>3, <2>4 DEF Holds, Alike, bytes
  <2>6. at' <= Len(img') /\ <<>> \in Seq(Byte)
    BY <2>1, <2>3, LenType
  <2>7. Kinds'
    BY <1>1, <1>2, <2>1, <2>2, <2>3, <2>6 DEF Kinds, writer
  <2>8. WriterInv'
    BY <1>1, <1>2, <2>2, WriterRests
  <2>9. ReaderInv'
    BY <1>1, <1>4, <2>1, <2>5, <2>6 DEF ReaderInv
  <2>10. NoneHeldBack'
    BY <2>1 DEF NoneHeldBack
  <2>. QED
    BY <1>3, <2>7, <2>8, <2>9, <2>10 DEF GatherInv
<1>. QED
  BY <1>5, <1>6

LEMMA BlockingKeeps ==
  ASSUME GatherInv, NEW n \in 1..(written - taken), tpl_gather_blocking(n)
  PROVE  GatherInv' /\ HandsOver
<1> DEFINE all == img \o Chunk(n)
           head == Len(img) < PREAMBLE /\ Len(all) = PREAMBLE
<1>1. /\ CanRead /\ mode = "blocking" /\ pc = "read" /\ taken' = taken + n
      /\ n <= Wanted - Len(img) /\ UNCHANGED <<stream, mode, sink, writer>>
  BY DEF tpl_gather_blocking, CanRead
<1>2. /\ n \in Nat \ {0} /\ taken + n <= Len(bytes)
      /\ taken' \in Nat /\ taken' <= written /\ (sink = "file" /\ open => taken' = 0)
      /\ done <= taken' /\ done <= taken
  BY <1>1, ReadTakes
<1>3. /\ Kinds /\ WriterInv /\ img \in Seq(Byte) /\ Len(img) \in Nat /\ Holds(img, 0)
      /\ gs = <<>> /\ at = 0 /\ (8 <= Len(img) => Prefixed(img, 0))
      /\ done \in stream.cuts /\ taken \in Nat /\ done \in Nat /\ n \in Nat /\ 1 <= n
  BY <1>1, <1>2, LenType DEF GatherInv, ReaderInv, Kinds
<1>4. /\ all \in Seq(Byte) /\ Len(all) = Len(img) + n /\ Len(img) = taken - done
      /\ Alike(all, 0, bytes, done, taken + n - done)
      /\ Alike(all, 0, img, 0, Len(img))
  BY <1>2, <1>3, OneMoreChunk
<1>5. bytes \in Seq(Byte) /\ Len(bytes) \in Nat
  BY <1>3, StreamType DEF Kinds
<1>6. ASSUME 8 <= Len(img)
      PROVE  /\ tpllen(img, 0) \in Int /\ 8 < tpllen(img, 0) /\ Wanted = tpllen(img, 0)
             /\ done + tpllen(img, 0) \in stream.cuts
             /\ tpllen(all, 0) = tpllen(img, 0) /\ Prefixed(all, 0)
  <2>1. 0 + 8 <= Len(img) /\ 0 + 8 <= Len(all) /\ 0 \in Nat /\ 8 \in Nat /\ 0 + 0 = 0
        /\ 0 + 8 <= Len(img)
    BY <1>3, <1>4, <1>6
  <2>2. /\ tpllen(img, 0) \in Int
        /\ Prefixed(img, 0) => 8 < tpllen(img, 0) /\ done + tpllen(img, 0) \in stream.cuts
    BY <1>2, <1>3, <2>1, Aligned
  <2>3. Wanted = tpllen(img, 0)
    BY <1>3, <1>6 DEF Wanted, PREAMBLE
  <2>4. Alike(all, 0 + 0, img, 0 + 0, 8)
    BY <1>3, <1>4, <2>1, AlikePart, Zenon
  <2>5. tpllen(all, 0) = tpllen(img, 0) /\ (Prefixed(all, 0) <=> Prefixed(img, 0))
    BY <1>3, <1>4, <2>1, <2>4, SamePreamble
  <2>. QED
    BY <1>3, <1>6, <2>2, <2>3, <2>5
<1>7. \/ GiveUp(-1) /\ UNCHANGED <<got, done>>
      \/ GiveUp(-2) /\ UNCHANGED <<got, done>>
      \/ /\ Len(img) >= PREAMBLE /\ Len(all) = Wanted
         /\ got' = Append(got, all) /\ done' = done + Len(all)
         /\ img' = <<>> /\ UNCHANGED <<pc, gs, at, rc>>
      \/ /\ head => Prefixed(all, 0)
         /\ ~(Len(img) >= PREAMBLE /\ Len(all) = Wanted)
         /\ img' = all /\ UNCHANGED <<pc, gs, at, rc, got, done>>
  BY DEF tpl_gather_blocking
<1> HIDE DEF all
<1>8. CASE GiveUp(-1) /\ UNCHANGED <<got, done>>
  <2>1. done' \in stream.cuts /\ done' <= taken' /\ HandsOver
    BY <1>2, <1>3, <1>8 DEF HandsOver
  <2>. QED
    BY <1>1, <1>2, <1>8, <2>1, GiveUpKeeps
<1>9. CASE GiveUp(-2) /\ UNCHANGED <<got, done>>
  <2>1. done' \in stream.cuts /\ done' <= taken' /\ HandsOver
    BY <1>2, <1>3, <1>9 DEF HandsOver
  <2>. QED
    BY <1>1, <1>2, <1>9, <2>1, GiveUpKeeps
<1>a. WriterInv'
  BY <1>1, <1>2, <1>3, WriterRests
<1>b. ASSUME Len(img) >= PREAMBLE, Len(all) = Wanted, got' = Append(got, all),
             done' = done + Len(all), img' = <<>>, UNCHANGED <<pc, gs, at, rc>>
      PROVE  GatherInv' /\ HandsOver
  <2>1. 8 <= Len(img)
    BY <1>b DEF PREAMBLE
  <2>2. /\ done' = taken' /\ done' \in stream.cuts /\ done' \in Nat /\ done < done'
        /\ Len(all) = taken + n - done /\ Len(all) \in Nat
    BY <1>1, <1>2, <1>3, <1>4, <1>6, <1>b, <2>1
  <2>3. all = SubSeq(bytes, done + 1, done')
    <3>1. done + Len(all) = done' /\ done + Len(all) <= Len(bytes)
      BY <1>1, <1>2, <1>b, <2>2
    <3>2. Alike(all, 0, bytes, done, Len(all))
      BY <1>4, <2>2
    <3>3. all = SubSeq(bytes, done + 1, done + Len(all))
      BY <1>3, <1>4, <1>5, <3>1, <3>2, WholePiece
    <3>. QED
      BY <3>1, <3>3
  <2>4. HandsOver
    BY <1>3, <1>b, <2>2, <2>3 DEF HandsOver
  <2>5. <<>> \in Seq(Byte) /\ Len(<<>>) = 0
    OBVIOUS
  <2>6. Kinds'
    BY <1>1, <1>2, <1>3, <1>b, <2>2, <2>5 DEF Kinds, writer
  <2>7. Holds(img, 0)'
    BY <1>b, <2>2, <2>5 DEF Holds, Alike
  <2>8. ReaderInv'
    BY <1>1, <1>2, <1>3, <1>b, <2>2, <2>5, <2>7 DEF ReaderInv
  <2>9. Len(Held') = 0
    BY <1>3, <1>b DEF Held
  <2>10. NoneHeldBack'
    BY <2>9 DEF NoneHeldBack, PREAMBLE
  <2>. QED
    BY <1>a, <2>4, <2>6, <2>8, <2>10 DEF GatherInv
<1>c. ASSUME head => Prefixed(all, 0), ~(Len(img) >= PREAMBLE /\ Len(all) = Wanted),
             img' = all, UNCHANGED <<pc, gs, at, rc, got, done>>
      PROVE  GatherInv' /\ HandsOver
  <2>1. HandsOver
    BY <1>c DEF HandsOver
  <2>2. Kinds'
    BY <1>1, <1>2, <1>3, <1>4, <1>c DEF Kinds, writer
  <2>3. Holds(img, 0)'
    BY <1>1, <1>3, <1>4, <1>c DEF Holds, Alike, bytes
  <2>4. ASSUME 8 <= Len(img)
        PROVE  Len(all) < tpllen(all, 0) /\ Prefixed(all, 0)
    <3>1. /\ tpllen(img, 0) \in Int /\ Wanted = tpllen(img, 0)
          /\ tpllen(all, 0) = tpllen(img, 0) /\ Prefixed(all, 0)
      BY <1>6, <2>4, Zenon
    <3>2. Len(all) # Wanted
      BY <1>c, <2>4 DEF PREAMBLE
    <3>. QED
      BY <1>1, <1>3, <1>4, <3>1, <3>2
  <2>5. ASSUME Len(img) < 8
        PROVE  Len(all) <= 8 /\ (Len(all) = 8 => Prefixed(all, 0))
    <3>1. Wanted = 8
      BY <2>5 DEF Wanted, PREAMBLE
    <3>2. Len(all) <= 8
      BY <1>1, <1>3, <1>4, <3>1
    <3>3. Len(all) = 8 => Prefixed(all, 0)
      BY <1>c, <2>5 DEF PREAMBLE
    <3>. QED
      BY <3>2, <3>3
  <2>6. /\ 8 <= Len(all) => Prefixed(all, 0)
        /\ 8 < Len(all) => Len(all) < tpllen(all, 0)
    <3>1. Len(all) \in Nat /\ (8 <= Len(img) \/ Len(img) < 8)
      BY <1>3, <1>4, LenType
    <3>2. CASE 8 <= Len(img)
      BY <2>4, <3>2
    <3>3. CASE Len(img) < 8
      <4>1. Len(all) <= 8 /\ (Len(all) = 8 => Prefixed(all, 0))
        BY <2>5, <3>3, Zenon
      <4>2. ~(8 < Len(all)) /\ (8 <= Len(all) => Len(all) = 8)
        BY <3>1, <4>1, AtMostEight
      <4>. QED
        BY <4>1, <4>2, Zenon
    <3>. QED
      BY <3>1, <3>2, <3>3
  <2>7. ReaderInv'
    <3>1. /\ mode' = mode /\ pc' = pc /\ pc = "read" /\ mode = "blocking"
          /\ stream' = stream /\ done' = done /\ at' = 0 /\ gs' = <<>> /\ img' = all
      BY <1>1, <1>3, <1>c
    <3>2. 8 <= Len(img') => Prefixed(img', 0)
      BY <2>6, <3>1, Zenon
    <3>. QED
      BY <1>2, <1>3, <2>3, <3>1, <3>2 DEF ReaderInv
  <2>8. Held' = all
    <3>1. at' = 0 /\ gs' = <<>> /\ img' = all
      BY <1>3, <1>c
    <3>2. Held' = <<>> \o SubSeq(all, 0 + 1, Len(all))
      BY <3>1 DEF Held
    <3>. QED
      BY <1>4, <3>2
  <2>9. NoneHeldBack'
    <3>1. 8 < Len(Held') => Len(Held') < tpllen(Held', 0)
      BY <2>6, <2>8
    <3>. QED
      BY <1>4, <2>8, <3>1, LenType DEF NoneHeldBack, PREAMBLE, tpllen
  <2>. QED
    BY <1>a, <2>1, <2>2, <2>7, <2>9 DEF GatherInv
<1>. QED
  BY <1>7, <1>8, <1>9, <1>b, <1>c

\* What a step of the loop over img finds.
LEMMA LoopFacts ==
  ASSUME GatherInv, pc = "isolate"
  PROVE  /\ Kinds /\ WriterInv /\ NoneHeldBack /\ img \in Seq(Byte) /\ Len(img) \in Nat
         /\ gs = <<>> /\ mode # "blocking" /\ at \in Nat /\ at <= Len(img)
         /\ Len(img) = at + (taken - done) /\ Holds(img, at)
         /\ done \in stream.cuts /\ done <= taken /\ done \in Nat /\ taken \in Nat
         /\ taken <= written /\ taken <= Len(bytes)
         /\ (sink = "file" /\ open => taken = 0)
<1>1. /\ Kinds /\ WriterInv /\ NoneHeldBack /\ img \in Seq(Byte) /\ gs = <<>>
      /\ mode # "blocking" /\ at \in Nat /\ at <= Len(img) /\ Holds(img, at)
      /\ done \in stream.cuts /\ done <= taken /\ done \in Nat /\ taken \in Nat
  BY DEF GatherInv, Kinds, ReaderInv
<1>2. taken <= written /\ (sink = "file" /\ open => taken = 0)
  BY <1>1 DEF WriterInv
<1>3. Len(img) = at + (taken - done)
  BY <1>1 DEF Holds
<1>. QED
  BY <1>1, <1>2, <1>3, LenType, InsideStream

LEMMA Advance ==
  ASSUME NEW a \in Nat, NEW d \in Nat, NEW t \in Nat, NEW len, NEW L \in Int, 8 < L,
         d <= t, len = a + (t - d), a + L <= len
  PROVE  /\ L \in Nat /\ d + L \in Nat /\ d < d + L /\ d + L <= t
         /\ t - d \in Nat /\ t - (d + L) \in Nat /\ L <= t - d
         /\ L + (t - (d + L)) <= t - d /\ 0 \in Nat /\ 0 + L <= t - d
         /\ a + 0 = a /\ d + 0 = d
         /\ a + L \in Nat /\ len = a + L + (t - (d + L))
OBVIOUS

LEMMA CallbackKeeps ==
  ASSUME GatherInv, Callback
  PROVE  GatherInv' /\ HandsOver
<1> DEFINE L == tpllen(img, at)
<1>1. /\ pc = "isolate" /\ at + 8 < Len(img) /\ Prefixed(img, at) /\ at + L <= Len(img)
      /\ got' = Append(got, SubSeq(img, at + 1, at + L)) /\ done' = done + L
      /\ \/ at' = at + L /\ UNCHANGED <<pc, rc, gs, img>>
         \/ GiveUp(-4)
      /\ UNCHANGED <<stream, mode, sink, writer, taken>>
  BY DEF Callback, MoreThanPreamble, WholeImage, PREAMBLE
<1>2. /\ Kinds /\ WriterInv /\ NoneHeldBack /\ img \in Seq(Byte) /\ Len(img) \in Nat
      /\ gs = <<>> /\ mode # "blocking" /\ at \in Nat /\ at <= Len(img)
      /\ Len(img) = at + (taken - done) /\ Holds(img, at)
      /\ done \in stream.cuts /\ done <= taken /\ done \in Nat /\ taken \in Nat
      /\ taken <= written /\ taken <= Len(bytes)
      /\ (sink = "file" /\ open => taken = 0)
  BY <1>1, LoopFacts
<1>3. at + 8 <= Len(img)
  BY <1>1, <1>2
<1>4. L \in Int /\ 8 < L /\ done + L \in stream.cuts
  BY <1>1, <1>2, <1>3, Aligned
<1> HIDE DEF L
<1>5. /\ L \in Nat /\ done + L \in Nat /\ done < done + L /\ done + L <= taken
      /\ taken - done \in Nat /\ taken - (done + L) \in Nat /\ L <= taken - done
      /\ L + (taken - (done + L)) <= taken - done /\ 0 \in Nat /\ 0 + L <= taken - done
      /\ at + 0 = at /\ done + 0 = done
      /\ at + L \in Nat /\ Len(img) = at + L + (taken - (done + L))
  BY <1>1, <1>2, <1>4, Advance
<1>6. bytes \in Seq(Byte) /\ Len(bytes) \in Nat /\ done + L <= Len(bytes)
  <2>1. bytes \in Seq(Byte) /\ Len(bytes) \in Nat
    BY <1>2, StreamType DEF Kinds
  <2>2. done + L \in Nat /\ done + L <= taken /\ taken \in Nat /\ taken <= Len(bytes)
    BY <1>2, <1>5, Zenon
  <2>. QED
    BY <2>1, <2>2
<1>g. /\ done' = done + L /\ taken' = taken /\ done' \in stream.cuts
      /\ done' <= taken' /\ taken' <= written /\ taken' \in Nat /\ done' \in Nat
  BY <1>1, <1>2, <1>4, <1>5
<1>7. Alike(img, at, bytes, done, taken - done)
  BY <1>2, Zenon DEF Holds
<1>8. Alike(img, at + 0, bytes, done + 0, L)
  BY <1>2, <1>5, <1>7, AlikePart, Zenon
<1>9. SubSeq(img, at + 1, at + L) = SubSeq(bytes, done + 1, done + L)
  <2>1. Alike(img, at, bytes, done, L)
    BY <1>5, <1>8
  <2>2. /\ img \in Seq(Byte) /\ bytes \in Seq(Byte) /\ at \in Nat /\ done \in Nat
        /\ L \in Nat /\ at + L <= Len(img) /\ done + L <= Len(bytes)
    BY <1>1, <1>2, <1>5, <1>6
  <2>. QED
    BY <2>1, <2>2, SamePieces
<1>a. HandsOver
  BY <1>1, <1>2, <1>4, <1>5, <1>9, <1>g DEF HandsOver
<1>b. CASE GiveUp(-4)
  <2>1. sink = "file" /\ open => taken' = 0
    BY <1>2, <1>g
  <2>2. UNCHANGED <<stream, mode, sink, writer>>
    BY <1>1
  <2>3. done' \in stream.cuts
    BY <1>g
  <2>. QED
    BY <1>a, <1>b, <1>g, <2>1, <2>2, <2>3, GiveUpKeeps
<1>c. ASSUME at' = at + L, UNCHANGED <<pc, rc, gs, img>>
      PROVE  GatherInv'
  <2>0. /\ img' = img /\ at' = at + L /\ stream' = stream /\ pc' = pc /\ gs' = gs
        /\ mode' = mode /\ rc' = rc /\ UNCHANGED <<sink, writer>>
    BY <1>1, <1>c
  <2>1. WriterInv'
    BY <1>1, <1>2, <1>g, WriterRests
  <2>2. at' \in Nat /\ Len(img') = at' + (taken' - done') /\ at' <= Len(img')
    BY <1>1, <1>2, <1>5, <1>g, <2>0
  <2>3. Kinds'
    BY <1>2, <1>g, <2>0, <2>2 DEF Kinds, writer
  <2>4. Alike(img, at + L, bytes, done + L, taken - (done + L))
    BY <1>2, <1>5, <1>7, AlikePart, Zenon
  <2>6. Alike(img, at, bytes, done, taken - done)'
    BY <1>g, <2>0, <2>4 DEF Alike, bytes
  <2>7. Holds(img, at)'
    BY <2>2, <2>6 DEF Holds
  <2>8. ReaderInv'
    BY <1>1, <1>2, <1>g, <2>0, <2>2, <2>7 DEF ReaderInv
  <2>9. NoneHeldBack'
    BY <1>1, <2>0 DEF NoneHeldBack
  <2>. QED
    BY <2>1, <2>3, <2>8, <2>9 DEF GatherInv
<1>. QED
  BY <1>1, <1>a, <1>b, <1>c DEF L

LEMMA NotTplKeeps ==
  ASSUME GatherInv, NotTpl
  PROVE  GatherInv' /\ HandsOver
<1>1. /\ pc = "isolate" /\ GiveUp(-3) /\ UNCHANGED <<stream, mode, sink, writer, taken, got, done>>
  BY DEF NotTpl
<1>2. /\ done \in stream.cuts /\ done <= taken /\ taken \in Nat
      /\ taken <= written /\ (sink = "file" /\ open => taken = 0)
  BY <1>1, LoopFacts
<1>3. HandsOver
  BY <1>1 DEF HandsOver
<1>. QED
  BY <1>1, <1>2, <1>3, GiveUpKeeps

\* A call that ends between two reads, for whatever reason.
LEMMA EndKeeps ==
  ASSUME GatherInv, NEW code \in {1, 0, -1, -2, -3, -4}, CanRead, GiveUp(code),
         UNCHANGED <<stream, mode, sink, writer, taken, got, done>>
  PROVE  GatherInv' /\ HandsOver
<1>1. /\ done \in stream.cuts /\ done <= taken /\ taken \in Nat
      /\ taken <= written /\ (sink = "file" /\ open => taken = 0)
  BY DEF GatherInv, Kinds, WriterInv, ReaderInv
<1>2. HandsOver
  BY DEF HandsOver
<1>. QED
  BY <1>1, <1>2, GiveUpKeeps

LEMMA LeftoverKeeps ==
  ASSUME GatherInv, Leftover
  PROVE  GatherInv' /\ HandsOver
<1>1. /\ pc = "isolate" /\ (at + 8 < Len(img) => Prefixed(img, at) /\ ~WholeImage)
      /\ gs' = SubSeq(img, at + 1, Len(img)) /\ img' = <<>> /\ at' = 0 /\ pc' = "read"
      /\ UNCHANGED <<stream, mode, sink, writer, taken, got, done, rc>>
  BY DEF Leftover, MoreThanPreamble, PREAMBLE
<1>2. /\ Kinds /\ WriterInv /\ NoneHeldBack /\ img \in Seq(Byte) /\ Len(img) \in Nat
      /\ gs = <<>> /\ mode # "blocking" /\ at \in Nat /\ at <= Len(img)
      /\ Len(img) = at + (taken - done) /\ Holds(img, at)
      /\ done \in stream.cuts /\ done <= taken /\ done \in Nat /\ taken \in Nat
      /\ taken <= written /\ taken <= Len(bytes)
      /\ (sink = "file" /\ open => taken = 0)
  BY <1>1, LoopFacts
<1> DEFINE k == taken - done
<1>3. /\ k \in Nat /\ Len(img) = at + k /\ at + k <= Len(img) /\ taken' = taken
      /\ done' = done /\ stream' = stream
  BY <1>1, <1>2
<1>4. SubSeq(img, at + 1, at + k) = gs'
  BY <1>1, <1>3
<1> HIDE DEF k
<1>5. /\ gs' \in Seq(Byte) /\ Len(gs') = k
      /\ \A i \in 1..k : gs'[i] = img[at + i]
  <2>1. /\ SubSeq(img, at + 1, at + k) \in Seq(Byte)
        /\ Len(SubSeq(img, at + 1, at + k)) = k
        /\ \A i \in 1..k : SubSeq(img, at + 1, at + k)[i] = img[at + i]
    <3>1. img \in Seq(Byte) /\ at \in Nat /\ k \in Nat /\ at + k <= Len(img)
      BY <1>2, <1>3
    <3>. QED
      BY <3>1, PieceOf
  <2>. QED
    BY <1>4, <2>1
<1>6. \A i \in 1..k : img[at + i] = bytes[done + i]
  BY <1>2, Zenon DEF Holds, Alike, k
<1>7. Alike(gs', 0, bytes, done, k)
  <2>. SUFFICES ASSUME NEW i \in 1..k
                PROVE  gs'[0 + i] = bytes[done + i]
    BY Zenon DEF Alike
  <2>1. 0 + i = i
    BY <1>3
  <2>. QED
    BY <1>5, <1>6, <2>1
<1>8. Holds(gs, 0)'
  BY <1>3, <1>5, <1>7 DEF Holds, Alike, bytes, k
<1>9. <<>> \in Seq(Byte) /\ Len(<<>>) = 0
  OBVIOUS
<1>a. Kinds'
  BY <1>1, <1>2, <1>3, <1>5, <1>9 DEF Kinds, writer
<1>b. WriterInv'
  BY <1>1, <1>2, <1>3, WriterRests
<1>c. ReaderInv'
  BY <1>1, <1>2, <1>3, <1>8 DEF ReaderInv
<1>d. HandsOver
  BY <1>1 DEF HandsOver
<1>e. Held' = gs'
  <2>1. Held' = gs' \o SubSeq(<<>>, 0 + 1, 0)
    BY <1>1, <1>9 DEF Held
  <2>. QED
    BY <1>5, <2>1
<1>f. ASSUME 8 < k
      PROVE  k < tpllen(gs', 0)
  <2>1. /\ at + 8 < Len(img) /\ at + 8 <= Len(img) /\ 0 + 8 <= Len(gs') /\ 0 \in Nat
        /\ 8 \in Nat /\ at + 0 = at /\ 0 + 0 = 0 /\ 0 + 8 <= k
    BY <1>2, <1>3, <1>5, <1>f
  <2>2. tpllen(img, at) \in Int
    BY <1>2, <2>1, Aligned
  <2>3. ~(at + tpllen(img, at) <= Len(img))
    BY <1>1, <2>1 DEF WholeImage
  <2>4. Alike(gs', 0, img, at, k)
    <3>. SUFFICES ASSUME NEW i \in 1..k
                  PROVE  gs'[0 + i] = img[at + i]
      BY Zenon DEF Alike
    <3>1. 0 + i = i
      BY <1>3
    <3>. QED
      BY <1>5, <3>1
  <2>5. Alike(gs', 0 + 0, img, at + 0, 8)
    <3>1. at \in Nat /\ k \in Nat /\ 0 \in Nat /\ 8 \in Nat /\ 0 + 8 <= k
      BY <1>2, <1>3, <2>1
    <3>. QED
      BY <3>1, <2>4, AlikePart, Zenon
  <2>6. tpllen(gs', 0) = tpllen(img, at)
    BY <1>2, <1>5, <2>1, <2>5, SamePreamble
  <2>. QED
    BY <1>2, <1>3, <2>2, <2>3, <2>6
<1>g. NoneHeldBack'
  <2>1. 8 < Len(Held') => Len(Held') < tpllen(Held', 0)
    BY <1>5, <1>e, <1>f
  <2>. QED
    BY <1>5, <1>e, <2>1 DEF NoneHeldBack, PREAMBLE, tpllen
<1>. QED
  BY <1>a, <1>b, <1>c, <1>d, <1>g DEF GatherInv

(***************************************************************************)
(* The theorems.                                                           *)
(***************************************************************************)
LEMMA InitHolds == Init => GatherInv
<1>. SUFFICES ASSUME Init
              PROVE  GatherInv
  OBVIOUS
<1>1. /\ stream \in Streams /\ mode \in Modes /\ sink \in Sinks
      /\ written = 0 /\ base = 0 /\ open = TRUE /\ taken = 0 /\ pc = "read"
      /\ gs = <<>> /\ img = <<>> /\ at = 0 /\ done = 0 /\ rc = 1
  BY DEF Init
<1>2. /\ base \in stream.cuts /\ done \in stream.cuts
      /\ EndFrom(base) \in Nat /\ base <= EndFrom(base)
  BY <1>1, StreamType, NextCut
<1>3. <<>> \in Seq(Byte) /\ Len(<<>>) = 0
  OBVIOUS
<1>4. Kinds
  BY <1>1, <1>3 DEF Kinds
<1>5. WriterInv
  BY <1>1, <1>2 DEF WriterInv, FileHoldsImages
<1>6. Holds(gs, 0) /\ Holds(img, 0)
  BY <1>1, <1>3 DEF Holds, Alike
<1>7. ReaderInv
  BY <1>1, <1>2, <1>3, <1>6 DEF ReaderInv
<1>8. Len(Held) = 0
  BY <1>1 DEF Held
<1>9. NoneHeldBack
  BY <1>8 DEF NoneHeldBack, PREAMBLE
<1>. QED
  BY <1>4, <1>5, <1>7, <1>9 DEF GatherInv

LEMMA StepHolds == GatherInv /\ [Next]_vars => GatherInv' /\ HandsOver
<1>. SUFFICES ASSUME GatherInv, [Next]_vars
              PROVE  GatherInv' /\ HandsOver
  OBVIOUS
<1>1. CASE Sending
  <2>1. PICK n \in 1..(Len(bytes) - written) : Write(n)
    BY <1>1 DEF Sending
  <2>2. got' = got
    BY <2>1 DEF Write
  <2>. QED
    BY <2>1, <2>2, WriteKeeps DEF HandsOver
<1>2. CASE WriteFails
  <2>1. got' = got
    BY <1>2 DEF WriteFails
  <2>. QED
    BY <1>2, <2>1, WriteFailsKeeps DEF HandsOver
<1>3. CASE Close
  <2>1. got' = got
    BY <1>3 DEF Close
  <2>. QED
    BY <1>3, <2>1, CloseKeeps DEF HandsOver
<1>4. CASE Read
  <2>1. PICK n \in 1..(written - taken) : tpl_gather_chunk(n) \/ tpl_gather_blocking(n)
    BY <1>4 DEF Read
  <2>. QED
    BY <2>1, ChunkKeeps, BlockingKeeps
<1>5. CASE Callback
  BY <1>5, CallbackKeeps
<1>6. CASE NotTpl
  BY <1>6, NotTplKeeps
<1>7. CASE Leftover
  BY <1>7, LeftoverKeeps
<1>8. CASE Eof
  <2>1. CanRead /\ GiveUp(0) /\ UNCHANGED <<stream, mode, sink, writer, taken, got, done>>
    BY <1>8 DEF Eof
  <2>. QED
    BY <2>1, EndKeeps
<1>9. CASE ReadFails
  <2>1. CanRead /\ GiveUp(-1) /\ UNCHANGED <<stream, mode, sink, writer, taken, got, done>>
    BY <1>9 DEF ReadFails
  <2>. QED
    BY <2>1, EndKeeps
<1>a. CASE UNCHANGED vars
  <2>1. /\ UNCHANGED <<stream, mode, sink, taken, pc, kept, got, done, rc>>
        /\ UNCHANGED writer
    BY <1>a DEF vars
  <2>2. open' \in BOOLEAN /\ written' \in Nat
    BY <2>1 DEF GatherInv, Kinds, writer
  <2>3. sink' = "file" /\ open' => taken' = 0
    BY <2>1 DEF GatherInv, WriterInv, writer
  <2>4. taken' <= written
    BY <2>1 DEF GatherInv, WriterInv, writer
  <2>5. WriterInv'
    BY <2>1, <2>3, <2>4, WriterRests DEF GatherInv, writer
  <2>6. HandsOver
    BY <2>1 DEF HandsOver
  <2>. QED
    BY <2>1, <2>2, <2>5, <2>6, WriterStep
<1>. QED
  BY <1>1, <1>2, <1>3, <1>4, <1>5, <1>6, <1>7, <1>8, <1>9, <1>a DEF Next, Reader

\* The invariant says where the bytes are that were taken and not handed over.
LEMMA HeldBytes ==
  ASSUME GatherInv, pc # "closed"
  PROVE  NothingLostOrTwice
<1>1. /\ bytes \in Seq(Byte) /\ Len(bytes) \in Nat /\ taken \in Nat /\ done \in Nat
      /\ done <= taken /\ taken <= Len(bytes) /\ gs \in Seq(Byte) /\ img \in Seq(Byte)
      /\ Len(img) \in Nat /\ at \in Nat /\ stream \in Streams
  BY StreamType, InsideStream, LenType DEF GatherInv, Kinds, ReaderInv
<1>2. ASSUME NEW s \in Seq(Byte), Holds(s, 0)
      PROVE  done + Len(s) = taken /\ s = SubSeq(bytes, done + 1, taken)
  <2>1. Len(s) = taken - done
    BY <1>1, <1>2 DEF Holds
  <2>2. done + Len(s) = taken /\ done + Len(s) <= Len(bytes)
    BY <1>1, <2>1
  <2>3. Alike(s, 0, bytes, done, Len(s))
    BY <1>2, <2>1, Zenon DEF Holds
  <2>4. s = SubSeq(bytes, done + 1, done + Len(s))
    BY <1>1, <2>2, <2>3, WholePiece
  <2>. QED
    BY <2>2, <2>4
<1>3. CASE pc = "read" /\ mode # "blocking"
  <2>1. img = <<>> /\ at = 0 /\ Holds(gs, 0)
    BY <1>3 DEF GatherInv, ReaderInv
  <2>2. Held = gs
    BY <1>1, <2>1 DEF Held
  <2>. QED
    BY <1>1, <1>2, <2>1, <2>2 DEF NothingLostOrTwice
<1>4. CASE pc = "read" /\ mode = "blocking"
  <2>1. gs = <<>> /\ at = 0 /\ Holds(img, 0)
    BY <1>4 DEF GatherInv, ReaderInv
  <2>2. Held = img
    BY <1>1, <2>1 DEF Held
  <2>. QED
    BY <1>1, <1>2, <2>1, <2>2 DEF NothingLostOrTwice
<1>5. CASE pc = "isolate"
  <2>1. /\ gs = <<>> /\ at <= Len(img) /\ Len(img) = at + (taken - done)
        /\ Alike(img, at, bytes, done, taken - done)
    BY <1>5, LoopFacts DEF Holds
  <2> DEFINE k == taken - done
  <2>2. k \in Nat /\ at + k = Len(img) /\ done + k = taken /\ at + k <= Len(img)
        /\ done + k <= Len(bytes)
    BY <1>1, <2>1
  <2> HIDE DEF k
  <2>3. Alike(img, at, bytes, done, k)
    BY <2>1, Zenon DEF k
  <2>4. SubSeq(img, at + 1, at + k) = SubSeq(bytes, done + 1, done + k)
    BY <1>1, <2>2, <2>3, SamePieces
  <2>5. Len(SubSeq(img, at + 1, at + k)) = k /\ SubSeq(img, at + 1, at + k) \in Seq(Byte)
    BY <1>1, <2>2, PieceOf
  <2>6. Held = SubSeq(img, at + 1, at + k)
    BY <2>1, <2>2, <2>5 DEF Held
  <2>. QED
    BY <2>2, <2>4, <2>5, <2>6 DEF NothingLostOrTwice
<1>. QED
  BY <1>3, <1>4, <1>5 DEF GatherInv, Kinds

LEMMA InvariantImplies ==
  GatherInv => TypeOK /\ NothingLostOrTwice /\ NoneHeldBack /\ NothingRetained /\ FileHoldsImages
<1>. SUFFICES ASSUME GatherInv
              PROVE  /\ TypeOK /\ NothingLostOrTwice /\ NoneHeldBack
                     /\ NothingRetained /\ FileHoldsImages
  OBVIOUS
<1>1. NothingLostOrTwice
  <2>1. CASE pc # "closed"
    BY <2>1, HeldBytes
  <2>2. CASE pc = "closed"
    BY <2>2 DEF NothingLostOrTwice
  <2>. QED
    BY <2>1, <2>2
<1>2. NoneHeldBack /\ NothingRetained /\ FileHoldsImages
  BY DEF GatherInv, WriterInv, ReaderInv, NothingRetained
<1>3. TypeOK
  <2>1. /\ written <= Len(bytes) /\ taken <= Len(bytes) /\ Len(bytes) \in Nat
        /\ done \in Nat /\ done <= Len(bytes) /\ written \in Nat /\ taken \in Nat
    BY InsideStream, StreamType DEF GatherInv, Kinds, ReaderInv
  <2>2. written \in 0..Len(bytes) /\ taken \in 0..Len(bytes)
    BY <2>1
  <2>3. done \in 0..Len(bytes)
    BY <2>1
  <2>4. at \in Nat /\ Len(img) \in Nat /\ at <= Len(img)
    <3>1. at \in Nat /\ img \in Seq(Byte) /\ pc \in {"read", "isolate", "closed"}
      BY DEF GatherInv, Kinds
    <3>2. Len(img) \in Nat
      BY <3>1, LenType
    <3>3. at = 0 \/ at <= Len(img)
      BY <3>1 DEF GatherInv, ReaderInv
    <3>. QED
      BY <3>1, <3>2, <3>3
  <2>5. at \in 0..Len(img)
    BY <2>4
  <2>6. /\ stream \in Streams /\ mode \in Modes /\ sink \in Sinks
        /\ base \in stream.cuts /\ open \in BOOLEAN
        /\ pc \in {"read", "isolate", "closed"} /\ rc \in {1, 0, -1, -2, -3, -4}
        /\ gs \in Seq(Byte) /\ img \in Seq(Byte)
    BY DEF GatherInv, Kinds, WriterInv
  <2>. QED
    BY <2>2, <2>3, <2>5, <2>6, Zenon DEF TypeOK
<1>. QED
  BY <1>1, <1>2, <1>3

\* The variables of the writer and of tpl_gather keep their types.
THEOREM GatherTypes == Spec => []TypeOK
<1>. QED
  BY InitHolds, StepHolds, InvariantImplies, PTL DEF Spec

\* However the descriptor delivers the bytes, tpl_gather has handed over, or holds,
\* exactly what it read, in order.
THEOREM NothingIsLost == Spec => []NothingLostOrTwice
<1>. QED
  BY InitHolds, StepHolds, InvariantImplies, PTL DEF Spec

\* An image that has arrived whole is handed over before tpl_gather reads again.
THEOREM NothingWaits == Spec => []NoneHeldBack
<1>. QED
  BY InitHolds, StepHolds, InvariantImplies, PTL DEF Spec

\* A tpl_gather that gave up has forgotten the fragment it held.
THEOREM NothingIsRetained == Spec => []NothingRetained
<1>. QED
  BY InitHolds, StepHolds, InvariantImplies, PTL DEF Spec

\* tpl_dump to a file that fails leaves only whole images in it.
THEOREM FilesHoldImages == Spec => []FileHoldsImages
<1>. QED
  BY InitHolds, StepHolds, InvariantImplies, PTL DEF Spec

\* The callback gets each image of the stream whole, once, in order.
THEOREM HandedOverInOrder == Spec => ImagesInOrder
<1>1. HandsOver => [got' # got =>
       /\ done \in stream.cuts /\ done' \in stream.cuts /\ done < done'
       /\ got' = Append(got, SubSeq(bytes, done + 1, done'))]_vars
  BY DEF HandsOver
<1>. QED
  BY <1>1, InitHolds, StepHolds, PTL DEF Spec, ImagesInOrder
================================================================================
