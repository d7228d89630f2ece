--------------------------------- MODULE PbWire ---------------------------------
(***************************************************************************)
(* nanopb's wire format.  A number in memory is the sequence of its bytes, *)
(* lowest first; a base-128 group is seven of its bits.  An input stream   *)
(* is [in, at, left, ok]: the buffer, what was taken from it, what may     *)
(* still be taken, and whether no call has failed.                         *)
(***************************************************************************)
EXTENDS PbBits, Sequences, SequencesExt, FiniteSetsExt

Zeros(n) == [i \in 1..n |-> 0]
Inverted(v) == [i \in 1..Len(v) |-> 255 - v[i]]

ByteAt(v, i) == IF i \in 1..Len(v) THEN v[i] ELSE 0
Negative(v) == v[Len(v)] >= 128

\* The value in 64 bits: unsigned, or signed when its top bit is to be repeated.
Extend(v, signed) ==
  v \o [i \in 1..(8 - Len(v)) |-> IF signed /\ Negative(v) THEN 255 ELSE 0]

Group(v, j) ==
  LET low == 7 * j
  IN (ByteAt(v, low \div 8 + 1) + 256 * ByteAt(v, low \div 8 + 2)) \div Power[low % 8] % 128

\* The low n bytes of the number that groups g make.
Ungroup(g, n) ==
  [i \in 1..n |->
     LET low == 8 * (i - 1)
         p == low \div 7 + 1
     IN (ByteAt(g, p) + 128 * ByteAt(g, p + 1) + 16384 * ByteAt(g, p + 2))
          \div Power[low % 7] % 256]

\* The groups up to the last that is not 0, at least one, each but the last marked.
WithMarks(g, last) == [j \in 1..last |-> g[j] + (IF j < last THEN 128 ELSE 0)]
UpToLast(g) == WithMarks(g, Max({1} \cup {j \in 1..10 : g[j] # 0}))
Varint(v) == UpToLast([j \in 1..10 |-> Group(v, j - 1)])

\* A size or a tag, as a number below 2^31.
VarintOf(n) == Varint([i \in 1..4 |-> n \div 256 ^ (i - 1) % 256])

\* _Plain: a negative number is not folded.
Zigzag_Plain(v) == [i \in 1..8 |-> (2 * v[i] + ByteAt(v, i - 1) \div 128) % 256]
Zigzag(v) ==
  LET twice == [i \in 1..8 |-> (2 * v[i] + ByteAt(v, i - 1) \div 128) % 256]
  IN IF Negative(v) THEN Inverted(twice) ELSE twice

Unzigzag(v) ==
  LET half == [i \in 1..8 |-> (v[i] + 256 * ByteAt(v, i + 1)) \div 2 % 256]
  IN IF v[1] % 2 = 1 THEN Inverted(half) ELSE half

(***************************************************************************)
(* Reading.  A read that fails leaves value alone: nobody looks at it.     *)
(***************************************************************************)
pb_istream_from_buffer(buf) == [in |-> buf, at |-> 0, left |-> Len(buf), ok |-> TRUE]

Failed(s) == [s EXCEPT !.ok = FALSE]

pb_read(s, n) ==
  IF ~s.ok \/ s.left < n THEN Failed(s)
  ELSE [s EXCEPT !.at = @ + n, !.left = @ - n]

Ahead(s, n) == SubSeq(s.in, s.at + 1, s.at + n)

\* The bytes up to the first that carries no mark, or none if the stream ends before.
VarintBytes(s) ==
  LET ends == {k \in 1..s.left : s.in[s.at + k] < 128}
  IN IF ends = {} THEN <<>> ELSE Ahead(s, Min(ends))

GroupsOf(b) == [i \in 1..Len(b) |-> b[i] % 128]

\* Ten bytes at most, and one bit in the tenth.
Fits64(b) == b # <<>> /\ Len(b) <= 10 /\ (Len(b) = 10 => b[10] <= 1)

\* Beyond 32 bits, padding or the repeated sign.
Fits32(b) ==
  LET negative == b[5] \div 8 % 2 = 1
  IN /\ b # <<>> /\ Len(b) <= 10
     /\ Len(b) >= 5 => b[5] \div 16 \in {0, 8} \/ b[5] \div 8 \in {15, 31}
     /\ \A i \in 6..Len(b) :
          \/ b[i] % 128 = 0
          \/ negative /\ b[i] = IF i < 10 THEN 255 ELSE 1

\* [s, v]: the stream behind the number, and its eight, or four, bytes.
TakeVarint(s, b, fits, n) ==
  IF ~s.ok \/ ~fits THEN [s |-> Failed(s), v |-> Zeros(n)]
  ELSE [s |-> pb_read(s, Len(b)), v |-> Ungroup(GroupsOf(b), n)]

Take64(s, b) == TakeVarint(s, b, Fits64(b), 8)
Take32(s, b) == TakeVarint(s, b, Fits32(b), 4)

pb_decode_varint(s) == Take64(s, VarintBytes(s))
pb_decode_varint32(s) == Take32(s, VarintBytes(s))

SkipBytes(s, b) == IF b = <<>> THEN Failed(s) ELSE pb_read(s, Len(b))
pb_skip_varint(s) == SkipBytes(s, VarintBytes(s))

\* Sizes from here on are all the same: no stream is that long.
HugeSize == 2 ^ 30
SizeOf(v) ==
  IF v[4] >= 64 THEN HugeSize ELSE v[1] + 256 * (v[2] + 256 * (v[3] + 256 * v[4]))

WT_VARINT == 0
WT_64BIT == 1
WT_STRING == 2
WT_32BIT == 5
WT_PACKED == 255

\* [s, tag, wt]
Tag(r) ==
  [s |-> r.s, wt |-> r.v[1] % 8,
   tag |-> r.v[1] \div 8 + 32 * (r.v[2] + 256 * (r.v[3] + 256 * r.v[4]))]
pb_decode_tag(s) == Tag(pb_decode_varint32(s))

\* [s, n]: a length, and the stream behind it.
SizeIs(r) == [s |-> r.s, n |-> SizeOf(r.v)]
DecodeSize(s) == SizeIs(pb_decode_varint32(s))

SkipSized(r) == pb_read(r.s, r.n)
pb_skip_string(s) == SkipSized(DecodeSize(s))

pb_skip_field(s, wt) ==
  CASE wt = WT_VARINT -> pb_skip_varint(s)
    [] wt = WT_64BIT -> pb_read(s, 8)
    [] wt = WT_STRING -> pb_skip_string(s)
    [] wt = WT_32BIT -> pb_read(s, 4)
    [] OTHER -> Failed(s)

\* [s, sub]: what comes behind a string and the string as a stream of its own.  They
\* read on together: the stream's place is the substream's when that is closed.
Substream(s, r) ==
  IF ~r.s.ok \/ r.s.left < r.n THEN [s |-> Failed(s), sub |-> Failed(s)]
  ELSE [s |-> [r.s EXCEPT !.left = @ - r.n], sub |-> [r.s EXCEPT !.left = r.n]]
pb_make_string_substream(s) == Substream(s, DecodeSize(s))

\* What is left in it is skipped.
pb_close_string_substream(s, sub) == [s EXCEPT !.at = sub.at + sub.left]
================================================================================
