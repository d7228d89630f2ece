-------------------------------- MODULE PbVarint --------------------------------
(***************************************************************************)
(* nanopb's loops over varints, one turn a step.                           *)
(***************************************************************************)
EXTENDS PbWire

CONSTANTS
  Values,  \* 64-bit values to encode
  Inputs   \* byte sequences to decode

ASSUME VarintAssumption ==
  /\ Values \subseteq SUBSET (0..63)
  /\ Inputs \subseteq Seq(0..255)

VARIABLES
  op,      \* "encode", "decode" or "decode32"
  pc,
  value,   \* the value to encode
  low, high, byte,
  put,  \* encode: what was put out
  input,   \* decode: what is there to be read
  pos,     \* how much of it was read
  bitpos, result

varint_vars == <<op, pc, value, low, high, byte, put, input, pos, bitpos, result>>

Shifted(w, n) == {b - n : b \in {c \in w : c >= n}}
Masked(w, n) == {b \in w : b < n}
ByteBits(n) == BitsOf(n, 8)
ByteOf(w) == NumberOf(w, 8)
MemoryBits(v) == {b \in 0..(8 * Len(v) - 1) : b % 8 \in ByteBits(v[b \div 8 + 1])}

Blank ==
  /\ low = {} /\ high = {} /\ byte = {} /\ put = <<>>
  /\ pos = 0 /\ bitpos = 0 /\ result = {}

VarintInit ==
  /\ Blank
  /\ \/ op = "encode" /\ pc = "start" /\ value \in Values /\ input = <<>>
     \/ op \in {"decode", "decode32"} /\ pc = "first" /\ value = {} /\ input \in Inputs

(***************************************************************************)
(* pb_encode_varint, and pb_encode_varint_32 when it takes more than one   *)
(* byte.                                                                   *)
(***************************************************************************)
Marked(w) == ByteOf(w \cup {7})

LowWord(w) == Masked(w, 32)

Start ==
  /\ pc = "start"
  /\ IF value \subseteq 0..6
     THEN /\ put' = <<ByteOf(value)>> /\ pc' = "done"
          /\ UNCHANGED <<low, high, byte>>
     ELSE /\ byte' = Masked(value, 7)
          /\ low' = Shifted(LowWord(value), 7) /\ high' = Shifted(value, 32)
          /\ pc' = "low" /\ UNCHANGED put
  /\ UNCHANGED <<op, value, input, pos, bitpos, result>>

LowGoes == Len(put) < 4 /\ (low # {} \/ high # {})

Low ==
  /\ pc = "low" /\ LowGoes
  /\ put' = Append(put, Marked(byte))
  /\ byte' = Masked(low, 7) /\ low' = Shifted(low, 7)
  /\ UNCHANGED <<op, pc, value, high, input, pos, bitpos, result>>

\* The fifth byte holds the top of the low word and three bits of the high one.
Join ==
  /\ pc = "low" /\ ~LowGoes /\ high # {}
  /\ byte' = byte \cup {b + 4 : b \in Masked(high, 3)}
  /\ high' = Shifted(high, 3) /\ pc' = "high"
  /\ UNCHANGED <<op, value, low, put, input, pos, bitpos, result>>

High ==
  /\ pc = "high" /\ high # {}
  /\ put' = Append(put, Marked(byte))
  /\ byte' = Masked(high, 7) /\ high' = Shifted(high, 7)
  /\ UNCHANGED <<op, pc, value, low, input, pos, bitpos, result>>

PutLast ==
  /\ \/ pc = "low" /\ ~LowGoes /\ high = {}
     \/ pc = "high" /\ high = {}
  /\ put' = Append(put, ByteOf(byte)) /\ pc' = "done"
  /\ UNCHANGED <<op, value, low, high, byte, input, pos, bitpos, result>>

(***************************************************************************)
(* pb_decode_varint and pb_decode_varint32_eof.                            *)
(***************************************************************************)
Decoding(p) ==
  /\ pc = p /\ op \in {"decode", "decode32"}
  /\ UNCHANGED <<op, value, low, high, byte, put, input>>

Stop(outcome) == pc' = outcome /\ UNCHANGED <<bitpos, result>>

AtEnd == pc \in {"first", "more"} /\ pos = Len(input)

TooShort ==
  /\ Decoding(pc) /\ AtEnd
  /\ Stop("error") /\ UNCHANGED pos

Read == ByteBits(input[pos + 1])

Goes(c) == pc' = IF 7 \in c THEN "more" ELSE "done"

Take(c, n) ==
  /\ result' = result \cup {b + bitpos : b \in Masked(c, n)}
  /\ bitpos' = bitpos + 7 /\ Goes(c)

TooBig(c) == bitpos >= 63 /\ c \ {0} # {}

Byte64 ==
  /\ op = "decode" /\ Decoding(pc) /\ pc \in {"first", "more"} /\ pos < Len(input)
  /\ pos' = pos + 1
  /\ IF TooBig(Read) THEN Stop("error") ELSE Take(Read, IF bitpos = 63 THEN 1 ELSE 7)

First32 ==
  /\ op = "decode32" /\ Decoding("first") /\ pos < Len(input)
  /\ pos' = pos + 1
  /\ Take(Read, 7)

\* _Zero: only zeros may follow.
Extension_Zero(c) == Masked(c, 7) = {}
Extension(c) ==
  \/ Masked(c, 7) = {}
  \/ 31 \in result /\ c = IF bitpos < 63 THEN 0..7 ELSE {0}

Byte32 ==
  /\ op = "decode32" /\ Decoding("more") /\ pos < Len(input)
  /\ pos' = pos + 1
  /\ \/ /\ bitpos >= 32
        /\ IF bitpos >= 64 \/ ~Extension(Read) THEN Stop("error")
           ELSE /\ bitpos' = bitpos + 7 /\ Goes(Read) /\ UNCHANGED result
     \/ /\ bitpos = 28
        /\ IF Read \cap {4, 5, 6} # {} /\ ~({3, 4, 5, 6} \subseteq Read) THEN Stop("error")
           ELSE Take(Read, 4)
     \/ bitpos < 28 /\ Take(Read, 7)

Encoder == Start \/ Low \/ Join \/ High \/ PutLast
Decoder == TooShort \/ Byte64 \/ First32 \/ Byte32
VarintNext == Encoder \/ Decoder

VarintSpec == VarintInit /\ [][VarintNext]_varint_vars

(***************************************************************************)
(* Properties.                                                             *)
(***************************************************************************)
Outcomes == {"done", "error"}

PutsGroups ==
  op = "encode" /\ pc = "done" =>
    /\ \A i \in 1..Len(put) :
         /\ ByteBits(put[i]) \cap 0..6 = Masked(Shifted(value, 7 * (i - 1)), 7)
         /\ put[i] >= 128 <=> i < Len(put)
    /\ value \subseteq 0..(7 * Len(put) - 1)
    /\ Len(put) > 1 => put[Len(put)] # 0

\* What the decoders take and make of it is what the rest of the model has them do.
Stream == pb_istream_from_buffer(input)
AsModelled ==
  LET r == IF op = "decode" THEN pb_decode_varint(Stream) ELSE pb_decode_varint32(Stream)
  IN /\ (pc = "done") = r.s.ok
     /\ r.s.ok => pos = r.s.at /\ result = MemoryBits(r.v)

\* What the bytes say, without looking at limits.
Said == UNION {{b + 7 * (i - 1) : b \in ByteBits(input[i]) \cap 0..6} : i \in 1..Len(input)}
Complete == input # <<>> /\ \A i \in 1..Len(input) : input[i] >= 128 <=> i < Len(input)

Takes64 ==
  op = "decode" /\ Complete /\ Len(input) <= 10 =>
    (pc = "done" <=> Said \subseteq 0..63) /\ (pc = "done" => result = Said)

Takes32 ==
  op = "decode32" /\ Complete /\ Len(input) <= 10 =>
    /\ Said \subseteq 0..31 \/ (31..63 \subseteq Said /\ Said \subseteq 0..63) => pc = "done"
    /\ pc = "done" => result = Masked(Said, 32)

\* The encoder's split into two words puts out the groups of the value, and no more.
\* Every number of 64 bits is taken and none that has more; of the 32-bit decoder every
\* number of 32 bits and every negative one that fills 64, and nothing is taken for
\* another number modulo 2^32.  No input keeps a loop going for more than eleven bytes.
VarintsExact ==
  /\ PutsGroups /\ pos <= 11
  /\ pc \in Outcomes /\ op # "encode" => AsModelled /\ Takes64 /\ Takes32
================================================================================
