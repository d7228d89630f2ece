------------------------------ MODULE MpackFormat ------------------------------
(***************************************************************************)
(* The MessagePack tags that mpack writes and reads for this program, as   *)
(* sequences of bytes.  The build has no extensions, no compatibility mode *)
(* and is not optimised for size (Makefile: -D MPACK_STDLIB=0).            *)
(*                                                                         *)
(* A quantity of 32 bits, signed or not, is the Int32 of the same bits, as *)
(* the casts of the code make it; an unsigned one above INT32_MAX is a     *)
(* negative number here and every bound it is compared with is below that. *)
(***************************************************************************)
EXTENDS Integers, Sequences

Byte == 0..255
UINT16_MAX == 65535
UInt16 == 0..UINT16_MAX
INT32_MAX == 2147483647
INT32_MIN == -INT32_MAX - 1
Int32 == INT32_MIN..INT32_MAX
\* A length that a uint32_t holds.
UInt32(n) == n \div 65536 \in UInt16

(***************************************************************************)
(* Big-endian stores and loads.                                            *)
(***************************************************************************)
mpack_store_u16(v) == <<(v \div 256) % 256, v % 256>>

mpack_store_u32(v) ==
  <<(v \div 16777216) % 256, (v \div 65536) % 256, (v \div 256) % 256, v % 256>>

mpack_load_i8(b) == IF b < 128 THEN b ELSE b - 256
mpack_load_u16(b1, b2) == b1 * 256 + b2
mpack_load_i32(b1, b2, b3, b4) ==
  mpack_load_i8(b1) * 16777216 + b2 * 65536 + b3 * 256 + b4

(***************************************************************************)
(* What one write puts into the stream: the shortest tag that holds it.    *)
(***************************************************************************)
\* _Short: an 8-bit tag for every value below 65536.
I32Bytes_Short(v) ==
  CASE v < -32768 -> <<210>> \o mpack_store_u32(v)
    [] -32768 <= v /\ v < -128 -> <<209>> \o mpack_store_u16(v)
    [] -128 <= v /\ v < -32 -> <<208, v % 256>>
    [] -32 <= v /\ v < 128 -> <<v % 256>>
    [] 128 <= v /\ v < 65536 -> <<204, v % 256>>
    [] v >= 65536 -> <<206>> \o mpack_store_u32(v)
I32Bytes(v) ==
  CASE v < -32768 -> <<210>> \o mpack_store_u32(v)
    [] -32768 <= v /\ v < -128 -> <<209>> \o mpack_store_u16(v)
    [] -128 <= v /\ v < -32 -> <<208, v % 256>>
    [] -32 <= v /\ v < 128 -> <<v % 256>>
    [] 128 <= v /\ v < 256 -> <<204, v>>
    [] 256 <= v /\ v < 65536 -> <<205>> \o mpack_store_u16(v)
    [] v >= 65536 -> <<206>> \o mpack_store_u32(v)

U8Bytes(v) == IF v < 128 THEN <<v>> ELSE <<204, v>>

U16Bytes(v) ==
  CASE v < 128 -> <<v>>
    [] 128 <= v /\ v < 256 -> <<204, v>>
    [] v >= 256 -> <<205>> \o mpack_store_u16(v)

\* count is a uint32_t.
ArrayBytes(count) ==
  CASE 0 <= count /\ count < 16 -> <<144 + count>>
    [] 16 <= count /\ count < 65536 -> <<220>> \o mpack_store_u16(count)
    [] OTHER -> <<221>> \o mpack_store_u32(count)

BinBytes(count) ==
  CASE 0 <= count /\ count < 256 -> <<196, count>>
    [] 256 <= count /\ count < 65536 -> <<197>> \o mpack_store_u16(count)
    [] OTHER -> <<198>> \o mpack_store_u32(count)

(***************************************************************************)
(* What a reader makes of the first byte and the header it announces.      *)
(***************************************************************************)
TagSize(b) ==
  CASE b \in {196, 204, 208, 217} -> 2
    [] b \in {197, 205, 209, 218, 220, 222} -> 3
    [] b \in {198, 202, 206, 210, 219, 221, 223} -> 5
    [] b \in {203, 207, 211} -> 9
    [] OTHER -> 1

Reserved(b) == b = 193
Extension(b) == b \in 199..201 \cup 212..216

\* A value that no caller here accepts: nil, bool, float, double, str, map.
Other == [type |-> "other", v |-> 0]

\* The tag at p; its whole header is present.  A uint above INT32_MAX has a
\* negative v; an int beyond 32 bits is a value no caller accepts.
Tag(data, p) ==
  LET b == data[p + 1]
      u8 == data[p + 2]
      u16 == mpack_load_u16(data[p + 2], data[p + 3])
      i32 == mpack_load_i32(data[p + 2], data[p + 3], data[p + 4], data[p + 5])
      low == mpack_load_i32(data[p + 6], data[p + 7], data[p + 8], data[p + 9])
      High(x) == \A i \in 2..5 : data[p + i] = x
  IN CASE b <= 127 -> [type |-> "uint", v |-> b]
       [] b \in 144..159 -> [type |-> "array", v |-> b - 144]
       [] b = 196 -> [type |-> "bin", v |-> u8]
       [] b = 197 -> [type |-> "bin", v |-> u16]
       [] b = 198 -> [type |-> "bin", v |-> i32]
       [] b = 204 -> [type |-> "uint", v |-> u8]
       [] b = 205 -> [type |-> "uint", v |-> u16]
       [] b = 206 -> [type |-> "uint", v |-> i32]
       [] b = 207 -> [type |-> "uint", v |-> IF High(0) THEN low ELSE -1]
       [] b = 208 -> [type |-> "int", v |-> mpack_load_i8(u8)]
       [] b = 209 -> [type |-> "int", v |-> mpack_load_i8(data[p + 2]) * 256 + data[p + 3]]
       [] b = 210 -> [type |-> "int", v |-> i32]
       [] b = 211 /\ \/ High(0) /\ low >= 0
                     \/ High(255) /\ low < 0 -> [type |-> "int", v |-> low]
       [] b = 220 -> [type |-> "array", v |-> u16]
       [] b = 221 -> [type |-> "array", v |-> i32]
       [] b >= 224 -> [type |-> "int", v |-> b - 256]
       [] OTHER -> Other
=============================================================================
