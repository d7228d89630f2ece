---------------------------- MODULE MpackCallProofs -----------------------------
(***************************************************************************)
(* One call to mpack, and what its bytes are to a reader.  The bytes of    *)
(* every tag are bytes, and a reader makes of them the value that was      *)
(* written, for every value of the argument's C type; a write call keeps   *)
(* the writer inside its buffer, an expect call the reader inside its      *)
(* data; and an expect call that succeeds returns what was written.        *)
(***************************************************************************)
EXTENDS MpackCalls, TLAPS

(***************************************************************************)
(* Ranges.  A leaf below never sees two ranges at once.                    *)
(***************************************************************************)
LEMMA Within ==
  ASSUME NEW a \in Int, NEW b \in Int, NEW v \in a..b
  PROVE  v \in Int /\ a <= v /\ v <= b
BY SMT

LEMMA IsByte ==
  ASSUME NEW v \in Int, 0 <= v, v < 256
  PROVE  v \in Byte
BY SMT DEF Byte

LEMMA UInt16Bounds ==
  ASSUME NEW v \in UInt16
  PROVE  v \in Int /\ 0 <= v /\ v < 65536
<1>1. 0 \in Int /\ UINT16_MAX \in Int
  BY SMT DEF UINT16_MAX
<1>2. v \in Int /\ 0 <= v /\ v <= UINT16_MAX
  BY <1>1, Within, Zenon DEF UInt16
<1> QED
  BY <1>2, SMT DEF UINT16_MAX

LEMMA ZeroIsUInt16 == 0 \in UInt16
<1>1. UINT16_MAX \in Int /\ 0 <= UINT16_MAX
  BY SMT DEF UINT16_MAX
<1> QED
  BY <1>1, SMT DEF UInt16

LEMMA Int32Bounds ==
  ASSUME NEW v \in Int32
  PROVE  v \in Int
<1>1. INT32_MIN \in Int /\ INT32_MAX \in Int
  BY SMT DEF INT32_MIN, INT32_MAX
<1> QED
  BY <1>1, Within, Zenon DEF Int32

LEMMA LowByte ==
  ASSUME NEW v \in Int
  PROVE  v % 256 \in Byte
<1>1. v % 256 \in Int /\ 0 <= v % 256 /\ v % 256 < 256
  BY SMT
<1> QED
  BY <1>1, IsByte, Zenon

LEMMA FirstBytes ==
  /\ 196 \in Byte /\ 197 \in Byte /\ 198 \in Byte /\ 204 \in Byte /\ 205 \in Byte
  /\ 206 \in Byte /\ 208 \in Byte /\ 209 \in Byte /\ 210 \in Byte /\ 220 \in Byte
  /\ 221 \in Byte
BY IsByte, SMT

(***************************************************************************)
(* Sequences of bytes.                                                     *)
(***************************************************************************)
LEMMA One ==
  ASSUME NEW a \in Byte
  PROVE  <<a>> \in Seq(Byte)
BY SMT

LEMMA Two ==
  ASSUME NEW a \in Byte, NEW b \in Byte
  PROVE  <<a, b>> \in Seq(Byte)
BY SMT

LEMMA Four ==
  ASSUME NEW a \in Byte, NEW b \in Byte, NEW c \in Byte, NEW d \in Byte
  PROVE  <<a, b, c, d>> \in Seq(Byte)
BY SMT

LEMMA StoreBytes ==
  ASSUME NEW v \in Int
  PROVE  mpack_store_u16(v) \in Seq(Byte) /\ mpack_store_u32(v) \in Seq(Byte)
<1> DEFINE b3 == (v \div 16777216) % 256
           b2 == (v \div 65536) % 256
           b1 == (v \div 256) % 256
           b0 == v % 256
<1>1. v \div 256 \in Int /\ v \div 65536 \in Int /\ v \div 16777216 \in Int
  BY SMT
<1>2. b3 \in Byte /\ b2 \in Byte /\ b1 \in Byte /\ b0 \in Byte
  BY <1>1, LowByte, SMT
<1>3. mpack_store_u16(v) = <<b1, b0>> /\ mpack_store_u32(v) = <<b3, b2, b1, b0>>
  BY SMT DEF mpack_store_u16, mpack_store_u32
<1> HIDE DEF b3, b2, b1, b0
<1> QED
  BY <1>2, <1>3, Two, Four, Zenon

LEMMA Behind ==
  ASSUME NEW b \in Byte, NEW s \in Seq(Byte)
  PROVE  <<b>> \o s \in Seq(Byte)
BY SMT

\* A tag's first byte and what may follow it.
LEMMA Headed ==
  ASSUME NEW b \in Byte, NEW v \in Int
  PROVE  /\ <<b>> \in Seq(Byte)
         /\ <<b>> \o mpack_store_u16(v) \in Seq(Byte)
         /\ <<b>> \o mpack_store_u32(v) \in Seq(Byte)
BY StoreBytes, Behind, One, Zenon

(***************************************************************************)
(* The tags.  Which of the encodings is taken depends on the size alone.   *)
(***************************************************************************)
BySize(v, a, b, c, d, e, f, g) ==
  CASE v < -32768 -> a
    [] -32768 <= v /\ v < -128 -> b
    [] -128 <= v /\ v < -32 -> c
    [] -32 <= v /\ v < 128 -> d
    [] 128 <= v /\ v < 256 -> e
    [] 256 <= v /\ v < 65536 -> f
    [] v >= 65536 -> g

LEMMA I32BytesType ==
  ASSUME NEW v \in Int32
  PROVE  I32Bytes(v) \in Seq(Byte)
<1> DEFINE a == <<210>> \o mpack_store_u32(v)
           b == <<209>> \o mpack_store_u16(v)
           c == <<208, v % 256>>
           d == <<v % 256>>
           e == <<204, v>>
           f == <<205>> \o mpack_store_u16(v)
           g == <<206>> \o mpack_store_u32(v)
<1>1. v \in Int /\ v % 256 \in Byte
  BY Int32Bounds, LowByte, Zenon
<1>2. a \in Seq(Byte) /\ b \in Seq(Byte) /\ f \in Seq(Byte) /\ g \in Seq(Byte)
  BY <1>1, FirstBytes, Headed, ZenonT(30)
<1>3. c \in Seq(Byte) /\ d \in Seq(Byte)
  BY <1>1, FirstBytes, One, Two, ZenonT(30)
<1>4. 128 <= v /\ v < 256 => e \in Seq(Byte)
  <2>1. 128 <= v => 0 <= v
    BY <1>1, SMT
  <2> QED
    BY <2>1, <1>1, IsByte, FirstBytes, Two, Zenon
<1>5. I32Bytes(v) = BySize(v, a, b, c, d, e, f, g)
  BY SMT DEF I32Bytes, BySize
<1> HIDE DEF a, b, c, d, e, f, g
<1> QED
  BY <1>1, <1>2, <1>3, <1>4, <1>5, SMT DEF BySize

LEMMA U8BytesType ==
  ASSUME NEW v \in Byte
  PROVE  U8Bytes(v) \in Seq(Byte)
BY FirstBytes, One, Two, Zenon DEF U8Bytes

LEMMA U16BytesType ==
  ASSUME NEW v \in UInt16
  PROVE  U16Bytes(v) \in Seq(Byte)
<1>1. v \in Int /\ 0 <= v
  BY UInt16Bounds, SMT
<1>2. v < 256 => <<v>> \in Seq(Byte) /\ <<204, v>> \in Seq(Byte)
  BY <1>1, IsByte, FirstBytes, One, Two, Zenon
<1>3. <<205>> \o mpack_store_u16(v) \in Seq(Byte)
  BY <1>1, FirstBytes, Headed, Zenon
<1>4. v < 128 \/ (128 <= v /\ v < 256) \/ v >= 256
  BY <1>1, SMT
<1>5. v < 128 => v < 256
  BY <1>1, SMT
<1> QED
  BY <1>2, <1>3, <1>4, <1>5, Zenon DEF U16Bytes

ByCount(n, bound, a, b, c) ==
  CASE 0 <= n /\ n < bound -> a
    [] bound <= n /\ n < 65536 -> b
    [] OTHER -> c

LEMMA ArrayBytesType ==
  ASSUME NEW n \in Int
  PROVE  ArrayBytes(n) \in Seq(Byte)
<1>1. 0 <= n /\ n < 16 => 144 + n \in Int /\ 0 <= 144 + n /\ 144 + n < 256
  BY SMT
<1>2. 0 <= n /\ n < 16 => <<144 + n>> \in Seq(Byte)
  BY <1>1, IsByte, One, Zenon
<1>3. /\ <<220>> \o mpack_store_u16(n) \in Seq(Byte)
      /\ <<221>> \o mpack_store_u32(n) \in Seq(Byte)
  BY FirstBytes, Headed, ZenonT(30)
<1> DEFINE a == <<144 + n>>
           b == <<220>> \o mpack_store_u16(n)
           c == <<221>> \o mpack_store_u32(n)
<1>4. ArrayBytes(n) = ByCount(n, 16, a, b, c)
  BY SMT DEF ArrayBytes, ByCount
<1>5. a \in Seq(Byte) \/ ~(0 <= n /\ n < 16)
  BY <1>2, Zenon
<1>6. b \in Seq(Byte) /\ c \in Seq(Byte)
  BY <1>3, Zenon
<1> HIDE DEF a, b, c
<1> QED
  BY <1>4, <1>5, <1>6, SMT DEF ByCount

LEMMA BinBytesType ==
  ASSUME NEW n \in Nat
  PROVE  BinBytes(n) \in Seq(Byte)
<1>1. n \in Int /\ 256 \in Int
  BY SMT
<1>2. 0 <= n /\ n < 256 => <<196, n>> \in Seq(Byte)
  BY <1>1, IsByte, FirstBytes, One, Two, Zenon
<1>3. /\ <<197>> \o mpack_store_u16(n) \in Seq(Byte)
      /\ <<198>> \o mpack_store_u32(n) \in Seq(Byte)
  BY <1>1, FirstBytes, Headed, ZenonT(30)
<1> DEFINE a == <<196, n>>
           b == <<197>> \o mpack_store_u16(n)
           c == <<198>> \o mpack_store_u32(n)
<1>4. BinBytes(n) = ByCount(n, 256, a, b, c)
  BY SMT DEF BinBytes, ByCount
<1>5. a \in Seq(Byte) \/ ~(0 <= n /\ n < 256)
  BY <1>2, Zenon
<1>6. b \in Seq(Byte) /\ c \in Seq(Byte)
  BY <1>3, Zenon
<1> HIDE DEF a, b, c
<1> QED
  BY <1>1, <1>4, <1>5, <1>6, SMT DEF ByCount

(***************************************************************************)
(* Loads undo stores.                                                      *)
(***************************************************************************)
LEMMA LoadU16 ==
  ASSUME NEW v \in Int, 0 <= v, v < 65536
  PROVE  mpack_load_u16((v \div 256) % 256, v % 256) = v
BY SMT DEF mpack_load_u16

LEMMA LoadI16 ==
  ASSUME NEW v \in Int, -32768 <= v, v < 32768
  PROVE  mpack_load_i8((v \div 256) % 256) * 256 + (v % 256) = v
BY SMT DEF mpack_load_i8

LEMMA LoadI8 ==
  ASSUME NEW v \in Int, -128 <= v, v < 128
  PROVE  mpack_load_i8(v % 256) = v
BY SMT DEF mpack_load_i8

LEMMA Int32Range ==
  ASSUME NEW v \in Int32
  PROVE  v \in Int /\ INT32_MIN <= v /\ v <= INT32_MAX
<1>1. INT32_MIN \in Int /\ INT32_MAX \in Int
  BY SMT DEF INT32_MIN, INT32_MAX
<1> QED
  BY <1>1, Within, Zenon DEF Int32

\* What mpack_load_i32 makes of the four bytes of v, and what it should make of them:
\* an unsigned quantity from 2^31 on is the negative one of the same bits.
Reloaded(v) ==
  mpack_load_i32((v \div 16777216) % 256, (v \div 65536) % 256, (v \div 256) % 256, v % 256)
AsInt32(v) == IF v <= INT32_MAX THEN v ELSE v - 4294967296
Fits32(v) == INT32_MIN <= v /\ v < 4294967296

LEMMA LoadI32 ==
  ASSUME NEW v \in Int, Fits32(v)
  PROVE  Reloaded(v) = AsInt32(v)
BY SMT DEF mpack_load_i32, mpack_load_i8, Reloaded, AsInt32, Fits32, INT32_MIN, INT32_MAX

LEMMA LoadInt32 ==
  ASSUME NEW v \in Int32
  PROVE  v \in Int /\ Reloaded(v) = v
<1>1. v \in Int /\ INT32_MIN <= v /\ v <= INT32_MAX
  BY Int32Range, Zenon
<1>2. Fits32(v) /\ AsInt32(v) = v
  BY <1>1, SMT DEF Fits32, AsInt32, INT32_MAX, INT32_MIN
<1> QED
  BY <1>1, <1>2, LoadI32, Zenon

(***************************************************************************)
(* What a reader makes of those bytes.                                     *)
(***************************************************************************)
\* The bytes s are in data behind p.
At(data, p, s) == \A i \in 1..Len(s) : data[p + i] = s[i]

\* A tag of size bytes begins behind p, with that type and value.
Decoded(data, p, size, type, v) ==
  /\ TagSize(data[p + 1]) = size
  /\ ~Reserved(data[p + 1]) /\ ~Extension(data[p + 1])
  /\ Tag(data, p) = [type |-> type, v |-> v]

LEMMA AtOne ==
  ASSUME NEW data, NEW p, NEW a, At(data, p, <<a>>)
  PROVE  Len(<<a>>) = 1 /\ data[p + 1] = a
<1>1. Len(<<a>>) = 1 /\ <<a>>[1] = a
  BY SMT
<1>2. 1 \in 1..1
  BY SMT
<1> QED
  BY <1>1, <1>2, Zenon DEF At

LEMMA AtTwo ==
  ASSUME NEW data, NEW p, NEW a, NEW b, At(data, p, <<a, b>>)
  PROVE  Len(<<a, b>>) = 2 /\ data[p + 1] = a /\ data[p + 2] = b
<1>1. Len(<<a, b>>) = 2 /\ <<a, b>>[1] = a /\ <<a, b>>[2] = b
  BY SMT
<1>2. 1 \in 1..2 /\ 2 \in 1..2
  BY SMT
<1> QED
  BY <1>1, <1>2, Zenon DEF At

\* The bytes of a tag of three or five.
LEMMA AtThree ==
  ASSUME NEW data, NEW p, NEW s, At(data, p, s), Len(s) = 3
  PROVE  data[p + 1] = s[1] /\ data[p + 2] = s[2] /\ data[p + 3] = s[3]
<1>1. 1 \in 1..3 /\ 2 \in 1..3 /\ 3 \in 1..3
  BY SMT
<1> QED
  BY <1>1, Zenon DEF At

LEMMA AtFive ==
  ASSUME NEW data, NEW p, NEW s, At(data, p, s), Len(s) = 5
  PROVE  /\ data[p + 1] = s[1] /\ data[p + 2] = s[2] /\ data[p + 3] = s[3]
         /\ data[p + 4] = s[4] /\ data[p + 5] = s[5]
<1>1. 1 \in 1..5 /\ 2 \in 1..5 /\ 3 \in 1..5 /\ 4 \in 1..5 /\ 5 \in 1..5
  BY SMT
<1> QED
  BY <1>1, Zenon DEF At

LEMMA FixedForms ==
  ASSUME NEW data, NEW p, data[p + 1] \in Int
  PROVE  /\ 0 <= data[p + 1] /\ data[p + 1] < 128 =>
              Decoded(data, p, 1, "uint", data[p + 1])
         /\ 144 <= data[p + 1] /\ data[p + 1] < 160 =>
              Decoded(data, p, 1, "array", data[p + 1] - 144)
         /\ 224 <= data[p + 1] /\ data[p + 1] < 256 =>
              Decoded(data, p, 1, "int", data[p + 1] - 256)
<1>1. 0 <= data[p + 1] /\ data[p + 1] < 128 => Decoded(data, p, 1, "uint", data[p + 1])
  BY SMT DEF Decoded, Tag, TagSize, Reserved, Extension
<1>2. 144 <= data[p + 1] /\ data[p + 1] < 160 => Decoded(data, p, 1, "array", data[p + 1] - 144)
  BY SMT DEF Decoded, Tag, TagSize, Reserved, Extension
<1>3. 224 <= data[p + 1] /\ data[p + 1] < 256 => Decoded(data, p, 1, "int", data[p + 1] - 256)
  BY SMT DEF Decoded, Tag, TagSize, Reserved, Extension
<1> QED
  BY <1>1, <1>2, <1>3, SMT

LEMMA ByteForms ==
  ASSUME NEW data, NEW p
  PROVE  /\ data[p + 1] = 196 => Decoded(data, p, 2, "bin", data[p + 2])
         /\ data[p + 1] = 204 => Decoded(data, p, 2, "uint", data[p + 2])
         /\ data[p + 1] = 208 => Decoded(data, p, 2, "int", mpack_load_i8(data[p + 2]))
BY SMTT(30) DEF Decoded, Tag, TagSize, Reserved, Extension

\* The tags of three and five bytes.
Short(h, v) == <<h>> \o mpack_store_u16(v)
Long(h, v) == <<h>> \o mpack_store_u32(v)

LEMMA ShortForms ==
  ASSUME NEW data, NEW p, NEW v \in Int, NEW h, NEW s, s = Short(h, v), At(data, p, s)
  PROVE  LET u16 == mpack_load_u16((v \div 256) % 256, v % 256)
             i16 == mpack_load_i8((v \div 256) % 256) * 256 + (v % 256)
         IN /\ h = 197 => Decoded(data, p, Len(s), "bin", u16)
            /\ h = 205 => Decoded(data, p, Len(s), "uint", u16)
            /\ h = 209 => Decoded(data, p, Len(s), "int", i16)
            /\ h = 220 => Decoded(data, p, Len(s), "array", u16)
<1> DEFINE a == (v \div 256) % 256
           b == v % 256
<1>1. s = <<h>> \o <<a, b>>
  BY Zenon DEF mpack_store_u16, Short
<1> HIDE DEF a, b
<1>2. Len(s) = 3 /\ data[p + 1] = h /\ data[p + 2] = a /\ data[p + 3] = b
  <2>1. Len(s) = 3 /\ s[1] = h /\ s[2] = a /\ s[3] = b
    BY <1>1, SMT
  <2> QED
    BY <2>1, AtThree, Zenon
<1>3. h = 197 => Decoded(data, p, Len(s), "bin", mpack_load_u16(a, b))
  BY <1>2, SMT DEF Decoded, Tag, TagSize, Reserved, Extension
<1>4. h = 205 => Decoded(data, p, Len(s), "uint", mpack_load_u16(a, b))
  BY <1>2, SMT DEF Decoded, Tag, TagSize, Reserved, Extension
<1>5. h = 209 => Decoded(data, p, Len(s), "int", mpack_load_i8(a) * 256 + b)
  BY <1>2, SMT DEF Decoded, Tag, TagSize, Reserved, Extension
<1>6. h = 220 => Decoded(data, p, Len(s), "array", mpack_load_u16(a, b))
  BY <1>2, SMT DEF Decoded, Tag, TagSize, Reserved, Extension
<1> QED
  BY <1>3, <1>4, <1>5, <1>6, SMT DEF a, b

LEMMA LongForms ==
  ASSUME NEW data, NEW p, NEW v \in Int, NEW h, NEW s, s = Long(h, v), At(data, p, s)
  PROVE  /\ h = 198 => Decoded(data, p, Len(s), "bin", Reloaded(v))
         /\ h = 206 => Decoded(data, p, Len(s), "uint", Reloaded(v))
         /\ h = 210 => Decoded(data, p, Len(s), "int", Reloaded(v))
         /\ h = 221 => Decoded(data, p, Len(s), "array", Reloaded(v))
<1>1. PICK a, b, c, d :
        mpack_store_u32(v) = <<a, b, c, d>> /\ Reloaded(v) = mpack_load_i32(a, b, c, d)
  BY SMT DEF mpack_store_u32, Reloaded
<1>2. s = <<h>> \o <<a, b, c, d>>
  BY <1>1, Zenon DEF Long
<1>3. /\ Len(s) = 5 /\ data[p + 1] = h
      /\ data[p + 2] = a /\ data[p + 3] = b /\ data[p + 4] = c /\ data[p + 5] = d
  <2>1. Len(s) = 5 /\ s[1] = h /\ s[2] = a /\ s[3] = b /\ s[4] = c /\ s[5] = d
    BY <1>2, SMT
  <2> QED
    BY <2>1, AtFive, ZenonT(30)
<1> DEFINE i32 == mpack_load_i32(a, b, c, d)
<1>4. h = 198 => Decoded(data, p, Len(s), "bin", i32)
  BY <1>3, SMT DEF Decoded, Tag, TagSize, Reserved, Extension
<1>5. h = 206 => Decoded(data, p, Len(s), "uint", i32)
  BY <1>3, SMT DEF Decoded, Tag, TagSize, Reserved, Extension
<1>6. h = 210 => Decoded(data, p, Len(s), "int", i32)
  BY <1>3, SMT DEF Decoded, Tag, TagSize, Reserved, Extension
<1>7. h = 221 => Decoded(data, p, Len(s), "array", i32)
  BY <1>3, SMT DEF Decoded, Tag, TagSize, Reserved, Extension
<1> HIDE DEF i32
<1>8. Reloaded(v) = i32
  BY <1>1, Zenon DEF i32
<1> QED
  BY <1>4, <1>5, <1>6, <1>7, <1>8, SMT

LEMMA I32Decodes ==
  ASSUME NEW v \in Int32, NEW data, NEW p, At(data, p, I32Bytes(v))
  PROVE  Decoded(data, p, Len(I32Bytes(v)), IF v < 0 THEN "int" ELSE "uint", v)
<1>0. v \in Int /\ Reloaded(v) = v
  BY LoadInt32, Zenon
<1>1. CASE v < -32768
  <2>1. I32Bytes(v) = Long(210, v) /\ v < 0
    BY <1>0, <1>1, SMTT(30) DEF Long, I32Bytes
  <2>2. Decoded(data, p, Len(I32Bytes(v)), "int", v)
    BY <1>0, <2>1, LongForms, SMT
  <2> QED
    BY <2>1, <2>2, SMT
<1>2. CASE -32768 <= v /\ v < -128
  <2>1. I32Bytes(v) = Short(209, v) /\ v < 0
    BY <1>0, <1>2, SMT DEF Short, I32Bytes
  <2>2. mpack_load_i8((v \div 256) % 256) * 256 + (v % 256) = v
    BY <1>0, <1>2, LoadI16, SMT
  <2>3. Decoded(data, p, Len(I32Bytes(v)), "int", v)
    BY <1>0, <2>1, <2>2, ShortForms, SMT
  <2> QED
    BY <2>1, <2>3, SMT
<1>3. CASE -128 <= v /\ v < -32
  <2>1. I32Bytes(v) = <<208, v % 256>> /\ v < 0
    BY <1>0, <1>3, SMT DEF I32Bytes
  <2>2. mpack_load_i8(v % 256) = v
    BY <1>0, <1>3, LoadI8, SMT
  <2>3. Len(<<208, v % 256>>) = 2 /\ Decoded(data, p, 2, "int", v)
    BY <2>1, <2>2, AtTwo, ByteForms, SMT
  <2> QED
    BY <2>1, <2>3, SMT
<1>4. CASE -32 <= v /\ v < 0
  <2>1. I32Bytes(v) = <<v % 256>> /\ v < 128
    BY <1>0, <1>4, SMT DEF I32Bytes
  <2>2. v % 256 \in Int /\ 224 <= v % 256 /\ v % 256 < 256 /\ (v % 256) - 256 = v
    BY <1>0, <1>4, SMT
  <2>3. Len(<<v % 256>>) = 1 /\ data[p + 1] = v % 256
    BY <2>1, AtOne, SMT
  <2>4. Decoded(data, p, 1, "int", v)
    BY <2>2, <2>3, FixedForms, SMT
  <2> QED
    BY <1>4, <2>1, <2>3, <2>4, SMT
<1>5. CASE 0 <= v /\ v < 128
  <2>1. I32Bytes(v) = <<v % 256>> /\ ~(v < 0)
    BY <1>0, <1>5, SMT DEF I32Bytes
  <2>2. v % 256 = v
    BY <1>0, <1>5, SMT
  <2>3. Len(<<v % 256>>) = 1 /\ data[p + 1] = v
    BY <2>1, <2>2, AtOne, SMT
  <2>4. Decoded(data, p, 1, "uint", v)
    BY <1>0, <1>5, <2>3, FixedForms, SMT
  <2> QED
    BY <2>1, <2>3, <2>4, SMT
<1>6. CASE 128 <= v /\ v < 256
  <2>1. I32Bytes(v) = <<204, v>> /\ ~(v < 0)
    BY <1>0, <1>6, SMT DEF I32Bytes
  <2>2. Len(<<204, v>>) = 2 /\ Decoded(data, p, 2, "uint", v)
    BY <2>1, AtTwo, ByteForms, SMT
  <2> QED
    BY <2>1, <2>2, SMT
<1>7. CASE 256 <= v /\ v < 65536
  <2>1. I32Bytes(v) = Short(205, v) /\ ~(v < 0)
    BY <1>0, <1>7, SMT DEF Short, I32Bytes
  <2>2. mpack_load_u16((v \div 256) % 256, v % 256) = v
    BY <1>0, <1>7, LoadU16, SMT
  <2>3. Decoded(data, p, Len(I32Bytes(v)), "uint", v)
    BY <1>0, <2>1, <2>2, ShortForms, SMT
  <2> QED
    BY <2>1, <2>3, SMT
<1>8. CASE v >= 65536
  <2>1. I32Bytes(v) = Long(206, v) /\ ~(v < 0)
    BY <1>0, <1>8, SMT DEF Long, I32Bytes
  <2>2. Decoded(data, p, Len(I32Bytes(v)), "uint", v)
    BY <1>0, <2>1, LongForms, SMT
  <2> QED
    BY <2>1, <2>2, SMT
<1> QED
  BY <1>0, <1>1, <1>2, <1>3, <1>4, <1>5, <1>6, <1>7, <1>8, SMT

\* A small number written by mpack_write_u8 or mpack_write_u16 has the tag of the same
\* int32.
LEMMA SmallNumbers ==
  /\ \A v \in Byte : U8Bytes(v) = I32Bytes(v)
  /\ \A v \in UInt16 : U16Bytes(v) = I32Bytes(v)
<1>1. ASSUME NEW v \in Byte PROVE U8Bytes(v) = I32Bytes(v)
  <2>1. v \in Int /\ 0 <= v /\ v < 256
    BY SMT DEF Byte
  <2>2. v % 256 = v
    BY <2>1, SMT
  <2> QED
    BY <2>1, <2>2, SMT DEF U8Bytes, I32Bytes
<1>2. ASSUME NEW v \in UInt16 PROVE U16Bytes(v) = I32Bytes(v)
  <2>1. v \in Int /\ 0 <= v /\ v < 65536
    BY UInt16Bounds, SMT
  <2>2. v < 128 => v % 256 = v
    BY <2>1, SMT
  <2> QED
    BY <2>1, <2>2, SMT DEF U16Bytes, I32Bytes
<1> QED
  BY <1>1, <1>2, Zenon

LEMMA ArrayDecodes ==
  ASSUME NEW v \in Int32, NEW data, NEW p, At(data, p, ArrayBytes(v))
  PROVE  Decoded(data, p, Len(ArrayBytes(v)), "array", v)
<1>0. v \in Int /\ Reloaded(v) = v
  BY LoadInt32, Zenon
<1>1. CASE 0 <= v /\ v < 16
  <2>1. ArrayBytes(v) = <<144 + v>>
    BY <1>0, <1>1, SMT DEF ArrayBytes
  <2>2. Len(<<144 + v>>) = 1 /\ data[p + 1] = 144 + v
    BY <2>1, AtOne, SMT
  <2>3. 144 + v \in Int /\ 144 <= 144 + v /\ 144 + v < 160 /\ (144 + v) - 144 = v
    BY <1>0, <1>1, SMT
  <2>4. Decoded(data, p, 1, "array", v)
    BY <2>2, <2>3, FixedForms, SMT
  <2> QED
    BY <2>1, <2>2, <2>4, SMT
<1>2. CASE 16 <= v /\ v < 65536
  <2>1. ArrayBytes(v) = Short(220, v) 
    BY <1>0, <1>2, SMT DEF Short, ArrayBytes
  <2>2. mpack_load_u16((v \div 256) % 256, v % 256) = v
    BY <1>0, <1>2, LoadU16, SMT
  <2>3. Decoded(data, p, Len(ArrayBytes(v)), "array", v)
    BY <1>0, <2>1, <2>2, ShortForms, SMT
  <2> QED
    BY <2>1, <2>3, SMT
<1>3. CASE v < 0 \/ v >= 65536
  <2>1. ArrayBytes(v) = Long(221, v)
    BY <1>0, <1>3, SMT DEF Long, ArrayBytes
  <2>2. Decoded(data, p, Len(ArrayBytes(v)), "array", v)
    BY <1>0, <2>1, LongForms, SMT
  <2> QED
    BY <2>1, <2>2, SMT
<1> QED
  BY <1>0, <1>1, <1>2, <1>3, SMT

\* The length of a bin is a uint32_t; from 2^31 on its Int32 is negative.
LEMMA BinDecodes ==
  ASSUME NEW n \in Nat, UInt32(n), NEW data, NEW p, At(data, p, BinBytes(n))
  PROVE  Decoded(data, p, Len(BinBytes(n)), "bin", AsInt32(n))
<1>0. n \in Int /\ 0 <= n /\ n < 4294967296
  <2>1. n \div 65536 < 65536
    BY UInt16Bounds, SMT DEF UInt32
  <2> QED
    BY <2>1, SMT
<1>i. n \in Int
  BY SMT
<1>1. CASE n < 256
  <2>1. BinBytes(n) = <<196, n>> /\ AsInt32(n) = n
    BY <1>0, <1>1, SMT DEF BinBytes, AsInt32, INT32_MAX
  <2>2. Len(<<196, n>>) = 2 /\ Decoded(data, p, 2, "bin", n)
    BY <2>1, AtTwo, ByteForms, SMT
  <2> QED
    BY <2>1, <2>2, SMT
<1>2. CASE 256 <= n /\ n < 65536
  <2>1. BinBytes(n) = Short(197, n) /\ AsInt32(n) = n
    BY <1>0, <1>2, SMT DEF Short, BinBytes, AsInt32, INT32_MAX
  <2>2. mpack_load_u16((n \div 256) % 256, n % 256) = n
    BY <1>0, <1>2, LoadU16, SMT
  <2>3. Decoded(data, p, Len(BinBytes(n)), "bin", n)
    BY <1>i, <2>1, <2>2, ShortForms, SMT
  <2> QED
    BY <2>1, <2>3, SMT
<1>3. CASE n >= 65536
  <2>1. BinBytes(n) = Long(198, n)
    BY <1>0, <1>3, SMT DEF Long, BinBytes, AsInt32, INT32_MAX
  <2>2. Reloaded(n) = AsInt32(n)
    <3>1. Fits32(n)
      BY <1>0, SMT DEF Fits32, INT32_MIN, INT32_MAX
    <3> QED
      BY <3>1, LoadI32, SMT
  <2>3. Decoded(data, p, Len(BinBytes(n)), "bin", AsInt32(n))
    BY <1>i, <2>1, <2>2, LongForms, SMT
  <2> QED
    BY <2>1, <2>3, SMT
<1> QED
  BY <1>0, <1>1, <1>2, <1>3, SMT

(***************************************************************************)
(* The writer.                                                             *)
(***************************************************************************)
LEMMA WriterFields ==
  ASSUME NEW w, WriterOK(w)
  PROVE  /\ w.buffer \in Seq(Byte) /\ w.size \in Nat /\ w.error \in {"ok", "too_big"}
         /\ Len(w.buffer) \in Nat /\ Len(w.buffer) <= w.size
         /\ w = [buffer |-> w.buffer, size |-> w.size, error |-> w.error]
BY SMT DEF WriterOK

\* One write keeps the writer inside its buffer; the error only ever appears, and
\* without one the bytes were appended.
LEMMA WriteKeeps ==
  ASSUME NEW w, WriterOK(w), NEW bytes \in Seq(Byte)
  PROVE  /\ WriterOK(Write(w, bytes))
         /\ Write(w, bytes).size = w.size
         /\ w.error # "ok" => Write(w, bytes).error = w.error
         /\ Write(w, bytes).error = "ok" =>
              w.error = "ok" /\ Write(w, bytes).buffer = w.buffer \o bytes
<1> DEFINE nb == w.buffer \o bytes
<1>0. /\ w.buffer \in Seq(Byte) /\ w.size \in Nat /\ w.error \in {"ok", "too_big"}
      /\ w = [buffer |-> w.buffer, size |-> w.size, error |-> w.error]
  BY WriterFields, Zenon
<1>a. nb \in Seq(Byte) /\ Len(nb) = Len(w.buffer) + Len(bytes)
  BY <1>0, SMT
<1>1. CASE mpack_writer_buffer_left(w) >= Len(bytes)
  <2>1. Write(w, bytes) = [w EXCEPT !.buffer = nb]
    BY <1>1, Zenon DEF Write, Put
  <2>2. w.size - Len(w.buffer) >= Len(bytes)
    BY <1>1, Zenon DEF mpack_writer_buffer_left, mpack_writer_buffer_used
  <2>3. Len(w.buffer) \in Nat /\ Len(bytes) \in Nat
    BY <1>0, SMT
  <2> HIDE DEF nb
  <2>4. Len(nb) <= w.size
    BY <1>0, <1>a, <2>2, <2>3, SMT
  <2>5. [w EXCEPT !.buffer = nb] = [buffer |-> nb, size |-> w.size, error |-> w.error]
    BY <1>0, SMT
  <2>6. WriterOK([buffer |-> nb, size |-> w.size, error |-> w.error])
    BY <1>0, <1>a, <2>4, SMT DEF WriterOK
  <2>7. Write(w, bytes).buffer = nb /\ Write(w, bytes).size = w.size
        /\ Write(w, bytes).error = w.error
    BY <2>1, <2>5, SMT
  <2>8. nb = w.buffer \o bytes
    BY DEF nb
  <2> QED
    BY <2>1, <2>5, <2>6, <2>7, <2>8, Zenon
<1>2. CASE ~(mpack_writer_buffer_left(w) >= Len(bytes)) /\ w.error = "ok"
  <2> DEFINE q == [w EXCEPT !.error = "too_big"]
  <2>1. Write(w, bytes) = q
    BY <1>2, Zenon DEF Write, mpack_writer_flag_error
  <2>2. q.buffer = w.buffer /\ q.size = w.size /\ q.error = "too_big" /\ WriterOK(q)
    BY WriterFields, SMT DEF WriterOK
  <2> QED
    BY <2>1, <2>2, <1>2, SMT
<1>3. CASE ~(mpack_writer_buffer_left(w) >= Len(bytes)) /\ w.error # "ok"
  BY <1>3, Zenon DEF Write, mpack_writer_flag_error
<1> QED
  BY <1>1, <1>2, <1>3, Zenon

LEMMA CallKinds ==
  ASSUME NEW c, IsCall(c)
  PROVE  \/ c.op = "u8" /\ c.v \in Byte
         \/ c.op = "u16" /\ c.v \in UInt16
         \/ c.op = "i32" /\ c.v \in Int32
         \/ c.op = "array" /\ c.v \in Int
         \/ c.op = "bin" /\ c.v \in Seq(Byte)
BY Int32Bounds, Zenon DEF IsCall

LEMMA BinCall ==
  ASSUME NEW w, NEW c, c.op = "bin"
  PROVE  /\ WriteCall(w, c) = Write(Write(w, BinBytes(Len(c.v))), c.v)
         /\ Bytes(c) = BinBytes(Len(c.v)) \o c.v
<1>1. WriteCall(w, c) = mpack_write_bin(w, c.v)
  BY Zenon DEF WriteCall
<1>2. Bytes(c) = BinBytes(Len(c.v)) \o c.v
  BY Zenon DEF Bytes
<1> QED
  BY <1>1, <1>2, Zenon DEF mpack_write_bin, mpack_start_bin

LEMMA Associative ==
  ASSUME NEW s \in Seq(Byte), NEW t \in Seq(Byte), NEW u \in Seq(Byte)
  PROVE  (s \o t) \o u = s \o (t \o u)
BY SMT

LEMMA CallBytes ==
  ASSUME NEW c, IsCall(c)
  PROVE  Bytes(c) \in Seq(Byte)
<1>1. CASE c.op = "u8" /\ c.v \in Byte
  BY <1>1, U8BytesType, SMT DEF Bytes
<1>2. CASE c.op = "u16" /\ c.v \in UInt16
  BY <1>2, U16BytesType, SMT DEF Bytes
<1>3. CASE c.op = "i32" /\ c.v \in Int32
  BY <1>3, I32BytesType, SMT DEF Bytes
<1>4. CASE c.op = "array" /\ c.v \in Int
  BY <1>4, ArrayBytesType, SMT DEF Bytes
<1>5. CASE c.op = "bin" /\ c.v \in Seq(Byte)
  <2>1. BinBytes(Len(c.v)) \in Seq(Byte)
    BY <1>5, BinBytesType, SMT
  <2>2. BinBytes(Len(c.v)) \o c.v \in Seq(Byte)
    BY <2>1, <1>5, SMT
  <2> QED
    BY <2>2, <1>5, SMT DEF Bytes
<1> QED
  BY CallKinds, <1>1, <1>2, <1>3, <1>4, <1>5, Zenon

\* A call, one write or two, does to the writer what one write of its bytes would,
\* as far as an observer of the error and of an error-free buffer can tell.
LEMMA CallKeeps ==
  ASSUME NEW w, WriterOK(w), NEW c, IsCall(c)
  PROVE  /\ WriterOK(WriteCall(w, c))
         /\ WriteCall(w, c).size = w.size
         /\ w.error # "ok" => WriteCall(w, c).error = w.error
         /\ WriteCall(w, c).error = "ok" =>
              w.error = "ok" /\ WriteCall(w, c).buffer = w.buffer \o Bytes(c)
<1>1. CASE c.op # "bin"
  <2>1. WriteCall(w, c) = Write(w, Bytes(c))
    BY <1>1, CallKinds, SMT DEF WriteCall, Bytes, mpack_write_u8, mpack_write_u16,
                                mpack_write_i32, mpack_start_array
  <2> QED
    BY <2>1, CallBytes, WriteKeeps, ZenonT(30)
<1>2. CASE c.op = "bin"
  <2> DEFINE head == BinBytes(Len(c.v))
             u == Write(w, head)
  <2>1. c.v \in Seq(Byte)
    BY <1>2, CallKinds, SMT
  <2>2. head \in Seq(Byte)
    BY <2>1, BinBytesType, SMT
  <2>3. WriteCall(w, c) = Write(u, c.v) /\ Bytes(c) = head \o c.v
    BY <1>2, BinCall, Zenon
  <2> HIDE DEF head
  <2>4. /\ WriterOK(u) /\ u.size = w.size
        /\ w.error # "ok" => u.error = w.error
        /\ u.error = "ok" => w.error = "ok" /\ u.buffer = w.buffer \o head
    BY <2>2, WriteKeeps, Zenon
  <2> HIDE DEF u
  <2> DEFINE q == Write(u, c.v)
  <2>5. /\ WriterOK(q) /\ q.size = u.size
        /\ u.error # "ok" => q.error = u.error
        /\ q.error = "ok" => u.error = "ok" /\ q.buffer = u.buffer \o c.v
    BY <2>1, <2>4, WriteKeeps, Zenon
  <2> HIDE DEF q
  <2>6. (w.buffer \o head) \o c.v = w.buffer \o (head \o c.v)
    <3>1. w.buffer \in Seq(Byte)
      BY WriterFields, Zenon
    <3> QED
      BY <3>1, <2>1, <2>2, Associative, Zenon
  <2>7. WriteCall(w, c) = q
    BY <2>3, Zenon DEF q
  <2> QED
    BY <2>3, <2>4, <2>5, <2>6, <2>7, Zenon
<1> QED
  BY <1>1, <1>2, Zenon

(***************************************************************************)
(* The reader.  What every call does to it: it stays inside its data,      *)
(* which are the same, it never goes back, and after an error it does not  *)
(* move at all.                                                            *)
(***************************************************************************)
Goes(r, q) ==
  /\ ReaderOK(q)
  /\ r.pos <= q.pos
  /\ r.error # "ok" => q.error = r.error /\ q.pos = r.pos
  /\ q.data = r.data
  /\ q.error = "ok" => q.end = r.end

LEMMA ReaderFields ==
  ASSUME NEW r, ReaderOK(r)
  PROVE  /\ r.data \in Seq(Byte) /\ r.pos \in Nat /\ r.end \in Nat /\ r.error \in Errors
         /\ r.pos <= r.end /\ r.end <= Len(r.data)
         /\ r = [data |-> r.data, pos |-> r.pos, end |-> r.end, error |-> r.error]
BY SMT DEF ReaderOK

LEMMA Stays ==
  ASSUME NEW r, ReaderOK(r)
  PROVE  Goes(r, r)
<1>1. r.pos \in Nat
  BY ReaderFields, Zenon
<1>2. r.pos <= r.pos
  BY <1>1, SMT
<1> QED
  BY <1>2, Zenon DEF Goes

LEMMA GoesOn ==
  ASSUME NEW r, NEW p, NEW q, ReaderOK(r), Goes(r, p), Goes(p, q)
  PROVE  Goes(r, q)
<1>1. r.pos \in Nat /\ p.pos \in Nat /\ q.pos \in Nat
  BY ReaderFields, Zenon DEF Goes
<1>2. r.pos <= p.pos /\ p.pos <= q.pos
  BY Zenon DEF Goes
<1>3. r.pos <= q.pos
  BY <1>1, <1>2, SMT
<1> QED
  BY <1>3, Zenon DEF Goes

LEMMA FlagGoes ==
  ASSUME NEW r, ReaderOK(r), NEW e \in Errors, e # "ok"
  PROVE  Goes(r, mpack_reader_flag_error(r, e))
<1>1. CASE r.error # "ok"
  BY <1>1, Stays, Zenon DEF mpack_reader_flag_error
<1>2. CASE r.error = "ok"
  <2> DEFINE q == [data |-> r.data, pos |-> r.pos, end |-> r.pos, error |-> e]
  <2>1. /\ r.data \in Seq(Byte) /\ r.pos \in Nat /\ r.end \in Nat
        /\ r.pos <= r.end /\ r.end <= Len(r.data)
        /\ r = [data |-> r.data, pos |-> r.pos, end |-> r.end, error |-> r.error]
    BY ReaderFields, Zenon
  <2>2. [r EXCEPT !.error = e, !.end = r.pos] = q
    <3> DEFINE u == [data |-> r.data, pos |-> r.pos, end |-> r.end, error |-> e]
    <3>1. [r EXCEPT !.error = e, !.end = r.pos] = [[r EXCEPT !.error = e] EXCEPT !.end = r.pos]
      BY SMT
    <3>2. [r EXCEPT !.error = e] = u
      BY <2>1, SMT
    <3>3. [u EXCEPT !.end = r.pos] = q
      BY SMT
    <3> QED
      BY <3>1, <3>2, <3>3, Zenon
  <2>3. r.pos <= r.pos /\ r.pos <= Len(r.data)
    BY <2>1, SMT
  <2>4. ReaderOK(q) /\ q.pos = r.pos /\ q.data = r.data /\ q.error = e
    BY <2>1, <2>3, SMT DEF ReaderOK
  <2>5. mpack_reader_flag_error(r, e) = q
    BY <1>2, <2>2, Zenon DEF mpack_reader_flag_error
  <2> QED
    BY <1>2, <2>3, <2>4, <2>5, Zenon DEF Goes
<1> QED
  BY <1>1, <1>2, Zenon

\* Bytes that are there may be passed over.
LEMMA AdvanceGoes ==
  ASSUME NEW r, ReaderOK(r), NEW n \in Nat, ~Missing(r, n), r.error = "ok"
  PROVE  Goes(r, [r EXCEPT !.pos = @ + n])
<1> DEFINE q == [data |-> r.data, pos |-> r.pos + n, end |-> r.end, error |-> r.error]
<1>1. /\ r.data \in Seq(Byte) /\ r.pos \in Nat /\ r.end \in Nat /\ r.error \in Errors
      /\ r.pos <= r.end /\ r.end <= Len(r.data)
      /\ r = [data |-> r.data, pos |-> r.pos, end |-> r.end, error |-> r.error]
  BY ReaderFields, Zenon
<1>2. [r EXCEPT !.pos = @ + n] = q
  BY <1>1, SMT
<1>3. r.pos + n \in Nat /\ r.pos + n <= r.end /\ r.pos <= r.pos + n
  BY <1>1, SMT DEF Missing
<1>4. ReaderOK(q) /\ q.pos = r.pos + n /\ q.data = r.data /\ q.end = r.end
  BY <1>1, <1>3, SMT DEF ReaderOK
<1> QED
  BY <1>2, <1>3, <1>4, Zenon DEF Goes

LEMMA TagSizeType ==
  ASSUME NEW b
  PROVE  TagSize(b) \in Nat
BY SMT DEF TagSize

LEMMA ReadTagGoes ==
  ASSUME NEW r, ReaderOK(r)
  PROVE  Goes(r, mpack_read_tag(r).reader)
<1>1. CASE r.error # "ok"
  <2>1. mpack_read_tag(r).reader = r
    BY <1>1, SMT DEF mpack_read_tag
  <2> QED
    BY <2>1, Stays, Zenon
<1>2. CASE r.error = "ok" /\ TagError(r) # "ok"
  <2>1. mpack_read_tag(r).reader = mpack_reader_flag_error(r, TagError(r))
    BY <1>2, SMT DEF mpack_read_tag
  <2>2. TagError(r) \in Errors
    BY SMT DEF TagError, Errors
  <2> QED
    BY <1>2, <2>1, <2>2, FlagGoes, Zenon
<1>3. CASE r.error = "ok" /\ TagError(r) = "ok"
  <2> DEFINE n == TagSize(r.data[r.pos + 1])
  <2>1. mpack_read_tag(r).reader = [r EXCEPT !.pos = @ + n]
    BY <1>3, SMT DEF mpack_read_tag
  <2>2. ~Missing(r, n)
    BY <1>3, SMT DEF TagError
  <2>3. n \in Nat
    BY TagSizeType, Zenon
  <2> HIDE DEF n
  <2> QED
    BY <1>3, <2>1, <2>2, <2>3, AdvanceGoes, Zenon
<1> QED
  BY <1>1, <1>2, <1>3, Zenon

LEMMA ExpectGoes ==
  ASSUME NEW t, ReaderOK(t.reader), NEW A \in BOOLEAN
  PROVE  Goes(t.reader, Expect(t, A).reader)
<1>1. CASE A
  <2>1. Expect(t, A).reader = t.reader
    BY <1>1, Zenon DEF Expect
  <2> QED
    BY <2>1, Stays, Zenon
<1>2. CASE ~A
  <2>1. Expect(t, A).reader = mpack_reader_flag_error(t.reader, "type")
    BY <1>2, Zenon DEF Expect
  <2>2. "type" \in Errors
    BY Zenon DEF Errors
  <2> QED
    BY <2>1, <2>2, FlagGoes, Zenon
<1> QED
  BY <1>1, <1>2, Zenon

LEMMA TagExpectGoes ==
  ASSUME NEW r, ReaderOK(r), NEW A \in BOOLEAN
  PROVE  Goes(r, Expect(mpack_read_tag(r), A).reader)
<1> DEFINE t == mpack_read_tag(r)
<1>1. Goes(r, t.reader)
  BY ReadTagGoes, Zenon
<1>2. ReaderOK(t.reader)
  BY <1>1, Zenon DEF Goes
<1> HIDE DEF t
<1>3. Goes(t.reader, Expect(t, A).reader)
  BY <1>2, ExpectGoes, Zenon
<1>4. Goes(r, Expect(t, A).reader)
  BY <1>1, <1>3, GoesOn, Zenon
<1> QED
  BY <1>4, Zenon DEF t

LEMMA BinBufGoes ==
  ASSUME NEW r, ReaderOK(r), NEW size \in Nat
  PROVE  Goes(r, mpack_expect_bin_buf(r, size).reader)
<1> DEFINE e == mpack_expect_bin(r)
           q == e.reader
           f == mpack_expect_bin_buf(r, size)
<1>1. Goes(r, q) /\ ReaderOK(q)
  <2>1. (mpack_read_tag(r).tag.type = "bin") \in BOOLEAN
    BY Zenon
  <2>2. Goes(r, q)
    BY <2>1, TagExpectGoes, Zenon DEF mpack_expect_bin
  <2> QED
    BY <2>2, Zenon DEF Goes
<1> HIDE DEF e
<1>2. Goes(q, f.reader)
  <2>1. CASE q.error # "ok"
    <3>1. f.reader = q
      BY <2>1, SMT DEF mpack_expect_bin_buf, e
    <3> QED
      BY <3>1, <1>1, Stays, Zenon
  <2>2. CASE q.error = "ok" /\ e.value \notin 0..size
    <3>1. f.reader = mpack_reader_flag_error(q, "too_big")
      BY <2>2, SMT DEF mpack_expect_bin_buf, e
    <3>2. "too_big" \in Errors
      BY Zenon DEF Errors
    <3> QED
      BY <3>1, <3>2, <1>1, FlagGoes, Zenon
  <2>3. CASE q.error = "ok" /\ e.value \in 0..size /\ Missing(q, e.value)
    <3>1. f.reader = mpack_reader_flag_error(q, "invalid")
      BY <2>3, SMT DEF mpack_expect_bin_buf, e
    <3>2. "invalid" \in Errors
      BY Zenon DEF Errors
    <3> QED
      BY <3>1, <3>2, <1>1, FlagGoes, Zenon
  <2>4. CASE q.error = "ok" /\ e.value \in 0..size /\ ~Missing(q, e.value)
    <3>1. f.reader = [q EXCEPT !.pos = @ + e.value]
      BY <2>4, SMT DEF mpack_expect_bin_buf, e
    <3>2. e.value \in Nat
      BY <2>4, SMT
    <3> QED
      BY <3>1, <3>2, <2>4, <1>1, AdvanceGoes, ZenonT(30)
  <2> QED
    BY <2>1, <2>2, <2>3, <2>4, Zenon
<1> HIDE DEF f, q
<1>3. Goes(r, f.reader)
  BY <1>1, <1>2, GoesOn, Zenon
<1> QED
  BY <1>3, Zenon DEF f

LEMMA CallGoes ==
  ASSUME NEW r, ReaderOK(r), NEW op \in Ops, NEW size \in Nat
  PROVE  Goes(r, ExpectCall(r, op, size).reader)
<1> DEFINE tag == mpack_read_tag(r).tag
<1>0. \A lo, hi : InRange(tag, lo, hi) \in BOOLEAN
  BY Zenon DEF InRange
<1>1. CASE op = "u8"
  <2>1. ExpectCall(r, op, size) = Expect(mpack_read_tag(r), InRange(tag, 0, 255))
    BY <1>1, SMT DEF ExpectCall, mpack_expect_u8
  <2> QED
    BY <2>1, <1>0, TagExpectGoes, Zenon
<1>2. CASE op = "u16"
  <2>1. ExpectCall(r, op, size) = Expect(mpack_read_tag(r), InRange(tag, 0, 65535))
    BY <1>2, SMT DEF ExpectCall, mpack_expect_u16
  <2>2. \A A \in BOOLEAN : Goes(r, Expect(mpack_read_tag(r), A).reader)
    BY TagExpectGoes, Zenon
  <2> QED
    BY <2>1, <2>2, <1>0, SMT
<1>3. CASE op = "i32"
  <2>1. ExpectCall(r, op, size) = Expect(mpack_read_tag(r), InRange(tag, INT32_MIN, INT32_MAX))
    BY <1>3, SMT DEF ExpectCall, mpack_expect_i32
  <2> QED
    BY <2>1, <1>0, TagExpectGoes, Zenon
<1>4. CASE op = "array"
  <2>1. ExpectCall(r, op, size) = Expect(mpack_read_tag(r), tag.type = "array")
    BY <1>4, SMT DEF ExpectCall, mpack_expect_array
  <2>2. (tag.type = "array") \in BOOLEAN
    BY Zenon
  <2> QED
    BY <2>1, <2>2, TagExpectGoes, Zenon
<1>5. CASE op = "bin"
  <2>1. ExpectCall(r, op, size) = mpack_expect_bin_buf(r, size)
    BY <1>5, SMT DEF ExpectCall
  <2> QED
    BY <2>1, BinBufGoes, Zenon
<1> QED
  BY <1>1, <1>2, <1>3, <1>4, <1>5, Zenon DEF Ops

LEMMA StartReader ==
  ASSUME NEW data \in Seq(Byte)
  PROVE  ReaderOK(mpack_reader_init_data(data))
BY SMT DEF ReaderOK, mpack_reader_init_data, Errors

(***************************************************************************)
(* What a read call makes of what a write call wrote.                      *)
(***************************************************************************)
Numeric == {"u8", "u16", "i32"}

\* The tag that a write call puts in front, its bytes, its type and its value.
TagBytes(c) == IF c.op = "bin" THEN BinBytes(Len(c.v)) ELSE Bytes(c)
TagType(c) ==
  CASE c.op \in Numeric -> IF c.v < 0 THEN "int" ELSE "uint"
    [] c.op = "array" -> "array"
    [] c.op = "bin" -> "bin"
TagValue(c) == IF c.op = "bin" THEN AsInt32(Len(c.v)) ELSE c.v

LEMMA CallValues ==
  ASSUME NEW c, IsCall(c)
  PROVE  \/ c.op = "u8" /\ c.v \in Byte
         \/ c.op = "u16" /\ c.v \in UInt16
         \/ c.op = "i32" /\ c.v \in Int32
         \/ c.op = "array" /\ c.v \in Int32
         \/ c.op = "bin" /\ c.v \in Seq(Byte) /\ UInt32(Len(c.v))
BY Zenon DEF IsCall

LEMMA SmallInt32 ==
  /\ \A v \in Byte : v \in Int32
  /\ \A v \in UInt16 : v \in Int32
<1>1. ASSUME NEW v \in Int, 0 <= v, v < 65536
      PROVE  v \in Int32
  <2>1. INT32_MIN \in Int /\ INT32_MAX \in Int /\ INT32_MIN <= v /\ v <= INT32_MAX
    BY <1>1, SMT DEF INT32_MIN, INT32_MAX
  <2>2. v \in INT32_MIN..INT32_MAX
    BY <1>1, <2>1, SMT
  <2> QED
    BY <2>2, Zenon DEF Int32
<1>2. ASSUME NEW v \in Byte PROVE v \in Int /\ 0 <= v /\ v < 65536
  BY <1>2, SMT DEF Byte
<1>3. ASSUME NEW v \in UInt16 PROVE v \in Int /\ 0 <= v /\ v < 65536
  BY <1>3, UInt16Bounds, SMT
<1> QED
  BY <1>1, <1>2, <1>3, SMT

\* A number's bytes are those of the int32, whichever call wrote it.
LEMMA NumberBytes ==
  ASSUME NEW c, IsCall(c), c.op \in Numeric
  PROVE  c.v \in Int32 /\ Bytes(c) = I32Bytes(c.v)
<1>1. CASE c.op = "u8" /\ c.v \in Byte
  <2>1. Bytes(c) = U8Bytes(c.v)
    BY <1>1, Zenon DEF Bytes
  <2> QED
    BY <1>1, <2>1, SmallNumbers, SmallInt32, Zenon
<1>2. CASE c.op = "u16" /\ c.v \in UInt16
  <2>1. Bytes(c) = U16Bytes(c.v)
    BY <1>2, SMT DEF Bytes
  <2> QED
    BY <1>2, <2>1, SmallNumbers, SmallInt32, Zenon
<1>3. CASE c.op = "i32" /\ c.v \in Int32
  BY <1>3, SMT DEF Bytes
<1>4. c.op # "array" /\ c.op # "bin"
  BY SMT DEF Numeric
<1> QED
  BY <1>1, <1>2, <1>3, <1>4, CallValues, Zenon

LEMMA TagDecodes ==
  ASSUME NEW c, IsCall(c), NEW data, NEW p, At(data, p, TagBytes(c))
  PROVE  Decoded(data, p, Len(TagBytes(c)), TagType(c), TagValue(c))
<1>1. CASE c.op \in Numeric
  <2>1. TagBytes(c) = I32Bytes(c.v) /\ TagValue(c) = c.v /\ c.v \in Int32
    BY <1>1, NumberBytes, SMT DEF TagBytes, TagValue, Numeric
  <2>2. TagType(c) = IF c.v < 0 THEN "int" ELSE "uint"
    BY <1>1, SMT DEF TagType, Numeric
  <2>3. At(data, p, I32Bytes(c.v))
    BY <2>1, Zenon
  <2> QED
    BY <2>1, <2>2, <2>3, I32Decodes, Zenon
<1>2. CASE c.op = "array"
  <2>1. c.v \in Int32
    BY <1>2, CallValues, SMT
  <2>2. TagBytes(c) = ArrayBytes(c.v) /\ TagValue(c) = c.v /\ TagType(c) = "array"
    BY <1>2, SMT DEF TagBytes, TagValue, TagType, Bytes, Numeric
  <2>3. At(data, p, ArrayBytes(c.v))
    BY <2>2, Zenon
  <2> QED
    BY <2>1, <2>2, <2>3, ArrayDecodes, Zenon
<1>3. CASE c.op = "bin"
  <2>1. Len(c.v) \in Nat /\ UInt32(Len(c.v))
    BY <1>3, CallValues, SMT
  <2>2. TagBytes(c) = BinBytes(Len(c.v)) /\ TagValue(c) = AsInt32(Len(c.v)) /\ TagType(c) = "bin"
    BY <1>3, SMT DEF TagBytes, TagValue, TagType, Numeric
  <2>3. At(data, p, BinBytes(Len(c.v)))
    BY <2>2, Zenon
  <2> QED
    BY <2>1, <2>2, <2>3, BinDecodes, Zenon
<1> QED
  BY <1>1, <1>2, <1>3, CallValues, SMT DEF Numeric

LEMMA TagIsThere ==
  ASSUME NEW b
  PROVE  TagSize(b) \in Nat /\ TagSize(b) >= 1
BY SMT DEF TagSize

\* Where the head ends and, for a bin, the content begins.
LEMMA TagThenBody ==
  ASSUME NEW c, IsCall(c)
  PROVE  /\ TagBytes(c) \in Seq(Byte) /\ Len(TagBytes(c)) \in Nat /\ Len(TagBytes(c)) >= 1
         /\ Bytes(c) \in Seq(Byte) /\ Len(Bytes(c)) \in Nat
         /\ c.op # "bin" => Bytes(c) = TagBytes(c)
         /\ c.op = "bin" => Bytes(c) = TagBytes(c) \o c.v /\ c.v \in Seq(Byte)
<1>1. Bytes(c) \in Seq(Byte) /\ Len(Bytes(c)) \in Nat
  BY CallBytes, SMT
<1>2. c.op # "bin" => Bytes(c) = TagBytes(c)
  BY Zenon DEF TagBytes
<1>3. ASSUME c.op = "bin"
      PROVE  Bytes(c) = TagBytes(c) \o c.v /\ c.v \in Seq(Byte) /\ TagBytes(c) \in Seq(Byte)
  <2>1. c.v \in Seq(Byte) /\ Len(c.v) \in Nat
    BY <1>3, CallValues, SMT
  <2>2. TagBytes(c) = BinBytes(Len(c.v)) /\ Bytes(c) = BinBytes(Len(c.v)) \o c.v
    BY <1>3, BinCall, Zenon DEF TagBytes
  <2> QED
    BY <2>1, <2>2, BinBytesType, Zenon
<1>4. TagBytes(c) \in Seq(Byte)
  BY <1>1, <1>2, <1>3, Zenon
<1>5. Len(TagBytes(c)) \in Nat
  BY <1>4, SMT
<1>6. Len(TagBytes(c)) >= 1
  <2>1. At(TagBytes(c), 0, TagBytes(c))
    BY <1>4, SMT DEF At
  <2>2. TagSize(TagBytes(c)[0 + 1]) = Len(TagBytes(c))
    BY <2>1, TagDecodes, Zenon DEF Decoded
  <2> QED
    BY <2>2, TagIsThere, Zenon
<1> QED
  BY <1>1, <1>2, <1>3, <1>4, <1>5, <1>6, Zenon

(***************************************************************************)
(* A reader without an error, at the bytes of a call as far as the data    *)
(* reach.                                                                  *)
(***************************************************************************)
Open(r) == ReaderOK(r) /\ r.error = "ok" /\ r.end = Len(r.data)
There(r, s) == \A i \in 1..Len(s) : r.pos + i <= Len(r.data) => r.data[r.pos + i] = s[i]

LEMMA TagBegins ==
  ASSUME NEW c, IsCall(c)
  PROVE  /\ TagBytes(c)[1] = Bytes(c)[1] /\ Len(TagBytes(c)) <= Len(Bytes(c))
         /\ \A i \in 1..Len(TagBytes(c)) : i \in 1..Len(Bytes(c)) /\ TagBytes(c)[i] = Bytes(c)[i]
<1> DEFINE t == TagBytes(c)
           s == Bytes(c)
<1>1. t \in Seq(Byte) /\ Len(t) \in Nat /\ Len(t) >= 1 /\ s \in Seq(Byte)
  BY TagThenBody, Zenon
<1>2. s = t \/ (s = t \o c.v /\ c.v \in Seq(Byte))
  BY TagThenBody, Zenon
<1> HIDE DEF t, s
<1>3. CASE s = t
  <2>1. 1 \in 1..Len(t)
    BY <1>1, SMT
  <2> QED
    BY <1>1, <1>3, <2>1, SMT DEF t, s
<1>4. CASE s = t \o c.v /\ c.v \in Seq(Byte)
  <2>1. Len(s) = Len(t) + Len(c.v) /\ Len(c.v) \in Nat
    BY <1>1, <1>4, SMT
  <2>2. \A i \in 1..Len(t) : i \in 1..Len(s) /\ t[i] = s[i]
    BY <1>1, <1>4, <2>1, SMT
  <2>3. 1 \in 1..Len(t)
    BY <1>1, SMT
  <2> QED
    BY <1>1, <2>1, <2>2, <2>3, SMT DEF t, s
<1> QED
  BY <1>2, <1>3, <1>4, Zenon

\* The first byte tells how long the tag is, before the rest is looked at.
LEMMA FirstByte ==
  ASSUME NEW c, IsCall(c)
  PROVE  /\ TagSize(Bytes(c)[1]) = Len(TagBytes(c))
         /\ ~Reserved(Bytes(c)[1]) /\ ~Extension(Bytes(c)[1])
<1>1. At(TagBytes(c), 0, TagBytes(c))
  BY TagThenBody, SMT DEF At
<1>2. Decoded(TagBytes(c), 0, Len(TagBytes(c)), TagType(c), TagValue(c))
  BY <1>1, TagDecodes, Zenon
<1>3. 0 + 1 = 1
  BY SMT
<1> QED
  BY <1>2, <1>3, TagBegins, Zenon DEF Decoded

LEMMA ReadsTag ==
  ASSUME NEW r, Open(r), NEW c, IsCall(c), There(r, Bytes(c))
  PROVE  LET n == Len(TagBytes(c))
             t == mpack_read_tag(r)
         IN /\ ~Missing(r, n) =>
                 /\ t.reader = [r EXCEPT !.pos = @ + n]
                 /\ t.tag = [type |-> TagType(c), v |-> TagValue(c)]
            /\ Missing(r, n) => t.reader.error # "ok"
<1> DEFINE n == Len(TagBytes(c))
           b == r.data[r.pos + 1]
<1>1. /\ r.data \in Seq(Byte) /\ r.pos \in Nat /\ r.end \in Nat /\ r.pos <= r.end
      /\ r.end = Len(r.data) /\ r.error = "ok"
  BY ReaderFields, Zenon DEF Open
<1>2. n \in Nat /\ n >= 1 /\ Len(Bytes(c)) \in Nat /\ n <= Len(Bytes(c))
  BY TagThenBody, TagBegins, Zenon
<1>3. CASE Missing(r, 1)
  <2>1. TagError(r) = "invalid"
    BY <1>3, SMT DEF TagError
  <2>2. mpack_read_tag(r).reader = mpack_reader_flag_error(r, "invalid")
    BY <1>1, <2>1, SMT DEF mpack_read_tag
  <2>3. mpack_reader_flag_error(r, "invalid").error # "ok"
    BY <1>1, SMT DEF mpack_reader_flag_error, Open, ReaderOK
  <2>4. Missing(r, n)
    BY <1>1, <1>2, <1>3, SMT DEF Missing
  <2> QED
    BY <2>2, <2>3, <2>4, Zenon
<1>4. CASE ~Missing(r, 1)
  <2>1. r.pos + 1 <= Len(r.data) /\ 1 \in 1..Len(Bytes(c))
    BY <1>1, <1>2, <1>4, SMT DEF Missing
  <2>2. b = Bytes(c)[1]
    BY <2>1, Zenon DEF There
  <2>3. TagSize(b) = n /\ ~Reserved(b) /\ ~Extension(b)
    BY <2>2, FirstByte, Zenon
  <2> HIDE DEF n
  <2>4. CASE Missing(r, n)
    <3>1. TagError(r) = "invalid"
      BY <1>4, <2>3, <2>4, SMT DEF TagError
    <3>2. mpack_read_tag(r).reader = mpack_reader_flag_error(r, "invalid")
      BY <1>1, <3>1, SMT DEF mpack_read_tag
    <3>3. mpack_reader_flag_error(r, "invalid").error # "ok"
      BY <1>1, SMT DEF mpack_reader_flag_error, Open, ReaderOK
    <3> QED
      BY <2>4, <3>2, <3>3, Zenon DEF n
  <2>5. CASE ~Missing(r, n)
    <3>1. TagError(r) = "ok"
      BY <1>4, <2>3, <2>5, SMT DEF TagError
    <3>2. mpack_read_tag(r) = [reader |-> [r EXCEPT !.pos = @ + n], tag |-> Tag(r.data, r.pos)]
      BY <1>1, <2>3, <3>1, SMT DEF mpack_read_tag
    <3>3. \A i \in 1..n : r.pos + i <= Len(r.data)
      BY <1>1, <1>2, <2>5, SMT DEF Missing
    <3>4. At(r.data, r.pos, TagBytes(c))
      BY <3>3, TagBegins, Zenon DEF At, There, n
    <3>5. Tag(r.data, r.pos) = [type |-> TagType(c), v |-> TagValue(c)]
      BY <3>4, TagDecodes, Zenon DEF Decoded
    <3>6. /\ mpack_read_tag(r).reader = [r EXCEPT !.pos = @ + n]
          /\ mpack_read_tag(r).tag = Tag(r.data, r.pos)
      BY <3>2, SMT
    <3> QED
      BY <2>5, <3>5, <3>6, Zenon DEF n
  <2> QED
    BY <2>4, <2>5, Zenon
<1> QED
  BY <1>3, <1>4, Zenon

\* What Expect makes of the tag of a call.
LEMMA TagReads ==
  ASSUME NEW r, Open(r), NEW c, IsCall(c), There(r, Bytes(c)), NEW A \in BOOLEAN
  PROVE  LET n == Len(TagBytes(c))
             t == mpack_read_tag(r)
             e == Expect(t, A)
         IN /\ e.reader.error = "ok" =>
                 /\ A /\ ~Missing(r, n)
                 /\ e.reader.pos = r.pos + n /\ e.value = TagValue(c)
            /\ A /\ ~Missing(r, n) => e.reader.error = "ok"
            /\ ~Missing(r, n) => t.tag.type = TagType(c) /\ t.tag.v = TagValue(c)
<1> DEFINE n == Len(TagBytes(c))
           t == mpack_read_tag(r)
           e == Expect(t, A)
           tag == [type |-> TagType(c), v |-> TagValue(c)]
<1>0. ReaderOK(t.reader) /\ ReaderOK(r) /\ r.error = "ok"
  BY ReadTagGoes, Zenon DEF Goes, Open
<1>1. /\ ~Missing(r, n) => t.reader = [r EXCEPT !.pos = @ + n] /\ t.tag = tag
      /\ Missing(r, n) => t.reader.error # "ok"
  BY ReadsTag, Zenon
<1>2. tag.type = TagType(c) /\ tag.v = TagValue(c)
  BY Zenon
<1>3. ~Missing(r, n) => t.tag.type = TagType(c) /\ t.tag.v = TagValue(c)
  BY <1>1, <1>2, Zenon
<1>4. ~Missing(r, n) => t.reader.pos = r.pos + n /\ t.reader.error = "ok"
  <2>1. /\ [r EXCEPT !.pos = @ + n].pos = r.pos + n
        /\ [r EXCEPT !.pos = @ + n].error = "ok"
    BY <1>0, SMT DEF ReaderOK
  <2> QED
    BY <2>1, <1>1, Zenon
<1> HIDE DEF t, n
<1>5. A => e.reader = t.reader /\ e.value = t.tag.v
  BY Zenon DEF Expect
<1>6. ~A => e.reader.error # "ok"
  <2>1. ~A => e.reader = mpack_reader_flag_error(t.reader, "type")
    BY Zenon DEF Expect
  <2>2. mpack_reader_flag_error(t.reader, "type").error # "ok"
    BY <1>0, SMT DEF mpack_reader_flag_error, ReaderOK
  <2> QED
    BY <2>1, <2>2, Zenon
<1> HIDE DEF e
<1>7. /\ e.reader.error = "ok" =>
           /\ A /\ ~Missing(r, n)
           /\ e.reader.pos = r.pos + n /\ e.value = TagValue(c)
      /\ A /\ ~Missing(r, n) => e.reader.error = "ok"
  BY <1>1, <1>3, <1>4, <1>5, <1>6, Zenon
<1> QED
  BY <1>3, <1>7, Zenon DEF e, n, t

LEMMA Whole ==
  ASSUME NEW r, Open(r), NEW n \in Nat
  PROVE  Missing(r, n) <=> ~(r.pos + n <= Len(r.data))
<1>1. r.pos \in Nat /\ r.end \in Nat /\ r.end = Len(r.data)
  BY ReaderFields, Zenon DEF Open
<1> QED
  BY <1>1, SMT DEF Missing

\* Which kinds of tag the expect calls take, as far as the type goes.
LEMMA TypeOfCall ==
  ASSUME NEW c, IsCall(c)
  PROVE  /\ TagType(c) \in {"int", "uint"} => c.op \in Numeric
         /\ TagType(c) = "array" => c.op = "array"
         /\ TagType(c) = "bin" <=> c.op = "bin"
         /\ c.op = "array" => TagType(c) = "array"
<1>1. c.op \in Numeric \/ c.op = "array" \/ c.op = "bin"
  BY CallValues, Zenon DEF Numeric
<1>2. CASE c.op \in Numeric
  BY <1>2, SMT DEF TagType, Numeric
<1>3. CASE c.op = "array"
  BY <1>3, SMT DEF TagType, Numeric
<1>4. CASE c.op = "bin"
  BY <1>4, SMT DEF TagType, Numeric
<1> QED
  BY <1>1, <1>2, <1>3, <1>4, Zenon

LEMMA RangeTaken ==
  ASSUME NEW tag, NEW lo \in Int, NEW hi \in Int, tag.v \in Int, lo <= tag.v, tag.v <= hi,
         tag.type = "int" \/ (tag.type = "uint" /\ tag.v >= 0)
  PROVE  InRange(tag, lo, hi)
<1>1. tag.v \in lo..hi
  BY SMT
<1> QED
  BY <1>1, Zenon DEF InRange

\* The range an expect call accepts holds every value its write call takes.
LEMMA OwnRange ==
  ASSUME NEW c, IsCall(c), NEW tag, tag.type = TagType(c), tag.v = TagValue(c)
  PROVE  /\ c.op = "u8" => InRange(tag, 0, 255)
         /\ c.op = "u16" => InRange(tag, 0, 65535)
         /\ c.op = "i32" => InRange(tag, INT32_MIN, INT32_MAX)
<1>1. ASSUME c.op \in Numeric
      PROVE  /\ tag.v = c.v /\ tag.type = (IF c.v < 0 THEN "int" ELSE "uint")
             /\ c.v \in Int
  <2>1. TagValue(c) = c.v
    BY <1>1, Zenon DEF TagValue, Numeric
  <2>2. TagType(c) = IF c.v < 0 THEN "int" ELSE "uint"
    BY <1>1, SMT DEF TagType, Numeric
  <2>3. c.v \in Int
    BY <1>1, NumberBytes, Int32Bounds, Zenon
  <2> QED
    BY <2>1, <2>2, <2>3, Zenon
<1>2. ASSUME c.op \in Numeric
      PROVE  tag.type = "int" \/ (tag.type = "uint" /\ tag.v >= 0)
  BY <1>1, <1>2, SMT
<1>3. ASSUME c.op = "u8" PROVE InRange(tag, 0, 255)
  <2>1. c.v \in Byte
    BY <1>3, CallValues, SMT
  <2>2. \A v \in Byte : v \in Int /\ 0 <= v /\ v <= 255
    BY SMT DEF Byte
  <2>3. 0 <= tag.v /\ tag.v <= 255 /\ tag.v \in Int
    BY <2>1, <2>2, <1>1, <1>3, SMT DEF Numeric
  <2>4. tag.type = "int" \/ (tag.type = "uint" /\ tag.v >= 0)
    BY <1>2, <1>3, Zenon DEF Numeric
  <2> QED
    BY <2>3, <2>4, RangeTaken, SMT
<1>4. ASSUME c.op = "u16" PROVE InRange(tag, 0, 65535)
  <2>1. c.v \in UInt16
    BY <1>4, CallValues, SMT
  <2>2. \A v \in UInt16 : v \in Int /\ 0 <= v /\ v <= 65535
    BY UInt16Bounds, SMT
  <2>3. 0 <= tag.v /\ tag.v <= 65535 /\ tag.v \in Int
    BY <2>1, <2>2, <1>1, <1>4, SMT DEF Numeric
  <2>4. tag.type = "int" \/ (tag.type = "uint" /\ tag.v >= 0)
    BY <1>2, <1>4, SMT DEF Numeric
  <2> QED
    BY <2>3, <2>4, RangeTaken, SMT
<1>5. ASSUME c.op = "i32" PROVE InRange(tag, INT32_MIN, INT32_MAX)
  <2>1. c.v \in Int32
    BY <1>5, CallValues, SMT
  <2>2. c.v \in INT32_MIN..INT32_MAX
    BY <2>1, Zenon DEF Int32
  <2> QED
    BY <2>2, <1>1, <1>2, <1>5, Zenon DEF InRange, Numeric
<1> QED
  BY <1>3, <1>4, <1>5, SMT

LEMMA Slice ==
  ASSUME NEW s \in Seq(Byte), NEW p \in Nat, NEW m \in Nat, p + m <= Len(s)
  PROVE  /\ SubSeq(s, p + 1, p + m) \in Seq(Byte) /\ Len(SubSeq(s, p + 1, p + m)) = m
         /\ \A i \in 1..m : SubSeq(s, p + 1, p + m)[i] = s[p + i]
<1> DEFINE t == SubSeq(s, p + 1, p + m)
<1>1. t = [i \in 1..((p + m + 1) - (p + 1)) |-> s[i + (p + 1) - 1]]
  BY SMTT(30)
<1>2. (p + m + 1) - (p + 1) = m
  BY SMT
<1>3. t \in Seq(Byte)
  BY SMTT(30)
<1> HIDE DEF t
<1>4. DOMAIN t = 1..m
  BY <1>1, <1>2, SMT
<1>5. Len(t) = m
  BY <1>3, <1>4, SMT
<1>6. ASSUME NEW i \in 1..m PROVE t[i] = s[p + i]
  <2>1. i \in 1..((p + m + 1) - (p + 1))
    BY <1>2, SMT
  <2>2. t[i] = s[i + (p + 1) - 1]
    BY <1>1, <2>1, Zenon
  <2>3. i + (p + 1) - 1 = p + i
    BY SMT
  <2> QED
    BY <2>2, <2>3, Zenon
<1> QED
  BY <1>3, <1>5, <1>6, Zenon DEF t

\* mpack_expect_bin_buf: the head, the room for the content, and the content.
LEMMA BinReads ==
  ASSUME NEW r, Open(r), NEW c, IsCall(c), There(r, Bytes(c)),
         NEW size \in Nat, size <= INT32_MAX
  PROVE  LET e == mpack_expect_bin_buf(r, size)
         IN /\ e.reader.error = "ok" => e.value = c.v /\ e.reader.pos = r.pos + Len(Bytes(c))
            /\ c.op = "bin" /\ r.pos + Len(Bytes(c)) <= Len(r.data) /\ Len(c.v) <= size
                 => e.reader.error = "ok"
<1> DEFINE n == Len(TagBytes(c))
           h == mpack_expect_bin(r)
           q == h.reader
           e == mpack_expect_bin_buf(r, size)
<1>1. n \in Nat /\ Len(Bytes(c)) \in Nat /\ size \in Nat /\ size <= INT32_MAX
  BY TagThenBody, Zenon
<1>2. /\ q.error = "ok" =>
           /\ c.op = "bin" /\ ~Missing(r, n)
           /\ q.pos = r.pos + n /\ h.value = TagValue(c)
      /\ c.op = "bin" /\ ~Missing(r, n) => q.error = "ok"
  <2> DEFINE t == mpack_read_tag(r)
             A == t.tag.type = "bin"
             x == Expect(t, A)
  <2>1. A \in BOOLEAN /\ h = x
    BY Zenon DEF mpack_expect_bin
  <2>3. /\ x.reader.error = "ok" =>
             /\ A /\ ~Missing(r, n)
             /\ x.reader.pos = r.pos + n /\ x.value = TagValue(c)
        /\ A /\ ~Missing(r, n) => x.reader.error = "ok"
        /\ ~Missing(r, n) => t.tag.type = TagType(c)
    <3> HIDE DEF A
    <3> QED
      BY <2>1, TagReads, Zenon
  <2> HIDE DEF h, x
  <2>2. /\ q.error = "ok" =>
             /\ A /\ ~Missing(r, n)
             /\ q.pos = r.pos + n /\ h.value = TagValue(c)
        /\ A /\ ~Missing(r, n) => q.error = "ok"
        /\ ~Missing(r, n) => t.tag.type = TagType(c)
    BY <2>1, <2>3, Zenon
  <2> QED
    BY <2>2, TypeOfCall, Zenon
<1>3. ReaderOK(q) /\ Goes(r, q)
  <2>1. (mpack_read_tag(r).tag.type = "bin") \in BOOLEAN
    BY Zenon
  <2>2. Goes(r, q)
    BY <2>1, TagExpectGoes, Zenon DEF mpack_expect_bin, Open
  <2> QED
    BY <2>2, Zenon DEF Goes
<1> HIDE DEF h, n
<1>4. CASE q.error # "ok"
  <2>1. e.reader = q
    BY <1>4, SMT DEF mpack_expect_bin_buf, h
  <2>2. c.op = "bin" => ~(r.pos + Len(Bytes(c)) <= Len(r.data))
    <3>1. c.op = "bin" => Missing(r, n)
      BY <1>2, <1>4, Zenon
    <3>2. n <= Len(Bytes(c)) /\ Len(Bytes(c)) \in Nat
      BY TagBegins, <1>1, Zenon DEF n
    <3>3. r.pos \in Nat /\ Len(r.data) \in Nat
      BY ReaderFields, SMT DEF Open
    <3>4. Missing(r, n) <=> ~(r.pos + n <= Len(r.data))
      BY <1>1, Whole, Zenon
    <3> QED
      BY <1>1, <3>1, <3>2, <3>3, <3>4, SMT
  <2> QED
    BY <1>4, <2>1, <2>2, Zenon
<1>5. CASE q.error = "ok"
  <2> DEFINE m == Len(c.v)
  <2>1. /\ c.op = "bin" /\ ~Missing(r, n) /\ q.pos = r.pos + n /\ h.value = AsInt32(m)
    BY <1>2, <1>5, Zenon DEF TagValue
  <2>2. c.v \in Seq(Byte) /\ m \in Nat /\ UInt32(m)
    BY <2>1, CallValues, SMT
  <2>3. Bytes(c) = TagBytes(c) \o c.v /\ TagBytes(c) \in Seq(Byte)
    BY <2>1, TagThenBody, Zenon
  <2>4. Len(Bytes(c)) = n + m
    BY <2>2, <2>3, SMT DEF n
  <2>5. q.data = r.data /\ q.end = r.end /\ q.end = Len(r.data) /\ r.pos \in Nat /\ q.end \in Nat
    BY <1>3, <1>5, ReaderFields, Zenon DEF Goes, Open
  <2> HIDE DEF m
  <2>6. m <= size => AsInt32(m) = m
    BY <1>1, <2>2, SMT DEF AsInt32, INT32_MAX
  <2>7. AsInt32(m) \in 0..size => AsInt32(m) = m
    <3>1. m \div 65536 < 65536
      BY <2>2, UInt16Bounds, SMT DEF UInt32
    <3> QED
      BY <1>1, <2>2, <3>1, SMT DEF AsInt32, INT32_MAX
  <2>8. CASE h.value \notin 0..size
    <3>1. e.reader = mpack_reader_flag_error(q, "too_big")
      BY <1>5, <2>8, SMT DEF mpack_expect_bin_buf, h
    <3>2. e.reader.error # "ok"
      BY <1>3, <1>5, <3>1, SMT DEF mpack_reader_flag_error, ReaderOK
    <3>3. ~(m <= size)
      BY <1>1, <2>1, <2>2, <2>6, <2>8, SMT
    <3> QED
      BY <3>2, <3>3, Zenon DEF m
  <2>9. CASE h.value \in 0..size /\ Missing(q, h.value)
    <3>1. e.reader = mpack_reader_flag_error(q, "invalid")
      BY <1>5, <2>9, SMT DEF mpack_expect_bin_buf, h
    <3>2. e.reader.error # "ok"
      BY <1>3, <1>5, <3>1, SMT DEF mpack_reader_flag_error, ReaderOK
    <3>3. Missing(q, m)
      BY <2>1, <2>7, <2>9, Zenon
    <3>4. ~(r.pos + Len(Bytes(c)) <= Len(r.data))
      BY <1>1, <2>1, <2>2, <2>4, <2>5, <3>3, SMT DEF Missing
    <3> QED
      BY <3>2, <3>4, Zenon
  <2>10. CASE h.value \in 0..size /\ ~Missing(q, h.value)
    <3>1. e = [reader |-> [q EXCEPT !.pos = @ + h.value],
               value |-> SubSeq(q.data, q.pos + 1, q.pos + h.value)]
      BY <1>5, <2>10, SMT DEF mpack_expect_bin_buf, h
    <3>2. h.value = m
      BY <2>1, <2>7, <2>10, Zenon
    <3>3. /\ e.reader = [q EXCEPT !.pos = @ + m]
          /\ e.value = SubSeq(q.data, q.pos + 1, q.pos + m)
      <4>1. /\ e.reader = [q EXCEPT !.pos = @ + h.value]
            /\ e.value = SubSeq(q.data, q.pos + 1, q.pos + h.value)
        <5> DEFINE R == [q EXCEPT !.pos = @ + h.value]
                   V == SubSeq(q.data, q.pos + 1, q.pos + h.value)
        <5>1. e = [reader |-> R, value |-> V]
          BY <3>1, Zenon
        <5> HIDE DEF R, V, e
        <5>2. e.reader = R /\ e.value = V
          BY <5>1, SMT
        <5> QED
          BY <5>2, Zenon DEF R, V
      <4> HIDE DEF e
      <4> QED
        BY <3>2, <4>1, Zenon
    <3>4. e.reader.error = "ok" /\ e.reader.pos = r.pos + Len(Bytes(c))
      <4>1. [q EXCEPT !.pos = @ + m].error = "ok" /\ [q EXCEPT !.pos = @ + m].pos = q.pos + m
        BY <1>3, <1>5, SMT DEF ReaderOK
      <4>2. q.pos + m = r.pos + Len(Bytes(c))
        BY <1>1, <2>1, <2>2, <2>4, <2>5, SMT
      <4> QED
        BY <3>3, <4>1, <4>2, Zenon
    <3>5. e.value = c.v
      <4>1. q.pos \in Nat /\ q.pos + m <= Len(r.data) /\ r.data \in Seq(Byte)
        BY <1>1, <2>1, <2>2, <2>5, <2>10, <3>2, ReaderFields, SMT DEF Missing, Open
      <4>2. \A i \in 1..m : r.data[q.pos + i] = c.v[i]
        <5> TAKE i \in 1..m
        <5>1. i \in Nat /\ n + i \in 1..Len(Bytes(c)) /\ q.pos + i = r.pos + (n + i)
          BY <1>1, <2>1, <2>2, <2>4, <2>5, SMT
        <5>2. r.pos + (n + i) <= Len(r.data)
          BY <1>1, <2>1, <2>2, <2>5, <4>1, SMT
        <5>3. r.data[r.pos + (n + i)] = Bytes(c)[n + i]
          BY <5>1, <5>2, Zenon DEF There
        <5>4. Bytes(c)[n + i] = c.v[i]
          <6> DEFINE u == TagBytes(c)
                     w == c.v
                     s == Bytes(c)
          <6>1. u \in Seq(Byte) /\ w \in Seq(Byte) /\ s = u \o w /\ n = Len(u) /\ m = Len(w)
            BY <2>2, <2>3, Zenon DEF n, m
          <6> HIDE DEF u, w, s
          <6>2. i \in 1..Len(w)
            BY <6>1, Zenon
          <6>3. s[Len(u) + i] = w[i]
            BY <6>1, <6>2, SMT
          <6> QED
            BY <6>1, <6>3, Zenon DEF u, w, s
        <5> QED
          BY <5>1, <5>3, <5>4, Zenon
      <4>3. e.value = SubSeq(r.data, q.pos + 1, q.pos + m)
        BY <3>3, <2>5, Zenon
      <4> DEFINE x == SubSeq(r.data, q.pos + 1, q.pos + m)
      <4>4. /\ x \in Seq(Byte) /\ Len(x) = m
            /\ \A i \in 1..m : x[i] = r.data[q.pos + i]
        BY <4>1, <2>2, Slice, Zenon
      <4>6. x = c.v
        <5> HIDE DEF x
        <5>1. \A i \in 1..m : x[i] = c.v[i]
          BY <4>2, <4>4, Zenon
        <5> QED
          BY <5>1, <4>4, <2>2, SMT DEF m
      <4> QED
        BY <4>3, <4>6, Zenon
    <3> QED
      BY <3>4, <3>5, Zenon
  <2> QED
    BY <2>8, <2>9, <2>10, Zenon
<1> QED
  BY <1>4, <1>5, Zenon DEF e

\* An expect call that succeeds returns what was written, whichever kind it asks for;
\* the call of the written kind succeeds when all the bytes are there.
LEMMA CallReads ==
  ASSUME NEW r, Open(r), NEW c, IsCall(c), There(r, Bytes(c)), NEW op \in Ops,
         NEW size \in Nat, size <= INT32_MAX
  PROVE  LET e == ExpectCall(r, op, size)
         IN /\ e.reader.error = "ok" => e.value = c.v /\ e.reader.pos = r.pos + Len(Bytes(c))
            /\ /\ op = c.op /\ r.pos + Len(Bytes(c)) <= Len(r.data)
               /\ c.op = "bin" => Len(c.v) <= size
               => e.reader.error = "ok"
<1> DEFINE n == Len(TagBytes(c))
           t == mpack_read_tag(r)
           e == ExpectCall(r, op, size)
           Fine == r.pos + Len(Bytes(c)) <= Len(r.data)
<1>1. ASSUME NEW A \in BOOLEAN, A /\ ~Missing(r, n) => c.op # "bin", e = Expect(t, A),
             op = c.op /\ ~Missing(r, n) => A
      PROVE  /\ e.reader.error = "ok" => e.value = c.v /\ e.reader.pos = r.pos + Len(Bytes(c))
             /\ op = c.op /\ Fine => e.reader.error = "ok"
  <2>1. /\ e.reader.error = "ok" =>
             /\ A /\ ~Missing(r, n)
             /\ e.reader.pos = r.pos + n /\ e.value = TagValue(c)
        /\ A /\ ~Missing(r, n) => e.reader.error = "ok"
    BY <1>1, TagReads, Zenon
  <2>2. c.op # "bin" => TagValue(c) = c.v /\ Bytes(c) = TagBytes(c)
    BY TagThenBody, Zenon DEF TagValue
  <2>3. Fine => ~Missing(r, n)
    <3>1. n <= Len(Bytes(c)) /\ Len(Bytes(c)) \in Nat /\ n \in Nat
      BY TagBegins, TagThenBody, Zenon
    <3>2. r.pos \in Nat /\ Len(r.data) \in Nat
      BY ReaderFields, SMT DEF Open
    <3>3. Missing(r, n) <=> ~(r.pos + n <= Len(r.data))
      BY <3>1, Whole, Zenon
    <3> QED
      BY <3>1, <3>2, <3>3, SMT
  <2> HIDE DEF n, t, e, Fine
  <2> QED
    BY <1>1, <2>1, <2>2, <2>3, Zenon DEF n
<1>2. ~Missing(r, n) => t.tag.type = TagType(c) /\ t.tag.v = TagValue(c)
  BY TagReads, Zenon
<1>3. \A lo, hi : /\ InRange(t.tag, lo, hi) \in BOOLEAN
                  /\ InRange(t.tag, lo, hi) /\ ~Missing(r, n) => c.op # "bin"
  <2>1. \A lo, hi : InRange(t.tag, lo, hi) \in BOOLEAN
    BY Zenon DEF InRange
  <2>2. ASSUME NEW lo, NEW hi, InRange(t.tag, lo, hi), ~Missing(r, n)
        PROVE  c.op # "bin"
    <3>1. t.tag.type = "int" \/ t.tag.type = "uint"
      BY <2>2, Zenon DEF InRange
    <3>2. t.tag.type = TagType(c)
      BY <1>2, <2>2, Zenon
    <3> HIDE DEF t
    <3>3. TagType(c) # "bin"
      BY <3>1, <3>2, SMT
    <3> QED
      BY <3>3, TypeOfCall, Zenon
  <2> QED
    BY <2>1, <2>2, Zenon
<1>4. ~Missing(r, n) => /\ c.op = "u8" => InRange(t.tag, 0, 255)
                        /\ c.op = "u16" => InRange(t.tag, 0, 65535)
                        /\ c.op = "i32" => InRange(t.tag, INT32_MIN, INT32_MAX)
  <2> HIDE DEF t
  <2> QED
    BY <1>2, OwnRange, SMT
<1> DEFINE Goal ==
      /\ e.reader.error = "ok" => e.value = c.v /\ e.reader.pos = r.pos + Len(Bytes(c))
      /\ /\ op = c.op /\ Fine
         /\ c.op = "bin" => Len(c.v) <= size
         => e.reader.error = "ok"
<1> HIDE DEF n, Fine
<1>5. ASSUME op = "u8" PROVE Goal
  <2> DEFINE A == InRange(t.tag, 0, 255)
  <2>1. e = Expect(t, A)
    BY <1>5, SMT DEF ExpectCall, mpack_expect_u8
  <2> HIDE DEF e, t
  <2>2. A \in BOOLEAN /\ (A /\ ~Missing(r, n) => c.op # "bin") /\ (op = c.op /\ ~Missing(r, n) => A)
    BY <1>3, <1>4, <1>5, SMT
  <2> HIDE DEF A
  <2> QED
    BY <1>1, <2>1, <2>2, Zenon
<1>6. ASSUME op = "u16" PROVE Goal
  <2> DEFINE A == InRange(t.tag, 0, 65535)
  <2>1. e = Expect(t, A)
    BY <1>6, SMT DEF ExpectCall, mpack_expect_u16
  <2> HIDE DEF e, t
  <2>2. A \in BOOLEAN /\ (A /\ ~Missing(r, n) => c.op # "bin") /\ (op = c.op /\ ~Missing(r, n) => A)
    BY <1>3, <1>4, <1>6, SMT
  <2> HIDE DEF A
  <2> QED
    BY <1>1, <2>1, <2>2, Zenon
<1>7. ASSUME op = "i32" PROVE Goal
  <2> DEFINE A == InRange(t.tag, INT32_MIN, INT32_MAX)
  <2>1. e = Expect(t, A)
    BY <1>7, SMT DEF ExpectCall, mpack_expect_i32
  <2> HIDE DEF e, t
  <2>2. A \in BOOLEAN /\ (A /\ ~Missing(r, n) => c.op # "bin") /\ (op = c.op /\ ~Missing(r, n) => A)
    BY <1>3, <1>4, <1>7, SMT
  <2> HIDE DEF A
  <2> QED
    BY <1>1, <2>1, <2>2, Zenon
<1>8. ASSUME op = "array" PROVE Goal
  <2> DEFINE A == t.tag.type = "array"
  <2>1. e = Expect(t, A)
    BY <1>8, SMT DEF ExpectCall, mpack_expect_array
  <2> HIDE DEF e, t
  <2>2. A \in BOOLEAN /\ (A /\ ~Missing(r, n) => c.op # "bin") /\ (op = c.op /\ ~Missing(r, n) => A)
    BY <1>2, <1>8, TypeOfCall, SMT
  <2> HIDE DEF A
  <2> QED
    BY <1>1, <2>1, <2>2, Zenon
<1>9. ASSUME op = "bin" PROVE Goal
  <2>1. e = mpack_expect_bin_buf(r, size)
    BY <1>9, SMT DEF ExpectCall
  <2> HIDE DEF e
  <2> QED
    BY <1>9, <2>1, BinReads, Zenon DEF Fine
<1> HIDE DEF e, Goal
<1>10. Goal
  BY <1>5, <1>6, <1>7, <1>8, <1>9, Zenon DEF Ops
<1> QED
  BY <1>10, Zenon DEF Goal, e, Fine

(***************************************************************************)
(* Where the calls lie in the stream: call i ends off[i] bytes behind its  *)
(* start.                                                                  *)
(***************************************************************************)
Lies(off, calls, s, i) ==
  /\ off[i] = off[i - 1] + Len(Bytes(calls[i]))
  /\ off[i] <= Len(s)
  /\ At(s, off[i - 1], Bytes(calls[i]))

LaidOut(off, calls, s) ==
  /\ off \in [0..Len(calls) -> Nat]
  /\ off[0] = 0 /\ off[Len(calls)] = Len(s)
  /\ \A i \in 1..Len(calls) : Lies(off, calls, s, i)

LEMMA Nothing ==
  \E off : LaidOut(off, <<>>, <<>>)
<1> DEFINE off == [i \in 0..0 |-> 0]
<1>1. Len(<<>>) = 0
  BY SMT
<1>2. off \in [0..0 -> Nat] /\ off[0] = 0
  BY SMT
<1>3. \A i \in 1..0 : FALSE
  BY SMT
<1> HIDE DEF off
<1> QED
  BY <1>1, <1>2, <1>3, Zenon DEF LaidOut

\* An index of a longer sequence.
LEMMA Longer ==
  ASSUME NEW s \in Seq(Byte), NEW t \in Seq(Byte)
  PROVE  /\ s \o t \in Seq(Byte) /\ Len(s \o t) = Len(s) + Len(t)
         /\ \A i \in 1..Len(s) : (s \o t)[i] = s[i]
         /\ \A i \in 1..Len(t) : (s \o t)[Len(s) + i] = t[i]
<1>1. s \o t \in Seq(Byte) /\ Len(s \o t) = Len(s) + Len(t)
  BY SMT
<1>2. \A i \in 1..Len(s) : (s \o t)[i] = s[i]
  BY SMT
<1>3. \A i \in 1..Len(t) : (s \o t)[Len(s) + i] = t[i]
  BY SMT
<1> QED
  BY <1>1, <1>2, <1>3, Zenon

LEMMA OneMore ==
  ASSUME NEW C, \A c \in C : IsCall(c), NEW calls \in Seq(C), NEW s \in Seq(Byte),
         NEW off, LaidOut(off, calls, s), NEW c \in C
  PROVE  \E o : LaidOut(o, Append(calls, c), s \o Bytes(c)) /\ o[0] = 0
<1> DEFINE k == Len(calls)
           b == Bytes(c)
           x == Append(calls, c)
           u == s \o b
           o == [i \in 0..(k + 1) |-> IF i <= k THEN off[i] ELSE off[k] + Len(b)]
<1>1. k \in Nat /\ x \in Seq(C) /\ Len(x) = k + 1 /\ x[k + 1] = c
  BY SMT
<1>2. \A i \in 1..k : x[i] = calls[i] /\ IsCall(calls[i])
  BY SMT
<1>3. b \in Seq(Byte) /\ Len(b) \in Nat
  BY CallBytes, SMT
<1>4. u \in Seq(Byte) /\ Len(u) = Len(s) + Len(b) /\ Len(s) \in Nat
  BY <1>3, Longer, SMT
<1>5. off \in [0..k -> Nat] /\ off[0] = 0 /\ off[k] = Len(s)
  BY Zenon DEF LaidOut
<1>6. \A i \in 1..k : Lies(off, calls, s, i)
  BY Zenon DEF LaidOut
<1> HIDE DEF b, x, u
<1>7. \A i \in 0..k : o[i] = off[i] /\ off[i] \in Nat
  <2>1. \A i \in 0..k : i \in 0..(k + 1) /\ i <= k
    <3> HIDE DEF k, o
    <3> QED
      BY <1>1, SMT
  <2> QED
    BY <1>5, <2>1, Zenon
<1>8. o[k + 1] = off[k] + Len(b)
  BY <1>1, SMT
<1>9. o \in [0..(k + 1) -> Nat]
  BY <1>1, <1>3, <1>4, <1>5, SMT
<1> HIDE DEF k, o
<1>10. o[0] = 0 /\ o[k] = Len(s) /\ o[k + 1] = Len(u)
  <2>1. 0 \in 0..k /\ k \in 0..k
    BY <1>1, SMT
  <2> QED
    BY <2>1, <1>4, <1>5, <1>7, <1>8, SMT
<1>11. ASSUME NEW i \in 1..k PROVE Lies(o, x, u, i)
  <2>1. i \in 0..k /\ i - 1 \in 0..k
    BY <1>1, SMT
  <2>2. o[i] = off[i] /\ o[i - 1] = off[i - 1] /\ off[i - 1] \in Nat /\ x[i] = calls[i]
    BY <2>1, <1>2, <1>7, Zenon
  <2>3. off[i] = off[i - 1] + Len(Bytes(calls[i])) /\ off[i] <= Len(s)
        /\ At(s, off[i - 1], Bytes(calls[i]))
    BY <1>6, Zenon DEF Lies
  <2>4. Bytes(calls[i]) \in Seq(Byte)
    BY <1>2, CallBytes, Zenon
  <2> DEFINE p == off[i - 1]
             w == Bytes(calls[i])
  <2>5. p \in Nat /\ p + Len(w) <= Len(s) /\ w \in Seq(Byte) /\ Len(w) \in Nat /\ At(s, p, w)
    BY <2>2, <2>3, <2>4, SMT
  <2> HIDE DEF p, w
  <2>6. At(u, p, w)
    <3>1. ASSUME NEW j \in 1..Len(w) PROVE u[p + j] = w[j]
      <4>1. p + j \in 1..Len(s)
        BY <1>4, <2>5, SMT
      <4>2. u[p + j] = s[p + j]
        BY <4>1, <1>3, Longer, Zenon DEF u
      <4> QED
        BY <4>2, <2>5, Zenon DEF At
    <3> QED
      BY <3>1, Zenon DEF At
  <2>7. off[i] <= Len(u)
    BY <1>3, <1>4, <2>1, <1>7, <2>3, SMT
  <2> QED
    BY <2>2, <2>3, <2>6, <2>7, Zenon DEF Lies, p, w
<1>12. Lies(o, x, u, k + 1)
  <2>1. (k + 1) - 1 = k
    BY <1>1, SMT
  <2>2. o[k + 1] = o[k] + Len(b)
    BY <1>10, <1>4, SMT
  <2>3. o[k + 1] <= Len(u)
    BY <1>10, <1>3, <1>4, SMT
  <2>4. At(u, o[k], b)
    <3>1. \A j \in 1..Len(b) : u[Len(s) + j] = b[j]
      BY <1>3, Longer, Zenon DEF u
    <3>2. o[k] = Len(s)
      BY <1>10, Zenon
    <3> QED
      BY <3>1, <3>2, Zenon DEF At
  <2> QED
    BY <1>1, <2>1, <2>2, <2>3, <2>4, Zenon DEF Lies, b
<1>13. ASSUME NEW i \in 1..(k + 1) PROVE Lies(o, x, u, i)
  <2>1. i \in 1..k \/ i = k + 1
    BY <1>1, SMT
  <2> QED
    BY <2>1, <1>11, <1>12, Zenon
<1>14. LaidOut(o, x, u)
  BY <1>1, <1>9, <1>10, <1>13, Zenon DEF LaidOut
<1> QED
  BY <1>10, <1>14, Zenon DEF x, u, b
=============================================================================
