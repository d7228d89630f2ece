---------------------------- MODULE MpackUsageProofs ----------------------------
(***************************************************************************)
(* mpack_usage.h decodes what it encoded, for every sequence of structs of *)
(* every value, every size of the caller's buffer and whatever the         *)
(* caller's structs held before.                                           *)
(***************************************************************************)
EXTENDS MpackUsage, MpackCallProofs, WellFoundedInduction

(***************************************************************************)
(* strnlen, and an ssid as it is written and stored.                       *)
(***************************************************************************)
\* Every nonempty set of naturals has a least element.
LEMMA Least ==
  ASSUME NEW T \in SUBSET Nat, T # {}
  PROVE  \E m \in T : \A k \in T : m <= k
<1> DEFINE R == {ss \in Nat \X Nat : ss[1] < ss[2]}
<1>1. R = OpToRel(<, Nat)
  BY DEF OpToRel
<1>2. IsWellFoundedOn(R, Nat)
  BY <1>1, NatLessThanWellFounded, Zenon
<1>3. PICK x \in T : \A y \in T : ~ (<<y, x>> \in R)
  BY <1>2, WFMin, Zenon
<1>4. ASSUME NEW y \in T PROVE x <= y
  <2>1. x \in Nat /\ y \in Nat
    OBVIOUS
  <2>2. ~(y < x)
    BY <1>3, <2>1
  <2> QED
    BY <2>1, <2>2, SMT
<1> QED
  BY <1>3, <1>4, Zenon

\* n is where the string in s ends, or max if it does not end before.
Ends(s, max, n) ==
  /\ n \in 0..max
  /\ \A i \in 1..n : s[i] # 0
  /\ n = max \/ s[n + 1] = 0

LEMMA EndsOnce ==
  ASSUME NEW s, NEW max \in Nat, NEW n, NEW m, Ends(s, max, n), Ends(s, max, m)
  PROVE  n = m
<1>1. n \in Int /\ m \in Int /\ 0 <= n /\ n <= max /\ 0 <= m /\ m <= max
  BY SMT DEF Ends
<1>2. ASSUME NEW a \in Int, NEW b \in Int, 0 <= a, a < b, b <= max, Ends(s, max, a), Ends(s, max, b)
      PROVE  FALSE
  <2>1. a + 1 \in 1..b /\ a # max
    BY <1>2, SMT
  <2> QED
    BY <1>2, <2>1, Zenon DEF Ends
<1>3. ~(n < m) /\ ~(m < n)
  BY <1>1, <1>2, Zenon
<1> QED
  BY <1>1, <1>3, SMT

LEMMA strnlenIs ==
  ASSUME NEW s, NEW max \in Nat, NEW n, Ends(s, max, n)
  PROVE  strnlen(s, max) = n
<1> DEFINE P(k) == (\A i \in 1..k : s[i] # 0) /\ (k = max \/ s[k + 1] = 0)
<1>1. n \in 0..max /\ P(n)
  BY Zenon DEF Ends
<1>2. \A k \in 0..max : P(k) => Ends(s, max, k)
  BY Zenon DEF Ends
<1> HIDE DEF P
<1>3. \A k \in 0..max : P(k) => k = n
  BY <1>2, EndsOnce, Zenon
<1>4. (CHOOSE k \in 0..max : P(k)) = n
  BY <1>1, <1>3, Zenon
<1>5. strnlen(s, max) = CHOOSE k \in 0..max : P(k)
  BY Zenon DEF strnlen, P
<1> QED
  BY <1>4, <1>5, Zenon

LEMMA strnlenEnds ==
  ASSUME NEW s, NEW max \in Nat
  PROVE  Ends(s, max, strnlen(s, max))
<1> DEFINE T == {k \in Nat : k = max \/ s[k + 1] = 0}
<1>1. PICK n \in T : \A k \in T : n <= k
  <2>1. max \in T /\ T \in SUBSET Nat
    OBVIOUS
  <2> HIDE DEF T
  <2> QED
    BY <2>1, Least, Zenon
<1>2. n \in Nat /\ n <= max /\ (n = max \/ s[n + 1] = 0)
  <2>1. max \in T
    OBVIOUS
  <2> QED
    BY <1>1, <2>1, Zenon
<1>3. ASSUME NEW i \in 1..n PROVE s[i] # 0
  <2>1. i - 1 \in Nat /\ (i - 1) + 1 = i /\ ~(n <= i - 1)
    BY <1>2, SMT
  <2>2. i - 1 \notin T
    BY <1>1, <2>1, Zenon
  <2> QED
    BY <2>1, <2>2, Zenon
<1>4. Ends(s, max, n)
  <2>1. n \in 0..max
    BY <1>2, SMT
  <2> QED
    BY <1>2, <1>3, <2>1, Zenon DEF Ends
<1> QED
  BY <1>4, strnlenIs, Zenon

SsidArray == Array(WIFI_SSID_MAX_LEN + 1)

LEMMA SsidConstants ==
  /\ WIFI_SSID_MAX_LEN \in Nat /\ WIFI_SSID_MAX_LEN <= INT32_MAX
  /\ SsidArray \subseteq Seq(Byte)
  /\ \A s \in SsidArray : Len(s) = WIFI_SSID_MAX_LEN + 1 /\ s \in [1..WIFI_SSID_MAX_LEN + 1 -> Byte]
  /\ UInt32(WIFI_SSID_MAX_LEN)
<1>1. WIFI_SSID_MAX_LEN \in Nat /\ WIFI_SSID_MAX_LEN <= INT32_MAX
  BY SMT DEF WIFI_SSID_MAX_LEN, INT32_MAX
<1>2. ASSUME NEW n \in Nat, NEW s \in [1..n -> Byte] PROVE s \in Seq(Byte) /\ Len(s) = n
  BY <1>2, SMT
<1>3. WIFI_SSID_MAX_LEN + 1 \in Nat
  BY <1>1, SMT
<1>4. UInt32(WIFI_SSID_MAX_LEN)
  BY ZeroIsUInt16, SMT DEF WIFI_SSID_MAX_LEN, UInt32
<1> QED
  BY <1>1, <1>2, <1>3, <1>4, Zenon DEF SsidArray, Array

\* The bytes that are written: no more than 32 and none of them zero.
LEMMA SsidWritten ==
  ASSUME NEW s \in SsidArray
  PROVE  LET n == strnlen(s, WIFI_SSID_MAX_LEN)
             b == SsidBytes(s)
         IN /\ n \in Nat /\ n <= WIFI_SSID_MAX_LEN
            /\ b \in Seq(Byte) /\ Len(b) = n
            /\ \A i \in 1..n : b[i] = s[i] /\ b[i] # 0
<1> DEFINE n == strnlen(s, WIFI_SSID_MAX_LEN)
           b == SsidBytes(s)
<1>1. Ends(s, WIFI_SSID_MAX_LEN, n)
  BY SsidConstants, strnlenEnds, Zenon
<1>2. s \in Seq(Byte) /\ Len(s) = WIFI_SSID_MAX_LEN + 1 /\ WIFI_SSID_MAX_LEN \in Nat
  BY SsidConstants, Zenon
<1>3. b = SubSeq(s, 1, n)
  BY Zenon DEF SsidBytes
<1> HIDE DEF n, b
<1>4. n \in Nat /\ n <= WIFI_SSID_MAX_LEN
  BY <1>1, <1>2, SMT DEF Ends
<1>5. 0 + 1 = 1 /\ 0 + n = n /\ 0 + n <= Len(s) /\ 0 \in Nat
  BY <1>2, <1>4, SMT
<1>6. /\ SubSeq(s, 0 + 1, 0 + n) \in Seq(Byte) /\ Len(SubSeq(s, 0 + 1, 0 + n)) = n
      /\ \A i \in 1..n : SubSeq(s, 0 + 1, 0 + n)[i] = s[0 + i]
  BY <1>2, <1>4, <1>5, Slice, Zenon
<1>7. \A i \in 1..n : 0 + i = i
  BY SMT
<1>8. b \in Seq(Byte) /\ Len(b) = n /\ \A i \in 1..n : b[i] = s[i]
  BY <1>3, <1>5, <1>6, <1>7, Zenon
<1> QED
  BY <1>1, <1>4, <1>8, Zenon DEF Ends, n, b

SameString(x, y) ==
  LET n == strnlen(x, WIFI_SSID_MAX_LEN)
  IN n = strnlen(y, WIFI_SSID_MAX_LEN) /\ SubSeq(x, 1, n) = SubSeq(y, 1, n)

\* What is stored is the same string, whatever is behind it.
LEMMA SsidStored ==
  ASSUME NEW s \in SsidArray, NEW old \in SsidArray
  PROVE  /\ Terminated(old, SsidBytes(s)) \in SsidArray
         /\ SameString(Terminated(old, SsidBytes(s)), s)
<1> DEFINE n == strnlen(s, WIFI_SSID_MAX_LEN)
           b == SsidBytes(s)
           a == Append(b, 0)
           x == Terminated(old, b)
           M == WIFI_SSID_MAX_LEN
<1>1. n \in Nat /\ n <= M /\ b \in Seq(Byte) /\ Len(b) = n /\ \A i \in 1..n : b[i] = s[i] /\ b[i] # 0
  BY SsidWritten, Zenon
<1>2. M \in Nat /\ old \in [1..M + 1 -> Byte]
  BY SsidConstants, Zenon
<1>3. x = [i \in DOMAIN old |-> IF i <= Len(a) THEN a[i] ELSE old[i]]
  BY Zenon DEF Terminated, Over
<1> HIDE DEF n, b, x, M
<1>4. 0 \in Byte
  BY SMT DEF Byte
<1>5. a \in Seq(Byte) /\ Len(a) = n + 1 /\ a[n + 1] = 0 /\ \A i \in 1..n : a[i] = b[i]
  BY <1>1, <1>4, SMT
<1> HIDE DEF a
<1>6. \A i \in 1..n + 1 : a[i] \in Byte
  BY <1>5, SMT
<1>7. x = [i \in 1..M + 1 |-> IF i <= n + 1 THEN a[i] ELSE old[i]]
  BY <1>2, <1>3, <1>5, Zenon
<1>8. ASSUME NEW i \in 1..M + 1 PROVE x[i] \in Byte /\ (i <= n + 1 => x[i] = a[i])
  <2>1. x[i] = IF i <= n + 1 THEN a[i] ELSE old[i]
    BY <1>7, Zenon
  <2>2. i <= n + 1 => i \in 1..n + 1
    BY <1>1, <1>2, SMT
  <2> QED
    BY <1>2, <1>6, <2>1, <2>2, Zenon
<1>9. x \in [1..M + 1 -> Byte]
  BY <1>7, <1>8, Zenon
<1>10. x \in SsidArray
  BY <1>9, Zenon DEF SsidArray, Array, M
<1>11. /\ \A i \in 1..n : i \in 1..M + 1 /\ i <= n + 1
       /\ n + 1 \in 1..M + 1 /\ n + 1 <= n + 1 /\ n \in 0..M
  BY <1>1, <1>2, SMT
<1>12. /\ \A i \in 1..n : x[i] = s[i] /\ x[i] # 0
       /\ x[n + 1] = 0
  BY <1>1, <1>5, <1>8, <1>11, Zenon
<1>13. strnlen(x, M) = n
  <2>1. Ends(x, M, n)
    BY <1>11, <1>12, Zenon DEF Ends
  <2> QED
    BY <1>2, <2>1, strnlenIs, Zenon
<1>14. SubSeq(x, 1, n) = SubSeq(s, 1, n)
  <2> DEFINE u == SsidBytes(x)
  <2>1. u \in Seq(Byte) /\ Len(u) = n /\ \A i \in 1..n : u[i] = x[i]
    BY <1>10, <1>13, SsidWritten, Zenon DEF M
  <2>2. u = SubSeq(x, 1, n) /\ b = SubSeq(s, 1, n)
    BY <1>13, Zenon DEF SsidBytes, M, n, b
  <2> HIDE DEF u
  <2>3. \A i \in 1..n : u[i] = b[i]
    BY <1>1, <1>12, <2>1, Zenon
  <2>4. u = b
    BY <1>1, <2>1, <2>3, SMT
  <2> QED
    BY <2>2, <2>4, Zenon
<1> QED
  BY <1>10, <1>13, <1>14, Zenon DEF SameString, x, b, n, M

(***************************************************************************)
(* The fields and the calls that move them.                                *)
(***************************************************************************)
Info == wifi_softap_info_t
Fields == 1..9

LEMMA SchemaIs ==
  /\ Len(Schema) = 9
  /\ Schema[1] = [name |-> "device_count", kind |-> "i32"]
  /\ Schema[2] = [name |-> "state", kind |-> "i32"]
  /\ Schema[3] = [name |-> "ipv4", kind |-> "bin"]
  /\ Schema[4] = [name |-> "ipv6", kind |-> "bin"]
  /\ Schema[5] = [name |-> "ssid", kind |-> "str"]
  /\ Schema[6] = [name |-> "bssid", kind |-> "bin"]
  /\ Schema[7] = [name |-> "security", kind |-> "i32"]
  /\ Schema[8] = [name |-> "channel", kind |-> "u8"]
  /\ Schema[9] = [name |-> "frequency", kind |-> "u16"]
BY SMT DEF Schema

LEMMA NineFields ==
  ASSUME NEW j \in Fields
  PROVE  j = 1 \/ j = 2 \/ j = 3 \/ j = 4 \/ j = 5 \/ j = 6 \/ j = 7 \/ j = 8 \/ j = 9
BY SMT DEF Fields

\* The kinds of the fields and what is behind their names.
LEMMA SchemaKinds ==
  ASSUME NEW j \in Fields
  PROVE  LET f == Schema[j]
         IN \/ f.kind = "i32" /\ f.name \in {"device_count", "state", "security"}
            \/ f.kind = "u8" /\ f.name = "channel"
            \/ f.kind = "u16" /\ f.name = "frequency"
            \/ f.kind = "bin" /\ f.name \in {"ipv4", "ipv6", "bssid"}
            \/ f.kind = "str" /\ f.name = "ssid"
BY SchemaIs, NineFields, SMT

LEMMA SchemaOnce ==
  ASSUME NEW i \in Fields, NEW j \in Fields, Schema[i].name = Schema[j].name
  PROVE  i = j
<1> DEFINE S(k) == Schema[k].name
<1>1. /\ S(1) = "device_count" /\ S(2) = "state" /\ S(3) = "ipv4" /\ S(4) = "ipv6"
      /\ S(5) = "ssid" /\ S(6) = "bssid" /\ S(7) = "security" /\ S(8) = "channel"
      /\ S(9) = "frequency"
  BY SchemaIs, SMT
<1>2. S(i) = S(j)
  OBVIOUS
<1> HIDE DEF S
<1> QED
  BY <1>1, <1>2, NineFields, SMT

Names == {"device_count", "state", "ipv4", "ipv6", "ssid", "bssid", "security", "channel",
          "frequency"}

LEMMA EveryName ==
  ASSUME NEW n \in Names
  PROVE  \E j \in Fields : Schema[j].name = n
<1>1. /\ 1 \in Fields /\ 2 \in Fields /\ 3 \in Fields /\ 4 \in Fields /\ 5 \in Fields
      /\ 6 \in Fields /\ 7 \in Fields /\ 8 \in Fields /\ 9 \in Fields
  BY SMT DEF Fields
<1>2. /\ Schema[1].name = "device_count" /\ Schema[2].name = "state" /\ Schema[3].name = "ipv4"
      /\ Schema[4].name = "ipv6" /\ Schema[5].name = "ssid" /\ Schema[6].name = "bssid"
      /\ Schema[7].name = "security" /\ Schema[8].name = "channel"
      /\ Schema[9].name = "frequency"
  BY SchemaIs, SMT
<1> QED
  BY <1>1, <1>2, Zenon DEF Names

\* The C type of a field.
Type(name) ==
  CASE name \in {"device_count", "state", "security"} -> Int32
    [] name = "channel" -> Byte
    [] name = "frequency" -> UInt16
    [] name = "ipv4" -> Array(IPV4_LEN)
    [] name = "ipv6" -> Array(IPV6_LEN)
    [] name = "bssid" -> Array(WIFI_BT_MAC_ADDRESS_LEN)
    [] name = "ssid" -> SsidArray

LEMMA TypeIs ==
  /\ Type("device_count") = Int32 /\ Type("state") = Int32 /\ Type("security") = Int32
  /\ Type("channel") = Byte /\ Type("frequency") = UInt16
  /\ Type("ipv4") = Array(IPV4_LEN) /\ Type("ipv6") = Array(IPV6_LEN)
  /\ Type("bssid") = Array(WIFI_BT_MAC_ADDRESS_LEN) /\ Type("ssid") = SsidArray
BY SMT DEF Type

LEMMA InfoFields ==
  ASSUME NEW x \in Info
  PROVE  /\ DOMAIN x = Names
         /\ \A n \in Names : x[n] \in Type(n)
<1>1. DOMAIN x = Names
  BY Zenon DEF Info, wifi_softap_info_t, Names
<1>2. /\ x.device_count \in Int32 /\ x.state \in Int32 /\ x.security \in Int32
      /\ x.channel \in Byte /\ x.frequency \in UInt16
      /\ x.ipv4 \in Array(IPV4_LEN) /\ x.ipv6 \in Array(IPV6_LEN)
      /\ x.bssid \in Array(WIFI_BT_MAC_ADDRESS_LEN) /\ x.ssid \in SsidArray
  BY Zenon DEF Info, wifi_softap_info_t, SsidArray
<1> QED
  BY <1>1, <1>2, TypeIs, Zenon DEF Names

With(x, n, v) == [x EXCEPT ![n] = v]

LEMMA InfoStored ==
  ASSUME NEW x \in Info, NEW n \in Names, NEW v \in Type(n)
  PROVE  /\ With(x, n, v) \in Info
         /\ With(x, n, v)[n] = v
         /\ \A m \in Names \ {n} : With(x, n, v)[m] = x[m]
<1> DEFINE y == [x EXCEPT ![n] = v]
<1>1. DOMAIN x = Names /\ \A m \in Names : x[m] \in Type(m)
  BY InfoFields, Zenon
<1>2. y[n] = v /\ \A m \in Names \ {n} : y[m] = x[m]
  BY <1>1, Zenon
<1>3. \A m \in Names : y[m] \in Type(m)
  BY <1>1, <1>2, Zenon
<1>4. y \in Info
  <2>1. y = [m \in Names |-> y[m]]
    BY <1>1, Zenon
  <2>2. y = [device_count |-> y.device_count, state |-> y.state, ipv4 |-> y.ipv4,
             ipv6 |-> y.ipv6, ssid |-> y.ssid, bssid |-> y.bssid, security |-> y.security,
             channel |-> y.channel, frequency |-> y.frequency]
    <3> HIDE DEF y
    <3> QED
      BY <2>1, SMT DEF Names
  <2> HIDE DEF y
  <2>3. /\ y.device_count \in Int32 /\ y.state \in Int32 /\ y.security \in Int32
        /\ y.channel \in Byte /\ y.frequency \in UInt16
        /\ y.ipv4 \in Array(IPV4_LEN) /\ y.ipv6 \in Array(IPV6_LEN)
        /\ y.bssid \in Array(WIFI_BT_MAC_ADDRESS_LEN) /\ y.ssid \in SsidArray
    BY <1>3, TypeIs, Zenon DEF Names
  <2> QED
    BY <2>2, <2>3, SMT DEF Info, wifi_softap_info_t, SsidArray
<1> QED
  BY <1>2, <1>4, Zenon DEF With

(***************************************************************************)
(* The calls that an input stands for: item 0 of a struct is its header,   *)
(* item j its field j; item j of struct i is call Pos(in, i, j) + 1.       *)
(***************************************************************************)
AnyCall ==
  [op : {"u8"}, v : Byte] \cup [op : {"u16"}, v : UInt16] \cup [op : {"i32", "array"}, v : Int32]
    \cup [op : {"bin"}, v : {s \in Seq(Byte) : UInt32(Len(s))}]

LEMMA AnyIsCall == \A c \in AnyCall : IsCall(c)
<1> SUFFICES ASSUME NEW c \in AnyCall PROVE IsCall(c)
  OBVIOUS
<1>1. CASE c \in [op : {"u8"}, v : Byte]
  BY <1>1, SMT DEF IsCall
<1>2. CASE c \in [op : {"u16"}, v : UInt16]
  BY <1>2, SMT DEF IsCall
<1>3. CASE c \in [op : {"i32", "array"}, v : Int32]
  BY <1>3, SMT DEF IsCall
<1>4. CASE c \in [op : {"bin"}, v : {s \in Seq(Byte) : UInt32(Len(s))}]
  BY <1>4, SMT DEF IsCall
<1> QED
  BY <1>1, <1>2, <1>3, <1>4, Zenon DEF AnyCall

Op(kind) == IF kind = "str" THEN "bin" ELSE kind
Value(f, x) == IF f.kind = "str" THEN SsidBytes(x[f.name]) ELSE x[f.name]

Header(n) == [op |-> "array", v |-> n]
FieldCall(j, x) == [op |-> Op(Schema[j].kind), v |-> Value(Schema[j], x)]
Item(x, j) == IF j = 0 THEN Header(Len(Schema)) ELSE FieldCall(j, x)

LEMMA HeaderIsCall ==
  ASSUME NEW n \in Nat, n <= MAX_ARRAY
  PROVE  Header(n) \in AnyCall /\ Header(n).op = "array" /\ Header(n).v = n
<1>1. n \in Int32
  <2>1. INT32_MIN \in Int /\ INT32_MAX \in Int /\ INT32_MIN <= n /\ n <= INT32_MAX
    BY SMT DEF INT32_MIN, INT32_MAX, MAX_ARRAY
  <2>2. n \in INT32_MIN..INT32_MAX
    BY <2>1, SMT
  <2> QED
    BY <2>2, Zenon DEF Int32
<1> QED
  BY <1>1, SMT DEF Header, AnyCall

LEMMA ShortLength ==
  ASSUME NEW n \in Nat, n <= WIFI_SSID_MAX_LEN
  PROVE  UInt32(n)
<1>1. n <= 32
  BY SMT DEF WIFI_SSID_MAX_LEN
<1>2. n \div 65536 = 0
  BY <1>1, SMT
<1>3. 0 \in UInt16
  BY ZeroIsUInt16
<1> QED
  BY <1>2, <1>3, SMT DEF UInt32

LEMMA FixedArray ==
  ASSUME NEW n \in Nat, n <= WIFI_SSID_MAX_LEN, NEW s \in Array(n)
  PROVE  s \in Seq(Byte) /\ Len(s) = n /\ UInt32(Len(s))
<1>1. s \in Seq(Byte) /\ Len(s) = n
  BY SMT DEF Array
<1> QED
  BY <1>1, ShortLength, Zenon

\* The call of a field carries its value, and a bin is never longer than the 32 bytes
\* that the decoder's buffer takes.
LEMMA FieldIsCall ==
  ASSUME NEW j \in Fields, NEW x \in Info
  PROVE  LET c == FieldCall(j, x)
             f == Schema[j]
         IN /\ c \in AnyCall
            /\ c.op = Op(f.kind) /\ c.v = Value(f, x)
            /\ c.op = "bin" => Len(c.v) <= WIFI_SSID_MAX_LEN
            /\ f.name \in Names
            /\ f.kind # "str" => c.v = x[f.name] /\ c.v \in Type(f.name)
<1> DEFINE f == Schema[j]
           c == FieldCall(j, x)
<1>1. c.op = Op(f.kind) /\ c.v = Value(f, x)
  BY SMT DEF FieldCall
<1>2. /\ DOMAIN x = Names
      /\ \A n \in Names : x[n] \in Type(n)
  BY InfoFields, Zenon
<1>3. c = [op |-> Op(f.kind), v |-> Value(f, x)]
  BY Zenon DEF FieldCall
<1> DEFINE op == f.kind
           name == f.name
<1>4. \/ op = "i32" /\ name \in {"device_count", "state", "security"}
      \/ op = "u8" /\ name = "channel"
      \/ op = "u16" /\ name = "frequency"
      \/ op = "bin" /\ name \in {"ipv4", "ipv6", "bssid"}
      \/ op = "str" /\ name = "ssid"
  BY SchemaKinds, Zenon
<1>5. Value(f, x) = IF op = "str" THEN SsidBytes(x[name]) ELSE x[name]
  BY Zenon DEF Value
<1> HIDE DEF f, c, op, name
<1>6. name \in Names
  BY <1>4, SMT DEF Names
<1>7. ASSUME op = "i32", name \in {"device_count", "state", "security"}
      PROVE  c \in AnyCall /\ c.op # "bin"
  <2>1. x[name] \in Int32
    BY <1>2, <1>6, <1>7, TypeIs, SMT
  <2>2. c = [op |-> "i32", v |-> x[name]]
    BY <1>3, <1>5, <1>7, SMT DEF Op, op
  <2> QED
    BY <2>1, <2>2, SMT DEF AnyCall
<1>8. ASSUME op = "u8", name = "channel"
      PROVE  c \in AnyCall /\ c.op # "bin"
  <2>1. x[name] \in Byte
    BY <1>2, <1>6, <1>8, TypeIs, SMT
  <2>2. c = [op |-> "u8", v |-> x[name]]
    BY <1>3, <1>5, <1>8, SMT DEF Op, op
  <2> QED
    BY <2>1, <2>2, SMT DEF AnyCall
<1>9. ASSUME op = "u16", name = "frequency"
      PROVE  c \in AnyCall /\ c.op # "bin"
  <2>1. x[name] \in UInt16
    BY <1>2, <1>6, <1>9, TypeIs, SMT
  <2>2. c = [op |-> "u16", v |-> x[name]]
    BY <1>3, <1>5, <1>9, SMT DEF Op, op
  <2> QED
    BY <2>1, <2>2, SMT DEF AnyCall
<1>10. ASSUME NEW b \in Seq(Byte), UInt32(Len(b)), Len(b) <= WIFI_SSID_MAX_LEN, c = [op |-> "bin", v |-> b]
       PROVE  c \in AnyCall /\ Len(c.v) <= WIFI_SSID_MAX_LEN
  <2>1. c \in [op : {"bin"}, v : {s \in Seq(Byte) : UInt32(Len(s))}] /\ c.v = b
    BY <1>10, SMT
  <2> QED
    BY <1>10, <2>1, Zenon DEF AnyCall
<1>11. ASSUME op = "bin", name \in {"ipv4", "ipv6", "bssid"}
       PROVE  c \in AnyCall /\ Len(c.v) <= WIFI_SSID_MAX_LEN
  <2>1. PICK n \in Nat : n <= WIFI_SSID_MAX_LEN /\ x[name] \in Array(n)
    <3>1. /\ IPV4_LEN \in Nat /\ IPV6_LEN \in Nat /\ WIFI_BT_MAC_ADDRESS_LEN \in Nat
          /\ IPV4_LEN <= WIFI_SSID_MAX_LEN /\ IPV6_LEN <= WIFI_SSID_MAX_LEN
          /\ WIFI_BT_MAC_ADDRESS_LEN <= WIFI_SSID_MAX_LEN
      BY SMT DEF IPV4_LEN, IPV6_LEN, WIFI_BT_MAC_ADDRESS_LEN, WIFI_SSID_MAX_LEN
    <3> QED
      BY <3>1, <1>2, <1>6, <1>11, TypeIs, Zenon
  <2>2. x[name] \in Seq(Byte) /\ UInt32(Len(x[name])) /\ Len(x[name]) <= WIFI_SSID_MAX_LEN
    BY <2>1, FixedArray, Zenon
  <2>3. c = [op |-> "bin", v |-> x[name]]
    BY <1>3, <1>5, <1>11, SMT DEF Op, op
  <2> QED
    BY <1>10, <2>2, <2>3, Zenon
<1>12. ASSUME op = "str", name = "ssid"
       PROVE  c \in AnyCall /\ Len(c.v) <= WIFI_SSID_MAX_LEN
  <2> DEFINE b == SsidBytes(x[name])
  <2>1. x[name] \in SsidArray
    BY <1>2, <1>6, <1>12, TypeIs, SMT
  <2>2. b \in Seq(Byte) /\ Len(b) \in Nat /\ Len(b) <= WIFI_SSID_MAX_LEN
    BY <2>1, SsidWritten, Zenon
  <2>3. c = [op |-> "bin", v |-> b]
    BY <1>3, <1>5, <1>12, SMT DEF Op, op
  <2> HIDE DEF b
  <2>4. UInt32(Len(b))
    BY <2>2, ShortLength, Zenon
  <2> QED
    BY <1>10, <2>2, <2>3, <2>4, Zenon
<1>13. c \in AnyCall /\ (c.op = "bin" => Len(c.v) <= WIFI_SSID_MAX_LEN)
  BY <1>4, <1>7, <1>8, <1>9, <1>11, <1>12, Zenon
<1>14. op # "str" => c.v = x[name] /\ x[name] \in Type(name)
  BY <1>1, <1>2, <1>5, <1>6, Zenon
<1> QED
  BY <1>1, <1>6, <1>13, <1>14, Zenon DEF c, f, op, name

LEMMA ItemIsCall ==
  ASSUME NEW j \in 0..9, NEW x \in Info
  PROVE  /\ Item(x, j) \in AnyCall
         /\ Item(x, j).op = "bin" => Len(Item(x, j).v) <= WIFI_SSID_MAX_LEN
<1>1. CASE j = 0
  <2>1. Item(x, j) = Header(9)
    BY <1>1, SchemaIs, Zenon DEF Item
  <2>2. 9 \in Nat /\ 9 <= MAX_ARRAY
    BY SMT DEF MAX_ARRAY
  <2>3. Header(9) \in AnyCall /\ Header(9).op = "array"
    BY <2>2, HeaderIsCall, Zenon
  <2> QED
    BY <2>1, <2>3, SMT
<1>2. CASE j # 0
  <2>1. j \in Fields
    BY <1>2, SMT DEF Fields
  <2> QED
    BY <1>2, <2>1, FieldIsCall, Zenon DEF Item
<1> QED
  BY <1>1, <1>2, Zenon

Pos(in, i, j) == (IF in.array THEN 1 ELSE 0) + 10 * (i - 1) + j

\* s holds the encodings of calls, the first of the input's.
Laid(calls, off, s, in) ==
  /\ calls \in Seq(AnyCall) /\ LaidOut(off, calls, s)
  /\ in.array /\ Len(calls) >= 1 => calls[1] = Header(Len(in.infos))
  /\ \A i \in 1..Len(in.infos), j \in 0..9 :
       Pos(in, i, j) < Len(calls) => calls[Pos(in, i, j) + 1] = Item(in.infos[i], j)

InputOK(in) ==
  /\ in.infos \in Seq(Info) /\ Len(in.infos) <= MAX_ARRAY
  /\ in.array \in BOOLEAN /\ (~in.array => Len(in.infos) = 1)
  /\ in.room \in Nat

LEMMA PosOnce ==
  ASSUME NEW in, NEW i \in Nat \ {0}, NEW j \in 0..9
  PROVE  /\ Pos(in, i, j) \in Nat
         /\ in.array => Pos(in, i, j) >= 1
         /\ \A k \in Nat \ {0}, m \in 0..9 : Pos(in, i, j) = Pos(in, k, m) => i = k /\ j = m
<1> DEFINE h == IF in.array THEN 1 ELSE 0
<1>1. h \in Nat /\ (in.array => h = 1)
  BY SMT
<1>2. \A k, m : Pos(in, k, m) = h + 10 * (k - 1) + m
  BY Zenon DEF Pos
<1> HIDE DEF h
<1>3. h + 10 * (i - 1) + j \in Nat /\ h + 10 * (i - 1) + j >= h
  BY <1>1, SMT
<1>4. ASSUME NEW k \in Nat \ {0}, NEW m \in 0..9,
             h + 10 * (i - 1) + j = h + 10 * (k - 1) + m
      PROVE  i = k /\ j = m
  BY <1>1, <1>4, SMT
<1>5. Pos(in, i, j) \in Nat /\ (in.array => Pos(in, i, j) >= 1)
  BY <1>1, <1>2, <1>3, Zenon
<1>6. ASSUME NEW k \in Nat \ {0}, NEW m \in 0..9, Pos(in, i, j) = Pos(in, k, m)
      PROVE  i = k /\ j = m
  <2>1. Pos(in, i, j) = h + 10 * (i - 1) + j /\ Pos(in, k, m) = h + 10 * (k - 1) + m
    BY <1>2, Zenon
  <2>2. h + 10 * (i - 1) + j = h + 10 * (k - 1) + m
    BY <1>6, <2>1, Zenon
  <2> QED
    BY <1>4, <2>2, Zenon
<1> QED
  BY <1>5, <1>6, Zenon

\* The items follow each other.
LEMMA PosNext ==
  ASSUME NEW in, NEW i \in Int
  PROVE  /\ \A j \in Int : Pos(in, i, j) + 1 = Pos(in, i, j + 1)
         /\ Pos(in, i, 9) + 1 = Pos(in, i + 1, 0)
<1> DEFINE h == IF in.array THEN 1 ELSE 0
<1>1. h \in Nat
  BY SMT
<1>2. \A k, m : Pos(in, k, m) = h + 10 * (k - 1) + m
  BY Zenon DEF Pos
<1> HIDE DEF h
<1>3. /\ \A j \in Int : (h + 10 * (i - 1) + j) + 1 = h + 10 * (i - 1) + (j + 1)
      /\ (h + 10 * (i - 1) + 9) + 1 = h + 10 * ((i + 1) - 1) + 0
  BY <1>1, SMT
<1> QED
  BY <1>2, <1>3, ZenonT(30)

\* The calls before the first struct.
LEMMA LaidFirst ==
  ASSUME NEW in, InputOK(in)
  PROVE  /\ \E off : Laid(<<>>, off, <<>>, in)
         /\ in.array => LET c == Header(Len(in.infos))
                        IN \E off : Laid(<<c>>, off, Bytes(c), in)
<1> DEFINE c == Header(Len(in.infos))
<1>1. Len(in.infos) \in Nat /\ Len(in.infos) <= MAX_ARRAY
  BY SMT DEF InputOK
<1>2. c \in AnyCall
  BY <1>1, HeaderIsCall, Zenon
<1> HIDE DEF c
<1>3. /\ <<>> \in Seq(AnyCall) /\ <<>> \in Seq(Byte) /\ Len(<<>>) = 0
      /\ Append(<<>>, c) = <<c>> /\ <<c>> \in Seq(AnyCall) /\ Len(<<c>>) = 1 /\ <<c>>[1] = c
  BY <1>2, SMT
<1>4. PICK o : LaidOut(o, <<>>, <<>>)
  BY Nothing, Zenon
<1>5. ASSUME NEW i \in 1..Len(in.infos), NEW j \in 0..9
      PROVE  Pos(in, i, j) \in Nat /\ (in.array => Pos(in, i, j) >= 1)
  <2>1. i \in Nat \ {0}
    BY <1>1, SMT
  <2> QED
    BY <2>1, PosOnce, Zenon
<1>6. Laid(<<>>, o, <<>>, in)
  <2>1. ~(Len(<<>>) >= 1)
    BY <1>3, SMT
  <2>2. \A n \in Nat : ~(n < Len(<<>>))
    BY <1>3, SMT
  <2> QED
    BY <1>3, <1>4, <1>5, <2>1, <2>2, Zenon DEF Laid
<1>7. ASSUME in.array
      PROVE  \E off : Laid(<<c>>, off, Bytes(c), in)
  <2>1. PICK off : LaidOut(off, Append(<<>>, c), <<>> \o Bytes(c))
    BY <1>2, <1>3, <1>4, AnyIsCall, OneMore, Zenon
  <2>2. <<>> \o Bytes(c) = Bytes(c)
    <3>1. Bytes(c) \in Seq(Byte)
      BY <1>2, AnyIsCall, CallBytes, Zenon
    <3> QED
      BY <3>1, SMT
  <2>3. LaidOut(off, <<c>>, Bytes(c))
    BY <1>3, <2>1, <2>2, Zenon
  <2>4. \A i \in 1..Len(in.infos), j \in 0..9 : ~(Pos(in, i, j) < Len(<<c>>))
    <3> TAKE i \in 1..Len(in.infos), j \in 0..9
    <3>1. Pos(in, i, j) \in Nat /\ Pos(in, i, j) >= 1
      BY <1>5, <1>7, Zenon
    <3> QED
      BY <1>3, <3>1, SMT
  <2> QED
    BY <1>3, <2>3, <2>4, Zenon DEF Laid, c
<1> QED
  BY <1>6, <1>7, Zenon DEF c

\* One item more.
LEMMA LaidNext ==
  ASSUME NEW in, InputOK(in), NEW calls, NEW off, NEW s \in Seq(Byte), Laid(calls, off, s, in),
         NEW e \in 1..Len(in.infos), NEW f \in 0..9, Len(calls) = Pos(in, e, f)
  PROVE  LET c == Item(in.infos[e], f)
         IN \E o : Laid(Append(calls, c), o, s \o Bytes(c), in)
<1> DEFINE c == Item(in.infos[e], f)
           x == Append(calls, c)
           n == Len(calls)
<1>1. in.infos \in Seq(Info) /\ in.infos[e] \in Info /\ e \in Nat \ {0}
  BY SMT DEF InputOK
<1>2. c \in AnyCall
  BY <1>1, ItemIsCall, Zenon
<1>3. calls \in Seq(AnyCall) /\ LaidOut(off, calls, s)
  BY Zenon DEF Laid
<1>4. PICK o : LaidOut(o, x, s \o Bytes(c))
  BY <1>2, <1>3, AnyIsCall, OneMore, Zenon
<1> HIDE DEF c
<1>5. /\ n \in Nat /\ x \in Seq(AnyCall) /\ Len(x) = n + 1 /\ x[n + 1] = c
      /\ \A k \in 1..n : x[k] = calls[k]
  BY <1>2, <1>3, SMT
<1> HIDE DEF x, n
<1>6. n = Pos(in, e, f) /\ (in.array => n >= 1)
      /\ \A k \in Nat \ {0}, m \in 0..9 : n = Pos(in, k, m) => e = k /\ f = m
  <2>1. /\ in.array => Pos(in, e, f) >= 1
        /\ \A k \in Nat \ {0}, m \in 0..9 : Pos(in, e, f) = Pos(in, k, m) => e = k /\ f = m
    BY <1>1, PosOnce, Zenon
  <2>2. n = Pos(in, e, f)
    BY Zenon DEF n
  <2> QED
    BY <2>1, <2>2, SMT
<1>7. in.array => x[1] = Header(Len(in.infos))
  <2> SUFFICES ASSUME in.array PROVE x[1] = Header(Len(in.infos))
    OBVIOUS
  <2>1. n >= 1 /\ 1 \in 1..n
    BY <1>5, <1>6, SMT
  <2> QED
    BY <1>5, <2>1, Zenon DEF Laid, n
<1>8. ASSUME NEW i \in 1..Len(in.infos), NEW j \in 0..9, Pos(in, i, j) < Len(x)
      PROVE  x[Pos(in, i, j) + 1] = Item(in.infos[i], j)
  <2>1. i \in Nat \ {0}
    BY SMT
  <2> DEFINE p == Pos(in, i, j)
  <2>2. p \in Nat
    BY <2>1, PosOnce, Zenon
  <2> HIDE DEF p
  <2>3. CASE p = n
    <3>1. e = i /\ f = j
      BY <1>6, <2>1, <2>3, Zenon DEF p
    <3> QED
      BY <1>5, <2>3, <3>1, Zenon DEF p, c
  <2>4. CASE p # n
    <3>1. p < n /\ p + 1 \in 1..n
      BY <1>5, <1>8, <2>2, <2>4, SMT DEF p
    <3>2. calls[p + 1] = Item(in.infos[i], j)
      BY <3>1, Zenon DEF Laid, p, n
    <3> QED
      BY <1>5, <3>1, <3>2, Zenon DEF p
  <2> QED
    BY <2>3, <2>4, Zenon
<1>9. Laid(x, o, s \o Bytes(c), in)
  BY <1>4, <1>5, <1>7, <1>8, Zenon DEF Laid
<1> QED
  BY <1>9, Zenon DEF x, c

\* A reader without an error that stands before call k + 1, and what reading it gives.
StandsBefore(r, calls, off, in, k) ==
  /\ Open(r) /\ Laid(calls, off, r.data, in)
  /\ k \in Nat /\ k < Len(calls) /\ r.pos = off[k]
  /\ calls[k + 1].op = "bin" => Len(calls[k + 1].v) <= WIFI_SSID_MAX_LEN

ReadsOne(r, e, c, pos) ==
  /\ Open(e.reader) /\ e.reader.data = r.data /\ e.reader.pos = pos
  /\ e.value = c.v

LEMMA LaidReads ==
  ASSUME NEW in, NEW calls, NEW off, NEW r, NEW k, StandsBefore(r, calls, off, in, k)
  PROVE  ReadsOne(r, ExpectCall(r, calls[k + 1].op, WIFI_SSID_MAX_LEN), calls[k + 1], off[k + 1])
<1> DEFINE c == calls[k + 1]
           e == ExpectCall(r, c.op, WIFI_SSID_MAX_LEN)
<1>0. /\ Open(r) /\ Laid(calls, off, r.data, in)
      /\ k \in Nat /\ k < Len(calls) /\ r.pos = off[k]
      /\ c.op = "bin" => Len(c.v) <= WIFI_SSID_MAX_LEN
  BY Zenon DEF StandsBefore
<1>1. calls \in Seq(AnyCall) /\ Len(calls) \in Nat /\ LaidOut(off, calls, r.data)
  BY <1>0, SMT DEF Laid
<1>2. k + 1 \in 1..Len(calls) /\ (k + 1) - 1 = k
  BY <1>0, <1>1, SMT
<1>3. c \in AnyCall
  BY <1>1, <1>2, SMT
<1>4. IsCall(c) /\ c.op \in Ops
  <2>1. IsCall(c)
    BY <1>3, AnyIsCall, Zenon
  <2> HIDE DEF c
  <2> QED
    BY <2>1, CallKinds, SMT DEF Ops
<1>5. /\ off[k + 1] = off[k] + Len(Bytes(c)) /\ off[k + 1] <= Len(r.data)
      /\ At(r.data, off[k], Bytes(c))
  BY <1>1, <1>2, Zenon DEF LaidOut, Lies
<1> HIDE DEF c
<1>6. There(r, Bytes(c))
  BY <1>0, <1>5, Zenon DEF There, At
<1>7. WIFI_SSID_MAX_LEN \in Nat /\ WIFI_SSID_MAX_LEN <= INT32_MAX
  BY SsidConstants, Zenon
<1>8. /\ e.reader.error = "ok" => e.value = c.v /\ e.reader.pos = r.pos + Len(Bytes(c))
      /\ e.reader.error = "ok"
  <2>1. r.pos + Len(Bytes(c)) <= Len(r.data) /\ (c.op = "bin" => Len(c.v) <= WIFI_SSID_MAX_LEN)
    BY <1>0, <1>5, Zenon DEF c
  <2> QED
    BY <1>0, <1>4, <1>6, <1>7, <2>1, CallReads, Zenon
<1>9. Goes(r, e.reader)
  BY <1>0, <1>4, <1>7, CallGoes, Zenon DEF Open
<1> QED
  BY <1>0, <1>5, <1>8, <1>9, Zenon DEF Goes, Open, c, ReadsOne

(***************************************************************************)
(* The two functions.  Between the calls the buffer holds the items that   *)
(* were written, if the writer has no error; and a reader on those bytes   *)
(* stands before the item that is read next, everything before it stored.  *)
(***************************************************************************)
Written(m, s, in) == \E calls, off : Laid(calls, off, s, in) /\ Len(calls) = m
Total(in) == Pos(in, Len(in.infos) + 1, 0)

Encoding ==
  /\ WriterOK(writer)
  /\ pc = "encode" => writer = mpack_writer_init(input.room)
  /\ pc \in {"encode", "write"} => encoded = "none"
  /\ pc \in {"encode", "decode"} => elem = 1 /\ field = 0
  /\ pc = "write" =>
       /\ count = Len(input.infos) /\ elem \in 1..Len(input.infos) /\ field \in 0..9
       /\ writer.error = "ok" => Written(Pos(input, elem, field), writer.buffer, input)
  /\ pc \in {"decode", "read"} =>
       /\ Len(input.infos) >= 1
       /\ Written(Total(input), writer.buffer, input)
  /\ pc \in {"encode", "write", "decode"} => out_infos = Fill(MAX_ARRAY, Stale)

\* The field of y is that of x.
Agrees(y, x, j) ==
  IF Schema[j].kind = "str" THEN SameString(y.ssid, x.ssid)
  ELSE y[Schema[j].name] = x[Schema[j].name]

\* The structs before number e are decoded, and number e before its field f.
Stored(infos, in, e, f) ==
  /\ infos \in [1..MAX_ARRAY -> Info]
  /\ \A i \in 1..e - 1 : SameInfo(infos[i], in.infos[i])
  /\ \A j \in 1..f - 1 : Agrees(infos[e], in.infos[e], j)
  /\ \A i \in e + 1..MAX_ARRAY : infos[i] = Stale

\* The reader has no error and stands behind p calls.
After(r, s, in, p) ==
  /\ Open(r) /\ r.data = s
  /\ \E calls, off : Laid(calls, off, s, in) /\ Len(calls) = Total(in) /\ r.pos = off[p]

Reading ==
  /\ count = Len(input.infos) /\ elem \in 1..Len(input.infos) /\ field \in 0..9
  /\ Stored(out_infos, input, elem, field)
  /\ After(reader, writer.buffer, input, Pos(input, elem, field))

UsageInv ==
  /\ InputsOK /\ input \in Inputs
  /\ pc \in {"encode", "write", "decode", "read", "done"}
  /\ Encoding
  /\ pc = "read" => ReaderOK(reader) /\ (Own => Reading)
  /\ RoundTrip

LEMMA InputIsOK ==
  ASSUME InputsOK, input \in Inputs
  PROVE  /\ InputOK(input) /\ Len(input.infos) \in Nat /\ Len(input.infos) <= MAX_ARRAY
         /\ \A i \in 1..Len(input.infos) : input.infos[i] \in Info
<1>1. InputOK(input)
  BY Zenon DEF InputsOK, InputOK, Info
<1> QED
  BY <1>1, SMT DEF InputOK

LEMMA UsageInit == InputsOK /\ Init => UsageInv
<1> SUFFICES ASSUME InputsOK, Init PROVE UsageInv
  OBVIOUS
<1>1. pc = "encode" /\ input \in Inputs /\ elem = 1 /\ field = 0 /\ encoded = "none"
      /\ out_infos = Fill(MAX_ARRAY, Stale) /\ writer = mpack_writer_init(input.room)
  BY Zenon DEF Init
<1>2. WriterOK(writer)
  <2>1. input.room \in Nat
    BY <1>1, InputIsOK, Zenon DEF InputOK
  <2> QED
    BY <1>1, <2>1, SMT DEF mpack_writer_init, WriterOK
<1>3. Encoding
  BY <1>1, <1>2, SMT DEF Encoding
<1>4. RoundTrip
  BY <1>1, SMT DEF RoundTrip
<1> QED
  BY <1>1, <1>3, <1>4, SMT DEF UsageInv

LEMMA EncodeInv ==
  ASSUME UsageInv, mpack_encode
  PROVE  UsageInv'
<1> DEFINE n == Len(input.infos)
           c == Header(n)
<1>1. /\ InputsOK /\ input \in Inputs /\ input' = input /\ InputOK(input)
      /\ n \in Nat /\ n <= MAX_ARRAY /\ pc = "encode"
      /\ encoded = "none" /\ elem = 1 /\ field = 0 /\ elem' = elem /\ field' = field
      /\ writer = mpack_writer_init(input.room) /\ WriterOK(writer)
      /\ out_infos' = out_infos /\ out_infos = Fill(MAX_ARRAY, Stale)
  BY InputIsOK, Zenon DEF UsageInv, Encoding, mpack_encode, decodeVars
<1>2. CASE input.infos = <<>>
  <2>1. pc' = "done" /\ encoded' = "fail" /\ writer' = writer
    BY <1>2, Zenon DEF mpack_encode
  <2>2. RoundTrip'
    BY <2>1, SMT DEF RoundTrip
  <2>3. Encoding'
    BY <1>1, <2>1, SMT DEF Encoding
  <2> QED
    BY <1>1, <2>1, <2>2, <2>3, SMT DEF UsageInv
<1>3. CASE input.infos # <<>>
  <2>1. /\ pc' = "write" /\ count' = n /\ encoded' = encoded
        /\ writer' = IF input.array THEN mpack_start_array(writer, n) ELSE writer
    BY <1>3, Zenon DEF mpack_encode
  <2>2. n >= 1 /\ elem' \in 1..n /\ field' \in 0..9
    <3>1. n # 0
      BY <1>1, <1>3, SMT DEF InputOK
    <3> HIDE DEF n
    <3> QED
      BY <1>1, <3>1, SMT
  <2>3. writer.buffer = <<>>
    BY <1>1, SMT DEF mpack_writer_init
  <2>4. WriterOK(writer') /\ (writer'.error = "ok" => Written(Pos(input, 1, 0), writer'.buffer, input))
    <3>1. CASE ~input.array
      <4>1. writer' = writer
        BY <2>1, <3>1, Zenon
      <4>2. PICK off : Laid(<<>>, off, <<>>, input)
        BY <1>1, LaidFirst, Zenon
      <4>3. Len(<<>>) = 0 /\ Pos(input, 1, 0) = 0
        BY <3>1, SMT DEF Pos
      <4> QED
        BY <1>1, <2>3, <4>1, <4>2, <4>3, Zenon DEF Written
    <3>2. CASE input.array
      <4>1. c \in AnyCall /\ c.op = "array" /\ c.v = n
        BY <1>1, HeaderIsCall, Zenon
      <4>2. writer' = WriteCall(writer, c)
        <5> HIDE DEF c
        <5> QED
          BY <2>1, <3>2, <4>1, SMT DEF WriteCall
      <4>3. PICK off : Laid(<<c>>, off, Bytes(c), input)
        BY <1>1, <3>2, LaidFirst, Zenon
      <4>4. Len(<<c>>) = 1 /\ Pos(input, 1, 0) = 1
        BY <3>2, SMT DEF Pos
      <4>5. IsCall(c)
        BY <4>1, AnyIsCall, Zenon
      <4> HIDE DEF c
      <4>6. /\ WriterOK(writer')
            /\ writer'.error = "ok" => writer'.buffer = <<>> \o Bytes(c)
        BY <1>1, <2>3, <4>2, <4>5, CallKeeps, Zenon
      <4>7. <<>> \o Bytes(c) = Bytes(c)
        <5>1. Bytes(c) \in Seq(Byte)
          BY <4>5, CallBytes, Zenon
        <5> QED
          BY <5>1, SMT
      <4> QED
        BY <4>3, <4>4, <4>6, <4>7, Zenon DEF Written
    <3> QED
      BY <3>1, <3>2, Zenon
  <2>5. Encoding'
    BY <1>1, <2>1, <2>2, <2>4, SMT DEF Encoding
  <2>6. RoundTrip'
    BY <2>1, SMT DEF RoundTrip
  <2> QED
    BY <1>1, <2>1, <2>5, <2>6, SMT DEF UsageInv
<1> QED
  BY <1>2, <1>3, Zenon

\* A step of encoding is one call: the item's.
LEMMA WriteIsItem ==
  ASSUME InputsOK, input \in Inputs, elem \in 1..Len(input.infos), field \in 0..9,
         write_single_structure
  PROVE  writer' = WriteCall(writer, Item(input.infos[elem], field))
<1> DEFINE x == input.infos[elem]
<1>1. x \in Info
  BY InputIsOK, Zenon
<1>2. CASE field = 0
  <2>1. writer' = mpack_start_array(writer, 9)
    BY <1>2, SchemaIs, Zenon DEF write_single_structure
  <2>2. Item(x, field) = Header(9)
    BY <1>2, SchemaIs, Zenon DEF Item
  <2>3. Header(9).op = "array" /\ Header(9).v = 9
    BY SMT DEF Header
  <2> QED
    BY <2>1, <2>2, <2>3, SMT DEF WriteCall
<1>3. CASE field # 0
  <2> DEFINE f == Schema[field]
             c == FieldCall(field, x)
  <2>1. field \in Fields
    BY <1>3, SMT DEF Fields
  <2>2. writer' = WriteField(writer, f, x[f.name])
    BY <1>3, Zenon DEF write_single_structure
  <2>3. Item(x, field) = c
    BY <1>3, Zenon DEF Item
  <2>4. c.op = Op(f.kind) /\ c.v = Value(f, x)
    BY <1>1, <2>1, FieldIsCall, Zenon
  <2>5. f.kind \in {"i32", "u8", "u16", "bin", "str"}
    BY <2>1, SchemaKinds, Zenon
  <2> HIDE DEF x, f, c
  <2>6. WriteField(writer, f, x[f.name]) = WriteCall(writer, c)
    <3>1. CASE f.kind = "str"
      <4>1. c.op = "bin" /\ c.v = SsidBytes(x[f.name])
        BY <2>4, <3>1, Zenon DEF Op, Value
      <4> QED
        BY <3>1, <4>1, SMT DEF WriteField, WriteCall
    <3>2. CASE f.kind # "str"
      <4>1. c.op = f.kind /\ c.v = x[f.name]
        BY <2>4, <3>2, Zenon DEF Op, Value
      <4> QED
        BY <2>5, <3>2, <4>1, SMT DEF WriteField, WriteCall
    <3> QED
      BY <3>1, <3>2, Zenon
  <2> QED
    BY <2>2, <2>3, <2>6, Zenon DEF x
<1> QED
  BY <1>2, <1>3, Zenon

LEMMA WriteItemInv ==
  ASSUME UsageInv, write_single_structure
  PROVE  UsageInv'
<1> DEFINE n == Len(input.infos)
           c == Item(input.infos[elem], field)
           More(m) == writer'.error = "ok" => Written(m, writer'.buffer, input)
<1>1. /\ InputsOK /\ input \in Inputs /\ input' = input /\ InputOK(input)
      /\ n \in Nat /\ pc = "write" /\ encoded = "none" /\ count = n
      /\ elem \in 1..n /\ field \in 0..9 /\ input.infos[elem] \in Info
      /\ writer.error = "ok" => Written(Pos(input, elem, field), writer.buffer, input)
      /\ WriterOK(writer) /\ count' = count
      /\ out_infos' = out_infos /\ out_infos = Fill(MAX_ARRAY, Stale)
  BY InputIsOK, Zenon DEF UsageInv, Encoding, write_single_structure, decodeVars
<1>2. writer' = WriteCall(writer, c)
  BY <1>1, WriteIsItem, Zenon
<1>3. IsCall(c)
  BY <1>1, ItemIsCall, AnyIsCall, Zenon
<1>4. /\ WriterOK(writer')
      /\ writer'.error = "ok" => writer.error = "ok" /\ writer'.buffer = writer.buffer \o Bytes(c)
  <2> HIDE DEF c
  <2> QED
    BY <1>1, <1>2, <1>3, CallKeeps, Zenon
<1>5. More(Pos(input, elem, field) + 1)
  <2> SUFFICES ASSUME writer'.error = "ok"
               PROVE  Written(Pos(input, elem, field) + 1, writer'.buffer, input)
    OBVIOUS
  <2>1. PICK calls, off : Laid(calls, off, writer.buffer, input) /\ Len(calls) = Pos(input, elem, field)
    BY <1>1, <1>4, Zenon DEF Written
  <2>2. writer.buffer \in Seq(Byte)
    BY <1>1, WriterFields, Zenon
  <2>3. PICK o : Laid(Append(calls, c), o, writer.buffer \o Bytes(c), input)
    BY <1>1, <2>1, <2>2, LaidNext, Zenon
  <2>4. calls \in Seq(AnyCall) /\ c \in AnyCall
    BY <1>1, <2>1, ItemIsCall, Zenon DEF Laid
  <2> HIDE DEF c
  <2>5. Len(Append(calls, c)) = Len(calls) + 1
    BY <2>4, SMT
  <2> QED
    BY <1>4, <2>1, <2>3, <2>5, Zenon DEF Written
<1>6. Len(Schema) = 9
  BY SchemaIs, Zenon
<1> HIDE DEF c, More
<1>7. CASE field < 9
  <2>1. field' = field + 1 /\ pc' = pc /\ elem' = elem /\ encoded' = encoded
    BY <1>6, <1>7, Zenon DEF write_single_structure
  <2>2. field' \in 0..9 /\ Pos(input, elem', field') = Pos(input, elem, field) + 1
    <3>1. field + 1 \in 0..9 /\ elem \in Int /\ field \in Int
      BY <1>1, <1>7, SMT
    <3> QED
      BY <2>1, <3>1, PosNext, Zenon
  <2>3. writer'.error = "ok" => Written(Pos(input, elem', field'), writer'.buffer, input)
    BY <1>5, <2>2, Zenon DEF More
  <2>4. Encoding'
    BY <1>1, <1>4, <2>1, <2>2, <2>3, SMT DEF Encoding
  <2>5. RoundTrip'
    BY <1>1, <2>1, SMT DEF RoundTrip
  <2> QED
    BY <1>1, <2>1, <2>4, <2>5, SMT DEF UsageInv
<1>8. CASE ~(field < 9)
  <2>1. field = 9 /\ field' = 0
    BY <1>1, <1>6, <1>8, SMT DEF write_single_structure
  <2>2. elem \in Int /\ Pos(input, elem, field) + 1 = Pos(input, elem + 1, 0)
    <3>1. elem \in Int
      BY <1>1, SMT
    <3> QED
      BY <2>1, <3>1, PosNext, Zenon
  <2>3. CASE elem < count
    <3>1. elem' = elem + 1 /\ pc' = pc /\ encoded' = encoded
      BY <1>6, <1>8, <2>3, Zenon DEF write_single_structure
    <3>2. elem' \in 1..n /\ field' \in 0..9
      BY <1>1, <2>1, <2>3, <3>1, SMT
    <3>3. writer'.error = "ok" => Written(Pos(input, elem', field'), writer'.buffer, input)
      BY <1>5, <2>1, <2>2, <3>1, Zenon DEF More
    <3>4. Encoding'
      BY <1>1, <1>4, <3>1, <3>2, <3>3, SMT DEF Encoding
    <3>5. RoundTrip'
      BY <1>1, <3>1, SMT DEF RoundTrip
    <3> QED
      BY <1>1, <3>1, <3>4, <3>5, SMT DEF UsageInv
  <2>4. CASE ~(elem < count)
    <3>1. elem' = 1 /\ encoded' = Encoded(writer') /\ pc' = IF encoded' = "ok" THEN "decode" ELSE "done"
      BY <1>6, <1>8, <2>4, Zenon DEF write_single_structure
    <3>2. elem = n /\ n >= 1
      BY <1>1, <2>4, SMT
    <3>3. encoded' = "ok" => writer'.error = "ok"
      BY <3>1, SMT DEF Encoded, mpack_writer_destroy
    <3>4. encoded' = "ok" => Written(Total(input), writer'.buffer, input)
      BY <1>5, <2>2, <3>2, <3>3, Zenon DEF More, Total
    <3>5. Encoding'
      BY <1>1, <1>4, <2>1, <3>1, <3>2, <3>4, SMT DEF Encoding
    <3>6. RoundTrip'
      BY <3>1, SMT DEF RoundTrip
    <3> QED
      BY <1>1, <3>1, <3>5, <3>6, SMT DEF UsageInv
  <2> QED
    BY <2>3, <2>4, Zenon
<1> QED
  BY <1>7, <1>8, Zenon

LEMMA PosBelow ==
  ASSUME NEW in, Len(in.infos) \in Nat, NEW e \in 1..Len(in.infos), NEW f \in 0..9
  PROVE  Pos(in, e, f) \in Nat /\ Pos(in, e, f) < Total(in)
<1> DEFINE h == IF in.array THEN 1 ELSE 0
           n == Len(in.infos)
<1>1. h \in Nat /\ n \in Nat /\ e \in 1..n
  BY SMT
<1>2. Pos(in, e, f) = h + 10 * (e - 1) + f /\ Total(in) = h + 10 * ((n + 1) - 1) + 0
  BY Zenon DEF Pos, Total
<1> HIDE DEF h, n
<1>3. h + 10 * (e - 1) + f \in Nat /\ h + 10 * (e - 1) + f < h + 10 * ((n + 1) - 1) + 0
  BY <1>1, SMT
<1> QED
  BY <1>2, <1>3, Zenon

\* The call for an item reads it.
LEMMA ItemReads ==
  ASSUME NEW in, InputOK(in), NEW e \in 1..Len(in.infos), NEW f \in 0..9, NEW s, NEW r,
         After(r, s, in, Pos(in, e, f))
  PROVE  LET c == Item(in.infos[e], f)
             x == ExpectCall(r, c.op, WIFI_SSID_MAX_LEN)
         IN x.value = c.v /\ After(x.reader, s, in, Pos(in, e, f) + 1)
<1> DEFINE c == Item(in.infos[e], f)
           p == Pos(in, e, f)
<1>1. PICK calls, off : Laid(calls, off, s, in) /\ Len(calls) = Total(in) /\ r.pos = off[p]
  BY Zenon DEF After
<1>2. in.infos[e] \in Info /\ Len(in.infos) \in Nat
  BY SMT DEF InputOK
<1>3. p \in Nat /\ p < Len(calls)
  BY <1>1, <1>2, PosBelow, Zenon
<1>4. calls[p + 1] = c
  BY <1>1, <1>3, Zenon DEF Laid
<1>5. c.op = "bin" => Len(c.v) <= WIFI_SSID_MAX_LEN
  BY <1>2, ItemIsCall, Zenon
<1>6. Open(r) /\ r.data = s
  BY Zenon DEF After
<1> HIDE DEF c, p
<1> DEFINE x == ExpectCall(r, c.op, WIFI_SSID_MAX_LEN)
<1>7. /\ Open(x.reader) /\ x.reader.data = s /\ x.reader.pos = off[p + 1]
      /\ x.value = c.v
  <2> DEFINE d == calls[p + 1]
             y == ExpectCall(r, d.op, WIFI_SSID_MAX_LEN)
  <2>1. Laid(calls, off, r.data, in) /\ (d.op = "bin" => Len(d.v) <= WIFI_SSID_MAX_LEN)
    BY <1>1, <1>4, <1>5, <1>6, Zenon
  <2>2. Open(y.reader) /\ y.reader.data = r.data /\ y.reader.pos = off[p + 1] /\ y.value = d.v
    <3>1. StandsBefore(r, calls, off, in, p)
      BY <1>1, <1>3, <1>6, <2>1, Zenon DEF StandsBefore
    <3>2. ReadsOne(r, y, d, off[p + 1])
      BY <3>1, LaidReads, Zenon
    <3> HIDE DEF y, d
    <3> QED
      BY <3>2, Zenon DEF ReadsOne
  <2> QED
    BY <1>4, <1>6, <2>2, Zenon
<1> HIDE DEF x
<1>8. After(x.reader, s, in, p + 1)
  BY <1>1, <1>7, Zenon DEF After
<1> QED
  BY <1>7, <1>8, Zenon DEF x, c, p

LEMMA AllAgree ==
  ASSUME NEW x \in Info, NEW y \in Info, \A j \in Fields : Agrees(y, x, j)
  PROVE  SameInfo(y, x)
<1>1. DOMAIN y = Names
  BY InfoFields, Zenon
<1>2. ASSUME NEW n \in Names \ {"ssid"} PROVE y[n] = x[n]
  <2>1. PICK j \in Fields : Schema[j].name = n
    BY EveryName, Zenon
  <2>2. Schema[j].kind # "str"
    BY <2>1, SchemaKinds, SMT
  <2> QED
    BY <2>1, <2>2, Zenon DEF Agrees
<1>3. SameString(y.ssid, x.ssid)
  <2>1. 5 \in Fields /\ Schema[5].kind = "str"
    BY SchemaIs, SMT DEF Fields
  <2> QED
    BY <2>1, Zenon DEF Agrees
<1> QED
  BY <1>1, <1>2, <1>3, Zenon DEF SameInfo, SameString

\* One field more is stored.
LEMMA StoredNext ==
  ASSUME NEW in, NEW e \in 1..MAX_ARRAY, NEW f \in Fields, NEW infos, Stored(infos, in, e, f),
         NEW v \in Type(Schema[f].name),
         IF Schema[f].kind = "str" THEN SameString(v, in.infos[e].ssid)
         ELSE v = in.infos[e][Schema[f].name]
  PROVE  Stored([infos EXCEPT ![e][Schema[f].name] = v], in, e, f + 1)
<1> DEFINE name == Schema[f].name
           x == infos[e]
           y == [x EXCEPT ![name] = v]
           new == [infos EXCEPT ![e][name] = v]
           z == in.infos[e]
<1>1. infos \in [1..MAX_ARRAY -> Info] /\ x \in Info /\ name \in Names
  <2>1. name \in Names
    BY SchemaKinds, SMT DEF Names
  <2> QED
    BY <2>1, Zenon DEF Stored
<1>2. y \in Info /\ y[name] = v /\ \A m \in Names \ {name} : y[m] = x[m]
  <2>1. v \in Type(name)
    BY Zenon
  <2>2. y = With(x, name, v)
    BY Zenon DEF With
  <2> HIDE DEF name, x, y
  <2> QED
    <3>1. /\ With(x, name, v) \in Info
          /\ With(x, name, v)[name] = v
          /\ \A m \in Names \ {name} : With(x, name, v)[m] = x[m]
      BY <1>1, <2>1, InfoStored, ZenonT(30)
    <3> QED
      BY <2>2, <3>1, Zenon
<1>3. new = [infos EXCEPT ![e] = y]
  BY Zenon
<1> HIDE DEF y, new, x
<1>4. /\ new \in [1..MAX_ARRAY -> Info] /\ new[e] = y
      /\ \A i \in 1..MAX_ARRAY \ {e} : new[i] = infos[i]
  BY <1>1, <1>2, <1>3, Zenon
<1>5. ASSUME NEW i \in 1..e - 1 PROVE SameInfo(new[i], in.infos[i])
  <2>1. i \in 1..MAX_ARRAY \ {e}
    BY SMT DEF MAX_ARRAY
  <2> QED
    BY <1>4, <2>1, Zenon DEF Stored
<1>6. ASSUME NEW i \in e + 1..MAX_ARRAY PROVE new[i] = Stale
  <2>1. i \in 1..MAX_ARRAY \ {e}
    BY SMT DEF MAX_ARRAY
  <2> QED
    BY <1>4, <2>1, Zenon DEF Stored
<1>7. ASSUME NEW j \in 1..(f + 1) - 1 PROVE Agrees(y, z, j)
  <2>1. j \in Fields /\ (j = f \/ j \in 1..f - 1)
    BY SMT DEF Fields
  <2>2. CASE j = f
    <3>1. Schema[f].kind = "str" => name = "ssid"
      BY SchemaKinds, SMT
    <3> QED
      BY <1>2, <2>2, <3>1, Zenon DEF Agrees
  <2>3. CASE j # f
    <3>1. Agrees(x, z, j)
      BY <2>1, <2>3, Zenon DEF Stored, x
    <3>2. Schema[j].name \in Names /\ (Schema[j].kind = "str" => Schema[j].name = "ssid")
      BY <2>1, SchemaKinds, SMT DEF Names
    <3>3. Schema[j].name # name
      BY <2>1, <2>3, SchemaOnce, Zenon
    <3>4. y[Schema[j].name] = x[Schema[j].name]
      BY <1>2, <3>2, <3>3, Zenon
    <3> QED
      BY <3>1, <3>2, <3>4, Zenon DEF Agrees
  <2> QED
    BY <2>2, <2>3, Zenon
<1> QED
  BY <1>4, <1>5, <1>6, <1>7, Zenon DEF Stored, new

(***************************************************************************)
(* Decoding.                                                               *)
(***************************************************************************)
\* Bytes that are not the encoder's: only that the reader stays a reader.
LEMMA StrayInv ==
  ASSUME UsageInv, pc = "read", ~Own, ReaderOK(reader'), reader'.data = reader.data,
         pc' \in {"read", "done"}, UNCHANGED <<input, writer, encoded>>
  PROVE  UsageInv'
<1>1. ~Own'
  BY Zenon DEF Own
<1>2. Encoding'
  BY SMT DEF UsageInv, Encoding
<1>3. RoundTrip'
  BY <1>1, Zenon DEF RoundTrip
<1>4. pc' \in {"encode", "write", "decode", "read", "done"}
  BY SMT
<1> QED
  BY <1>1, <1>2, <1>3, <1>4, Zenon DEF UsageInv

LEMMA ContinueGoes ==
  ASSUME UsageInv, pc = "read", NEW r, Goes(reader, r), Continue(r)
  PROVE  /\ pc' \in {"read", "done"} /\ ReaderOK(reader') /\ reader'.data = reader.data
<1>1. reader' = r /\ pc' \in {"read", "done"}
  BY Zenon DEF Continue, Finish
<1> QED
  BY <1>1, Zenon DEF Goes

LEMMA ContinueInv ==
  ASSUME UsageInv, pc = "read", Own, NEW r,
         After(r, writer.buffer, input, Pos(input, elem, field) + 1),
         Stored(out_infos', input, elem, field + 1),
         Continue(r), UNCHANGED <<input, writer, encoded>>
  PROVE  UsageInv'
<1> DEFINE n == Len(input.infos)
<1>1. /\ InputsOK /\ input \in Inputs /\ input' = input /\ InputOK(input) /\ Encoding
      /\ n \in Nat /\ n <= MAX_ARRAY /\ count = n /\ elem \in 1..n /\ field \in 0..9
      /\ \A i \in 1..n : input.infos[i] \in Info
  BY InputIsOK, Zenon DEF UsageInv, Reading
<1>2. /\ reader' = r /\ pc' \in {"read", "done"} /\ writer' = writer /\ encoded' = encoded
  BY Zenon DEF Continue, Finish
<1>3. ReaderOK(r) /\ r.data = writer.buffer /\ r.error = "ok"
  BY Zenon DEF After, Open
<1>4. Encoding'
  BY <1>1, <1>2, SMT DEF Encoding
<1>5. Len(Schema) = 9
  BY SchemaIs, Zenon
<1>6. ASSUME pc' = "read", Reading' PROVE UsageInv'
  <2>1. RoundTrip'
    BY <1>6, SMT DEF RoundTrip
  <2> QED
    BY <1>1, <1>2, <1>3, <1>4, <1>6, <2>1, SMT DEF UsageInv
<1>7. CASE field < 9
  <2>1. field' = field + 1 /\ pc' = pc /\ elem' = elem /\ count' = count
    BY <1>5, <1>7, Zenon DEF Continue
  <2>2. field + 1 \in 0..9 /\ Pos(input, elem, field) + 1 = Pos(input, elem, field + 1)
    <3>1. field + 1 \in 0..9 /\ elem \in Int /\ field \in Int
      BY <1>1, <1>7, SMT
    <3> QED
      BY <3>1, PosNext, Zenon
  <2>3. Reading'
    BY <1>1, <1>2, <2>1, <2>2, Zenon DEF Reading
  <2> QED
    BY <1>6, <2>1, <2>3, Zenon
<1>8. ASSUME ~(field < 9)
      PROVE  /\ field = 9 /\ elem \in Int
             /\ Pos(input, elem, field) + 1 = Pos(input, elem + 1, 0)
             /\ \A i \in 1..elem : SameInfo(out_infos'[i], input.infos[i])
             /\ \A i \in elem + 1..MAX_ARRAY : out_infos'[i] = Stale
             /\ out_infos' \in [1..MAX_ARRAY -> Info]
  <2>1. field = 9 /\ elem \in Int /\ elem \in 1..MAX_ARRAY
    BY <1>1, <1>8, SMT DEF MAX_ARRAY
  <2>2. (field + 1) - 1 = 9
    BY <2>1, SMT
  <2>3. out_infos'[elem] \in Info /\ input.infos[elem] \in Info
    BY <1>1, <2>1, Zenon DEF Stored
  <2>4. SameInfo(out_infos'[elem], input.infos[elem])
    <3>1. \A j \in Fields : Agrees(out_infos'[elem], input.infos[elem], j)
      BY <2>2, Zenon DEF Stored, Fields
    <3> QED
      BY <2>3, <3>1, AllAgree, Zenon
  <2>5. ASSUME NEW i \in 1..elem PROVE SameInfo(out_infos'[i], input.infos[i])
    <3>1. i = elem \/ i \in 1..elem - 1
      BY <2>1, SMT
    <3> QED
      BY <2>4, <3>1, Zenon DEF Stored
  <2>6. Pos(input, elem, field) + 1 = Pos(input, elem + 1, 0)
    BY <2>1, PosNext, Zenon
  <2> QED
    BY <2>1, <2>5, <2>6, Zenon DEF Stored
<1>9. CASE ~(field < 9) /\ elem < count
  <2>1. field' = 0 /\ elem' = elem + 1 /\ pc' = pc /\ count' = count
    BY <1>5, <1>9, Zenon DEF Continue
  <2>2. elem + 1 \in 1..n /\ 0 \in 0..9 /\ (elem + 1) - 1 = elem
    BY <1>1, <1>9, SMT
  <2>3. Stored(out_infos', input, elem + 1, 0)
    <3>1. \A j \in 1..0 - 1 : FALSE
      BY SMT
    <3>2. \A i \in (elem + 1) + 1..MAX_ARRAY : i \in elem + 1..MAX_ARRAY
      BY <1>8, <1>9, SMT DEF MAX_ARRAY
    <3> QED
      BY <1>8, <1>9, <2>2, <3>1, <3>2, Zenon DEF Stored
  <2>4. Reading'
    BY <1>1, <1>2, <1>8, <1>9, <2>1, <2>2, <2>3, Zenon DEF Reading
  <2> QED
    BY <1>6, <2>1, <2>4, Zenon
<1>10. CASE ~(field < 9) /\ ~(elem < count)
  <2>1. Finish(r, count)
    BY <1>5, <1>10, Zenon DEF Continue
  <2>2. pc' = "done" /\ ret' = "ok"
    BY <1>3, <2>1, Zenon DEF Finish, Result, mpack_reader_destroy
  <2>3. input.array => out_count' = n
    BY <1>1, <2>1, <2>2, Zenon DEF Finish
  <2>4. elem = n
    BY <1>1, <1>10, SMT
  <2>5. RoundTrip'
    BY <1>1, <1>8, <1>10, <2>2, <2>3, <2>4, Zenon DEF RoundTrip
  <2>6. pc' # "read"
    BY <2>2, SMT
  <2> QED
    BY <1>1, <1>2, <1>4, <2>2, <2>5, <2>6, Zenon DEF UsageInv
<1> QED
  BY <1>7, <1>9, <1>10, Zenon

LEMMA NothingStored ==
  ASSUME InputsOK, NEW in
  PROVE  Stored(Fill(MAX_ARRAY, Stale), in, 1, 0)
<1>1. Stale \in Info
  BY Zenon DEF InputsOK, Info
<1>2. Fill(MAX_ARRAY, Stale) = [i \in 1..MAX_ARRAY |-> Stale]
  BY Zenon DEF Fill
<1>3. (\A i \in 1..1 - 1 : FALSE) /\ (\A j \in 1..0 - 1 : FALSE)
  BY SMT
<1>4. \A i \in 1 + 1..MAX_ARRAY : i \in 1..MAX_ARRAY
  BY SMT DEF MAX_ARRAY
<1> QED
  BY <1>1, <1>2, <1>3, <1>4, Zenon DEF Stored

\* The first call on the encoder's bytes: the header of an array is its length.
LEMMA FirstReads ==
  ASSUME NEW in, InputOK(in), Len(in.infos) >= 1, NEW s \in Seq(Byte), Written(Total(in), s, in)
  PROVE  LET r == mpack_reader_init_data(s)
             a == mpack_expect_array(r)
         IN /\ ~in.array => After(r, s, in, Pos(in, 1, 0))
            /\ in.array => a.value = Len(in.infos) /\ After(a.reader, s, in, Pos(in, 1, 0))
<1> DEFINE r == mpack_reader_init_data(s)
           a == mpack_expect_array(r)
           n == Len(in.infos)
<1>1. PICK calls, off : Laid(calls, off, s, in) /\ Len(calls) = Total(in)
  BY Zenon DEF Written
<1>2. Open(r) /\ r.data = s /\ r.pos = 0
  <2>1. ReaderOK(r)
    BY StartReader, Zenon
  <2> QED
    BY <2>1, SMT DEF Open, mpack_reader_init_data
<1>3. off[0] = 0
  BY <1>1, Zenon DEF Laid, LaidOut
<1>4. n \in Nat /\ 1 \in 1..n /\ 0 \in 0..9 /\ n <= MAX_ARRAY
  BY SMT DEF InputOK
<1>5. Pos(in, 1, 0) \in Nat /\ Pos(in, 1, 0) < Len(calls)
  BY <1>1, <1>4, PosBelow, Zenon
<1> HIDE DEF r, n
<1>6. CASE ~in.array
  <2>1. Pos(in, 1, 0) = 0
    BY <1>6, SMT DEF Pos
  <2> QED
    BY <1>1, <1>2, <1>3, <1>6, <2>1, Zenon DEF After, r
<1>7. CASE in.array
  <2>1. Pos(in, 1, 0) = 1
    BY <1>7, SMT DEF Pos
  <2>2. Len(calls) >= 1 /\ 0 < Len(calls) /\ 0 \in Nat /\ 0 + 1 = 1
    <3>1. Len(calls) \in Nat
      BY <1>1, SMT DEF Laid
    <3> QED
      BY <1>5, <2>1, <3>1, SMT
  <2>3. calls[1] = Header(n)
    BY <1>1, <1>7, <2>2, Zenon DEF Laid, n
  <2>4. Header(n).op = "array" /\ Header(n).v = n
    BY <1>4, HeaderIsCall, Zenon
  <2>5. StandsBefore(r, calls, off, in, 0)
    <3>1. calls[0 + 1].op # "bin"
      BY <2>2, <2>3, <2>4, SMT
    <3> QED
      BY <1>1, <1>2, <1>3, <2>2, <3>1, Zenon DEF StandsBefore
  <2>6. ReadsOne(r, ExpectCall(r, "array", WIFI_SSID_MAX_LEN), Header(n), off[1])
    <3>1. ReadsOne(r, ExpectCall(r, calls[0 + 1].op, WIFI_SSID_MAX_LEN), calls[0 + 1], off[0 + 1])
      BY <2>5, LaidReads, Zenon
    <3> QED
      BY <2>2, <2>3, <2>4, <3>1, Zenon
  <2>7. ExpectCall(r, "array", WIFI_SSID_MAX_LEN) = a
    BY SMT DEF ExpectCall
  <2> HIDE DEF a
  <2>8. Open(a.reader) /\ a.reader.data = s /\ a.reader.pos = off[1] /\ a.value = n
    BY <1>2, <2>4, <2>6, <2>7, Zenon DEF ReadsOne
  <2>9. After(a.reader, s, in, 1)
    BY <1>1, <2>8, Zenon DEF After
  <2> QED
    BY <1>7, <2>1, <2>8, <2>9, Zenon DEF a, r, n
<1> QED
  BY <1>6, <1>7, Zenon DEF r, n

LEMMA DecodeInv ==
  ASSUME UsageInv, NEW bytes \in Received, mpack_decode(bytes)
  PROVE  UsageInv'
<1> DEFINE n == Len(input.infos)
           r == mpack_reader_init_data(bytes)
           a == mpack_expect_array(r)
<1>1. /\ InputsOK /\ input \in Inputs /\ input' = input /\ InputOK(input) /\ Encoding
      /\ n \in Nat /\ n <= MAX_ARRAY /\ pc = "decode" /\ n >= 1
      /\ Written(Total(input), writer.buffer, input)
      /\ elem = 1 /\ field = 0 /\ out_infos = Fill(MAX_ARRAY, Stale)
      /\ writer' = writer /\ encoded' = encoded /\ out_infos' = out_infos
      /\ WriterOK(writer)
  BY InputIsOK, Zenon DEF UsageInv, Encoding, mpack_decode
<1>2. bytes \in Seq(Byte)
  <2>1. writer.buffer \in Seq(Byte)
    BY <1>1, WriterFields, Zenon
  <2>2. bytes = writer.buffer \/ bytes \in Foreign
    BY Zenon DEF Received
  <2> QED
    BY <1>1, <2>1, <2>2, Zenon DEF InputsOK
<1>3. ReaderOK(r) /\ r.data = bytes
  BY <1>2, StartReader, SMT DEF mpack_reader_init_data
<1> HIDE DEF r
<1>4. ReaderOK(a.reader) /\ a.reader.data = bytes
  <2>1. "array" \in Ops /\ WIFI_SSID_MAX_LEN \in Nat
    BY SsidConstants, SMT DEF Ops
  <2>2. ExpectCall(r, "array", WIFI_SSID_MAX_LEN) = a
    BY SMT DEF ExpectCall
  <2>3. Goes(r, ExpectCall(r, "array", WIFI_SSID_MAX_LEN).reader)
    BY <1>3, <2>1, CallGoes, Zenon
  <2> QED
    BY <1>3, <2>2, <2>3, Zenon DEF Goes
<1> HIDE DEF a
<1>5. \/ /\ ~input.array /\ pc' = "read" /\ reader' = r /\ count' = 1
         /\ elem' = elem /\ field' = field
      \/ /\ input.array /\ a.reader.error = "ok" /\ a.value > 0
         /\ pc' = "read" /\ reader' = a.reader /\ count' = a.value
         /\ elem' = elem /\ field' = field
      \/ /\ input.array /\ ~(a.reader.error = "ok" /\ a.value > 0)
         /\ Finish(a.reader, a.value)
  BY Zenon DEF mpack_decode, r, a
<1>6. ReaderOK(reader') /\ reader'.data = bytes /\ pc' \in {"read", "done"}
  BY <1>3, <1>4, <1>5, Zenon DEF Finish
<1>7. Encoding'
  BY <1>1, <1>6, SMT DEF Encoding
<1>8. CASE bytes = writer.buffer
  <2>1. /\ ~input.array => After(r, writer.buffer, input, Pos(input, 1, 0))
        /\ input.array => a.value = n /\ After(a.reader, writer.buffer, input, Pos(input, 1, 0))
    BY <1>1, <1>2, <1>8, FirstReads, Zenon DEF r, a
  <2>2. input.array => a.reader.error = "ok" /\ a.value > 0
    <3>1. input.array => a.reader.error = "ok" /\ a.value = n
      BY <2>1, Zenon DEF After, Open
    <3> HIDE DEF n
    <3> QED
      BY <1>1, <3>1, SMT
  <2>3. ~input.array => n = 1
    BY <1>1, Zenon DEF InputOK
  <2>4. /\ pc' = "read" /\ count' = n /\ elem' = 1 /\ field' = 0
        /\ After(reader', writer.buffer, input, Pos(input, 1, 0))
    BY <1>1, <1>5, <2>1, <2>2, <2>3, Zenon
  <2>5. 1 \in 1..n /\ 0 \in 0..9
    BY <1>1, SMT
  <2>6. Stored(out_infos', input, 1, 0)
    BY <1>1, NothingStored, Zenon
  <2>7. Reading'
    BY <1>1, <2>4, <2>5, <2>6, Zenon DEF Reading
  <2>8. RoundTrip'
    BY <2>4, SMT DEF RoundTrip
  <2> QED
    BY <1>1, <1>6, <1>7, <2>7, <2>8, Zenon DEF UsageInv
<1>9. CASE bytes # writer.buffer
  <2>1. ~Own'
    BY <1>1, <1>6, <1>9, Zenon DEF Own
  <2>2. RoundTrip'
    BY <2>1, Zenon DEF RoundTrip
  <2>3. pc' \in {"encode", "write", "decode", "read", "done"}
    BY <1>6, SMT
  <2> QED
    BY <1>1, <1>6, <1>7, <2>1, <2>2, <2>3, Zenon DEF UsageInv
<1> QED
  BY <1>8, <1>9, Zenon

LEMMA AnyCallGoes ==
  ASSUME UsageInv, pc = "read", NEW op \in Ops
  PROVE  ReaderOK(reader) /\ Goes(reader, ExpectCall(reader, op, WIFI_SSID_MAX_LEN).reader)
<1>1. ReaderOK(reader)
  BY Zenon DEF UsageInv
<1> QED
  BY <1>1, SsidConstants, CallGoes, Zenon

\* On the encoder's bytes the call for a field gives the value that was written.
LEMMA FieldReads ==
  ASSUME UsageInv, pc = "read", Own, field # 0
  PROVE  LET x == input.infos[elem]
             f == Schema[field]
             e == ExpectCall(reader, Op(f.kind), WIFI_SSID_MAX_LEN)
         IN /\ field \in Fields /\ x \in Info /\ elem \in 1..MAX_ARRAY
            /\ Stored(out_infos, input, elem, field)
            /\ e.value = Value(f, x)
            /\ After(e.reader, writer.buffer, input, Pos(input, elem, field) + 1)
            /\ f.name \in Names
            /\ f.kind # "str" => e.value = x[f.name] /\ e.value \in Type(f.name)
<1> DEFINE x == input.infos[elem]
           f == Schema[field]
           c == FieldCall(field, x)
           e == ExpectCall(reader, Op(f.kind), WIFI_SSID_MAX_LEN)
<1>1. /\ InputOK(input) /\ elem \in 1..Len(input.infos) /\ field \in 0..9
      /\ Stored(out_infos, input, elem, field)
      /\ After(reader, writer.buffer, input, Pos(input, elem, field))
      /\ x \in Info /\ Len(input.infos) \in Nat /\ Len(input.infos) <= MAX_ARRAY
  BY InputIsOK, Zenon DEF UsageInv, Reading
<1>2. field \in Fields /\ elem \in 1..MAX_ARRAY
  BY <1>1, SMT DEF Fields, MAX_ARRAY
<1>3. Item(x, field) = c
  BY Zenon DEF Item
<1>4. /\ c.op = Op(f.kind) /\ c.v = Value(f, x) /\ f.name \in Names
      /\ f.kind # "str" => c.v = x[f.name] /\ c.v \in Type(f.name)
  BY <1>1, <1>2, FieldIsCall, Zenon
<1> HIDE DEF c
<1>5. /\ ExpectCall(reader, c.op, WIFI_SSID_MAX_LEN).value = c.v
      /\ After(ExpectCall(reader, c.op, WIFI_SSID_MAX_LEN).reader, writer.buffer, input,
               Pos(input, elem, field) + 1)
  BY <1>1, <1>3, ItemReads, Zenon
<1>6. /\ e.value = c.v
      /\ After(e.reader, writer.buffer, input, Pos(input, elem, field) + 1)
  BY <1>4, <1>5, Zenon
<1> HIDE DEF e, x, f
<1>7. f.kind # "str" => e.value = x[f.name] /\ e.value \in Type(f.name)
  BY <1>4, <1>6, Zenon
<1> QED
  BY <1>1, <1>2, <1>4, <1>6, <1>7, Zenon DEF e, x, f

LEMMA HeaderInv ==
  ASSUME UsageInv, ReadHeader
  PROVE  UsageInv'
<1> DEFINE e == mpack_expect_array(reader)
           r == mpack_expect_array_match(reader, Len(Schema))
<1>1. /\ pc = "read" /\ field = 0 /\ Continue(r) /\ out_infos' = out_infos
      /\ UNCHANGED <<input, writer, encoded>>
  BY Zenon DEF ReadHeader
<1>2. e = ExpectCall(reader, "array", WIFI_SSID_MAX_LEN) /\ "array" \in Ops
  BY SMT DEF ExpectCall, Ops
<1>3. r = IF e.value = Len(Schema) THEN e.reader ELSE mpack_reader_flag_error(e.reader, "type")
  BY Zenon DEF mpack_expect_array_match
<1> HIDE DEF e, r
<1>4. CASE Own
  <2>1. /\ InputOK(input) /\ elem \in 1..Len(input.infos) /\ field \in 0..9
        /\ Stored(out_infos, input, elem, field)
        /\ After(reader, writer.buffer, input, Pos(input, elem, field))
    BY <1>1, <1>4, InputIsOK, Zenon DEF UsageInv, Reading
  <2>2. Item(input.infos[elem], field) = Header(Len(Schema))
    BY <1>1, Zenon DEF Item
  <2>3. Header(Len(Schema)).op = "array" /\ Header(Len(Schema)).v = Len(Schema)
    BY SMT DEF Header
  <2>4. e.value = Len(Schema) /\ After(e.reader, writer.buffer, input, Pos(input, elem, field) + 1)
    <3> DEFINE c == Item(input.infos[elem], field)
    <3>1. c.op = "array" /\ c.v = Len(Schema)
      BY <2>2, <2>3, Zenon
    <3>2. /\ ExpectCall(reader, c.op, WIFI_SSID_MAX_LEN).value = c.v
          /\ After(ExpectCall(reader, c.op, WIFI_SSID_MAX_LEN).reader, writer.buffer, input,
                   Pos(input, elem, field) + 1)
      BY <2>1, ItemReads, Zenon
    <3> HIDE DEF c
    <3> QED
      BY <1>2, <3>1, <3>2, Zenon
  <2>5. r = e.reader
    BY <1>3, <2>4, Zenon
  <2>6. Stored(out_infos', input, elem, field + 1)
    <3>1. \A j \in 1..(field + 1) - 1 : FALSE
      BY <1>1, SMT
    <3> QED
      BY <1>1, <2>1, <3>1, Zenon DEF Stored
  <2> QED
    BY <1>1, <1>4, <2>4, <2>5, <2>6, ContinueInv, Zenon
<1>5. CASE ~Own
  <2>1. ReaderOK(reader) /\ Goes(reader, e.reader)
    BY <1>1, <1>2, AnyCallGoes, Zenon
  <2>2. "type" \in Errors /\ "type" # "ok"
    BY SMT DEF Errors
  <2>3. Goes(reader, r)
    <3>1. ReaderOK(e.reader)
      BY <2>1, Zenon DEF Goes
    <3>2. Goes(e.reader, mpack_reader_flag_error(e.reader, "type"))
      BY <2>2, <3>1, FlagGoes, Zenon
    <3> QED
      BY <1>3, <2>1, <3>2, GoesOn, Zenon
  <2> QED
    BY <1>1, <1>5, <2>3, ContinueGoes, StrayInv, Zenon
<1> QED
  BY <1>4, <1>5, Zenon

LEMMA NumberInv ==
  ASSUME UsageInv, ReadNumber
  PROVE  UsageInv'
<1> DEFINE f == Schema[field]
           e == ExpectCall(reader, f.kind, WIFI_SSID_MAX_LEN)
<1>1. /\ pc = "read" /\ field # 0 /\ f.kind \in {"u8", "u16", "i32"}
      /\ UNCHANGED <<input, writer, encoded>>
  BY Zenon DEF ReadNumber
<1> HIDE DEF f
<1>2. /\ e = CASE f.kind = "u8" -> mpack_expect_u8(reader)
               [] f.kind = "u16" -> mpack_expect_u16(reader)
               [] OTHER -> mpack_expect_i32(reader)
      /\ f.kind \in Ops /\ Op(f.kind) = f.kind /\ f.kind # "str"
  BY <1>1, SMT DEF ExpectCall, Ops, Op
<1> HIDE DEF e
<1>3. out_infos' = [out_infos EXCEPT ![elem][f.name] = e.value] /\ Continue(e.reader)
  BY <1>2, Zenon DEF ReadNumber, Store, f
<1>4. CASE Own
  <2>1. /\ field \in Fields /\ elem \in 1..MAX_ARRAY
        /\ Stored(out_infos, input, elem, field)
        /\ After(e.reader, writer.buffer, input, Pos(input, elem, field) + 1)
        /\ e.value = input.infos[elem][f.name] /\ e.value \in Type(f.name)
    BY <1>1, <1>2, <1>4, FieldReads, Zenon DEF e, f
  <2>2. Stored(out_infos', input, elem, field + 1)
    BY <1>2, <1>3, <2>1, StoredNext, Zenon DEF f
  <2> QED
    BY <1>1, <1>3, <1>4, <2>1, <2>2, ContinueInv, Zenon
<1>5. CASE ~Own
  <2>1. Goes(reader, e.reader)
    BY <1>1, <1>2, AnyCallGoes, Zenon DEF e
  <2> QED
    BY <1>1, <1>3, <1>5, <2>1, ContinueGoes, StrayInv, Zenon
<1> QED
  BY <1>4, <1>5, Zenon

LEMMA SameLength ==
  ASSUME NEW name \in {"ipv4", "ipv6", "bssid"}, NEW v \in Type(name), NEW w \in Type(name)
  PROVE  Len(v) = Len(w)
<1>1. PICK n \in Nat : n <= WIFI_SSID_MAX_LEN /\ Type(name) = Array(n)
  <2>1. /\ IPV4_LEN \in Nat /\ IPV6_LEN \in Nat /\ WIFI_BT_MAC_ADDRESS_LEN \in Nat
        /\ IPV4_LEN <= WIFI_SSID_MAX_LEN /\ IPV6_LEN <= WIFI_SSID_MAX_LEN
        /\ WIFI_BT_MAC_ADDRESS_LEN <= WIFI_SSID_MAX_LEN
    BY SMT DEF IPV4_LEN, IPV6_LEN, WIFI_BT_MAC_ADDRESS_LEN, WIFI_SSID_MAX_LEN
  <2> QED
    BY <2>1, TypeIs, Zenon
<1>2. Len(v) = n /\ Len(w) = n
  BY <1>1, FixedArray, Zenon
<1> QED
  BY <1>2, Zenon

LEMMA BinInv ==
  ASSUME UsageInv, ReadBin
  PROVE  UsageInv'
<1> DEFINE f == Schema[field]
           e == ExpectCall(reader, "bin", WIFI_SSID_MAX_LEN)
<1>1. /\ pc = "read" /\ field # 0 /\ f.kind = "bin"
      /\ UNCHANGED <<input, writer, encoded>>
  BY Zenon DEF ReadBin
<1> HIDE DEF f
<1>2. /\ e = mpack_expect_bin_buf(reader, WIFI_SSID_MAX_LEN)
      /\ "bin" \in Ops /\ Op(f.kind) = "bin" /\ f.kind # "str"
  BY <1>1, SMT DEF ExpectCall, Ops, Op
<1> HIDE DEF e
<1>3. IF Len(e.value) = Len(Stale[f.name])
      THEN out_infos' = [out_infos EXCEPT ![elem][f.name] = e.value] /\ Continue(e.reader)
      ELSE Break(e.reader)
  BY <1>2, Zenon DEF ReadBin, Store, f
<1>4. CASE Own
  <2>1. /\ field \in Fields /\ elem \in 1..MAX_ARRAY
        /\ Stored(out_infos, input, elem, field)
        /\ After(e.reader, writer.buffer, input, Pos(input, elem, field) + 1)
        /\ e.value = input.infos[elem][f.name] /\ e.value \in Type(f.name) /\ f.name \in Names
    BY <1>1, <1>2, <1>4, FieldReads, Zenon DEF e, f
  <2>2. f.name \in {"ipv4", "ipv6", "bssid"}
    BY <1>1, <2>1, SchemaKinds, SMT DEF f
  <2>3. Stale[f.name] \in Type(f.name)
    <3>1. Stale \in Info
      BY Zenon DEF UsageInv, InputsOK, Info
    <3> QED
      BY <2>1, <3>1, InfoFields, Zenon
  <2>4. Len(e.value) = Len(Stale[f.name])
    BY <2>1, <2>2, <2>3, SameLength, Zenon
  <2>5. out_infos' = [out_infos EXCEPT ![elem][f.name] = e.value] /\ Continue(e.reader)
    BY <1>3, <2>4, Zenon
  <2>6. Stored(out_infos', input, elem, field + 1)
    BY <1>2, <2>1, <2>5, StoredNext, Zenon DEF f
  <2> QED
    BY <1>1, <1>4, <2>1, <2>5, <2>6, ContinueInv, Zenon
<1>5. CASE ~Own
  <2>1. ReaderOK(reader) /\ Goes(reader, e.reader)
    BY <1>1, <1>2, AnyCallGoes, Zenon DEF e
  <2>2. CASE Len(e.value) = Len(Stale[f.name])
    BY <1>1, <1>3, <1>5, <2>1, <2>2, ContinueGoes, StrayInv, Zenon
  <2>3. CASE Len(e.value) # Len(Stale[f.name])
    <3> DEFINE q == mpack_reader_flag_error(e.reader, "data")
    <3>1. reader' = q /\ pc' \in {"read", "done"}
      BY <1>3, <2>3, Zenon DEF Break, Finish
    <3>2. "data" \in Errors /\ "data" # "ok"
      BY SMT DEF Errors
    <3>3. Goes(e.reader, q)
      BY <2>1, <3>2, FlagGoes, Zenon DEF Goes
    <3>4. Goes(reader, q)
      BY <2>1, <3>3, GoesOn, Zenon
    <3> QED
      BY <1>1, <1>5, <3>1, <3>4, StrayInv, Zenon DEF Goes
  <2> QED
    BY <2>2, <2>3, Zenon
<1> QED
  BY <1>4, <1>5, Zenon

LEMMA SsidInv ==
  ASSUME UsageInv, ReadSsid
  PROVE  UsageInv'
<1> DEFINE f == Schema[field]
           e == ExpectCall(reader, "bin", WIFI_SSID_MAX_LEN)
           old == out_infos[elem].ssid
<1>1. /\ pc = "read" /\ field # 0 /\ f.kind = "str"
      /\ UNCHANGED <<input, writer, encoded>>
  BY Zenon DEF ReadSsid
<1> HIDE DEF f
<1>2. /\ e = mpack_expect_bin_buf(reader, WIFI_SSID_MAX_LEN)
      /\ "bin" \in Ops /\ Op(f.kind) = "bin"
  BY <1>1, SMT DEF ExpectCall, Ops, Op
<1> HIDE DEF e
<1>3. /\ out_infos' = [out_infos EXCEPT ![elem]["ssid"] = Terminated(old, e.value)]
      /\ Continue(e.reader)
  BY <1>2, Zenon DEF ReadSsid, Store
<1>4. CASE Own
  <2> DEFINE x == input.infos[elem]
  <2>1. /\ field \in Fields /\ elem \in 1..MAX_ARRAY /\ x \in Info
        /\ Stored(out_infos, input, elem, field)
        /\ After(e.reader, writer.buffer, input, Pos(input, elem, field) + 1)
        /\ e.value = Value(f, x)
    BY <1>1, <1>2, <1>4, FieldReads, Zenon DEF e, f
  <2>2. f.name = "ssid" /\ "ssid" \in Names
    BY <1>1, <2>1, SchemaKinds, SMT DEF f, Names
  <2>3. e.value = SsidBytes(x.ssid)
    BY <1>1, <2>1, <2>2, Zenon DEF Value
  <2>4. x.ssid \in SsidArray /\ old \in SsidArray
    <3>1. out_infos[elem] \in Info
      BY <2>1, Zenon DEF Stored
    <3> QED
      BY <2>1, <2>2, <3>1, InfoFields, TypeIs, Zenon
  <2>5. /\ Terminated(old, e.value) \in Type("ssid")
        /\ SameString(Terminated(old, e.value), x.ssid)
    BY <2>3, <2>4, SsidStored, TypeIs, Zenon
  <2>6. Stored(out_infos', input, elem, field + 1)
    BY <1>1, <1>3, <2>1, <2>2, <2>5, StoredNext, Zenon DEF f
  <2> QED
    BY <1>1, <1>3, <1>4, <2>1, <2>6, ContinueInv, Zenon
<1>5. CASE ~Own
  <2>1. Goes(reader, e.reader)
    BY <1>1, <1>2, AnyCallGoes, Zenon DEF e
  <2> QED
    BY <1>1, <1>3, <1>5, <2>1, ContinueGoes, StrayInv, Zenon
<1> QED
  BY <1>4, <1>5, Zenon

LEMMA UsageStep == UsageInv /\ [Next]_vars => UsageInv'
<1> SUFFICES ASSUME UsageInv, [Next]_vars PROVE UsageInv'
  OBVIOUS
<1>1. CASE UNCHANGED vars
  <2>1. Encoding'
    BY <1>1, SMT DEF UsageInv, Encoding, vars
  <2>2. pc = "read" => ReaderOK(reader') /\ (Own' => Reading')
    BY <1>1, Zenon DEF UsageInv, Own, Reading, vars
  <2>3. RoundTrip'
    BY <1>1, Zenon DEF UsageInv, RoundTrip, Own, vars
  <2> QED
    BY <1>1, <2>1, <2>2, <2>3, SMT DEF UsageInv, vars
<1>2. CASE \E bytes \in Received : mpack_decode(bytes)
  BY <1>2, DecodeInv, Zenon
<1> QED
  BY <1>1, <1>2, EncodeInv, WriteItemInv, HeaderInv, NumberInv, BinInv, SsidInv, Zenon DEF Next

\* What mpack_decode or mpack_decode_array makes of the bytes of mpack_encode or
\* mpack_encode_array are the structs that were encoded, field for field and whatever the
\* caller's structs held before; those beyond the count are not touched.
THEOREM OwnBytesComeBack ==
  ASSUME InputsOK
  PROVE  Spec => []RoundTrip
<1>1. Init => UsageInv
  BY UsageInit, Zenon
<1>2. UsageInv /\ [Next]_vars => UsageInv'
  BY UsageStep, Zenon
<1>3. UsageInv => RoundTrip
  BY Zenon DEF UsageInv
<1> QED
  BY <1>1, <1>2, <1>3, PTL DEF Spec
=============================================================================
