------------------------------- MODULE MpackNode -------------------------------
(***************************************************************************)
(* mpack's node API, the getters: what a caller learns from the nodes of a *)
(* tree that mpack_tree_parse has parsed.  The caller has the root and the *)
(* node it was given last; the tree keeps the first error.                 *)
(*                                                                         *)
(* A node is [type, len, v, bytes, children], as MpackTreeDoc has it: v is *)
(* a number's 64 bits from the highest byte on, children are nodes.  What  *)
(* comes of converting a number to float or double is named, not computed. *)
(***************************************************************************)
EXTENDS MpackFormat, FiniteSetsExt

CONSTANTS
  WithMalloc,  \* MPACK_MALLOC: the _alloc functions are there
  Docs,       \* roots
  Nodes,      \* the roots and all the nodes under them
  Numbers,    \* keys that integers are looked up by, 8 bytes each
  Strings,    \* keys
  Names,      \* a sequence of strings for enumerations
  Indices,
  BufferSizes \* what the caller has to copy to

VARIABLES
  flagged,  \* of the tree
  root, held,
  from,   \* the node that was asked
  fn,     \* the function that was called
  arguments,  \* [number, string, index, size, form]: its arguments, and for a lookup which of
          \* its three forms it is
  out     \* [type, v, data, count, flag]: what it returned or put into the buffer

getterVars == <<flagged, root, held, from, fn, arguments, out>>

NoArgs == [number |-> <<>>, string |-> <<>>, index |-> 0, size |-> 0, form |-> ""]
Nothing == [type |-> "none", v |-> <<>>, data |-> <<>>, count |-> 0, flag |-> FALSE]
Nil == [type |-> "nil", len |-> 0, v |-> <<>>, bytes |-> <<>>, children |-> <<>>]
MissingNode == [Nil EXCEPT !.type = "missing"]

\* Nodes are those of a parsed tree, and numbers have 64 bits.
Word == [1..8 -> Byte]
NodesOK ==
  /\ Docs \subseteq Nodes /\ Numbers \subseteq Word /\ Indices \cup BufferSizes \subseteq Nat
  /\ \A n \in Nodes :
       /\ n.len \in Nat
       /\ n.type \in {"uint", "int"} => n.v \in Word
       /\ n.type \in {"str", "bin"} => n.bytes \in Seq(Byte) /\ Len(n.bytes) = n.len
       /\ n.type = "array" => n.children \in Seq(Nodes) /\ Len(n.children) = n.len
       /\ n.type = "map" => n.children \in Seq(Nodes) /\ Len(n.children) = 2 * n.len
ASSUME NodesAssumption == NodesOK

mpack_tree_init_error(e) == [tree |-> Nil, error |-> e]
GettersInit ==
  /\ \E start \in {[tree |-> d, error |-> "ok"] : d \in Docs} \cup {mpack_tree_init_error("io")} :
       root = start.tree /\ flagged = start.error
  /\ held = root /\ from = root /\ fn = "none" /\ arguments = NoArgs /\ out = Nothing

(***************************************************************************)
(* Comparisons of 64 bits, and the number types.                           *)
(***************************************************************************)
Negative(v) == v[1] >= 128
Smaller(a, b) ==
  \E i \in 1..8 : a[i] < b[i] /\ \A j \in 1..(i - 1) : a[j] = b[j]
AtMost(a, b) == a = b \/ Smaller(a, b)

Ones(from_) == [i \in 1..8 |-> IF i >= from_ THEN 255 ELSE 0]
\* The MPACK_UINT*_MAX and MPACK_INT*_MAX, and the lowest negative number, as int64_t.
UIntMax(w) == Ones(9 - w)
IntMax(w) == [Ones(9 - w) EXCEPT ![9 - w] = 127]
IntMin(w) == [i \in 1..8 |-> IF i < 9 - w THEN 255 ELSE IF i = 9 - w THEN 128 ELSE 0]

\* _Low: numbers below the lowest, too.
AboveMin_Low(n, w) == Negative(n.v)
AboveMin(n, w) == Negative(n.v) /\ AtMost(IntMin(w), n.v)

FitsUnsigned(n, w) ==
  \/ n.type = "uint" /\ AtMost(n.v, UIntMax(w))
  \/ n.type = "int" /\ ~Negative(n.v) /\ AtMost(n.v, UIntMax(w))
FitsSigned(n, w) ==
  \/ n.type = "uint" /\ AtMost(n.v, IntMax(w))
  \/ n.type = "int" /\ (AboveMin(n, w) \/ (~Negative(n.v) /\ AtMost(n.v, IntMax(w))))

Zeros(w) == [i \in 1..w |-> 0]
Low(v, w) == SubSeq(v, 9 - w, 8)

(***************************************************************************)
(* UTF-8.                                                                  *)
(***************************************************************************)
Continues(b) == b \in 128..191

\* The bits of a byte below the bit n, as the masks leave them.
Bits(b, n) == b % n

Two(a, b) == Bits(a, 32) * 64 + Bits(b, 64)
Three(a, b, c) == Bits(a, 16) * 4096 + Bits(b, 64) * 64 + Bits(c, 64)
Four(a, b, c, d) == Bits(a, 8) * 262144 + Bits(b, 64) * 4096 + Bits(c, 64) * 64 + Bits(d, 64)

\* Which numbers need that many bytes and are characters.
TwoOk(z) == z >= 128
ThreeOk(z) == z >= 2048 /\ ~(z >= 55296 /\ z <= 57343)
FourOk(z) == z >= 65536 /\ z <= 1114111

\* n continuation bytes follow the place i of s.
Conts(s, i, n) == i + n <= Len(s) /\ \A k \in (i + 1)..(i + n) : Continues(s[k])

Lead1(b) == b <= 127
Lead2(b) == b >= 192 /\ b <= 223
Lead3(b) == b >= 224 /\ b <= 239
Lead4(b) == b >= 240 /\ b <= 247

\* The length of the character at i of s, 0 where there is none.  _Overlong: whatever
\* number it stands for.
CharLen_Overlong(s, i) ==
  CASE Lead1(s[i]) -> 1
    [] Lead2(s[i]) -> IF Conts(s, i, 1) THEN 2 ELSE 0
    [] Lead3(s[i]) -> IF Conts(s, i, 2) THEN 3 ELSE 0
    [] Lead4(s[i]) -> IF Conts(s, i, 3) THEN 4 ELSE 0
    [] OTHER -> 0
CharLen(s, i) ==
  CASE Lead1(s[i]) -> 1
    [] Lead2(s[i]) -> IF Conts(s, i, 1) /\ TwoOk(Two(s[i], s[i + 1])) THEN 2 ELSE 0
    [] Lead3(s[i]) -> IF Conts(s, i, 2) /\ ThreeOk(Three(s[i], s[i + 1], s[i + 2])) THEN 3 ELSE 0
    [] Lead4(s[i]) -> IF Conts(s, i, 3) /\ FourOk(Four(s[i], s[i + 1], s[i + 2], s[i + 3])) THEN 4 ELSE 0
    [] OTHER -> 0

\* Characters of these lengths, which start at the places of the lengths, take up all places.
Covered(lens) ==
  LET ok[i \in 1..(Len(lens) + 4)] ==
        i = Len(lens) + 1 \/ (i <= Len(lens) /\ lens[i] > 0 /\ ok[i + lens[i]])
  IN ok[1]

mpack_utf8_check(s) == Covered([i \in 1..Len(s) |-> CharLen(s, i)])
mpack_str_check_no_null(s) == \A i \in DOMAIN s : s[i] # 0
mpack_utf8_check_no_null(s) == mpack_utf8_check(s) /\ mpack_str_check_no_null(s)

(***************************************************************************)
(* A call: the function, its arguments, what it returns, the error it      *)
(* flags and the node it gives.                                            *)
(***************************************************************************)
mpack_tree_flag_error(e) == flagged' = IF flagged = "ok" THEN e ELSE flagged

Call(n, name, args, result, e, next) ==
  /\ from' = n /\ fn' = name /\ arguments' = args /\ out' = result
  /\ mpack_tree_flag_error(e) /\ held' = next /\ UNCHANGED root

\* mpack_node_error, which every getter asks.
Clear == flagged = "ok"

\* A getter: quiet in a tree with an error, Good if the node is Ok, and otherwise an error.
Gets(name, args, quiet, Ok(_), Good(_), e) ==
  \E n \in {root, held} :
    IF Clear /\ Ok(n) THEN Call(n, name, args, Good(n), "ok", held)
    ELSE Call(n, name, args, quiet, e, held)

Result(v) == [Nothing EXCEPT !.v = v]
Flag(b) == [Nothing EXCEPT !.flag = b]
Count(i) == [Nothing EXCEPT !.count = i]
Holding(s) == [Nothing EXCEPT !.data = s, !.count = Len(s)]

Unsigned(name, w) ==
  Gets(name, NoArgs, Result(Zeros(w)), LAMBDA n : FitsUnsigned(n, w), LAMBDA n : Result(Low(n.v, w)), "type")
Signed(name, w) ==
  Gets(name, NoArgs, Result(Zeros(w)), LAMBDA n : FitsSigned(n, w), LAMBDA n : Result(Low(n.v, w)), "type")
Integer ==
  \/ Unsigned("u8", 1) \/ Unsigned("u16", 2) \/ Unsigned("u32", 4) \/ Unsigned("u64", 8)
  \/ Signed("i8", 1) \/ Signed("i16", 2) \/ Signed("i32", 4) \/ Signed("i64", 8)
\* int and unsigned int have 32 bits.
mpack_node_uint == Unsigned("uint", 4)
mpack_node_int == Signed("int", 4)

Converted(name, types) ==
  Gets(name, NoArgs, Nothing, LAMBDA n : n.type \in types, LAMBDA n : Result(n.v), "type")
Floating ==
  \/ Converted("float", {"uint", "int", "float", "double"})
  \/ Converted("double", {"uint", "int", "float", "double"})
  \/ Converted("float_strict", {"float"})
  \/ Converted("double_strict", {"float", "double"})

Typed(n) == [Nothing EXCEPT !.type = n.type]
mpack_node_type == Gets("type", NoArgs, Typed(Nil), LAMBDA n : TRUE, Typed, "ok")
mpack_node_tag ==
  Gets("tag", NoArgs, Typed(Nil), LAMBDA n : TRUE, LAMBDA n : [Typed(n) EXCEPT !.v = n.v, !.count = n.len], "ok")

\* Every node is nil in a tree with an error.
mpack_node_is_nil ==
  Gets("is_nil", NoArgs, Flag(flagged # "ok"), LAMBDA n : n.type = "nil", LAMBDA n : Flag(TRUE), "ok")
mpack_node_is_missing ==
  Gets("is_missing", NoArgs, Nothing, LAMBDA n : n.type = "missing", LAMBDA n : Flag(TRUE), "ok")
Checks(name, Ok(_)) == Gets(name, NoArgs, Nothing, Ok, LAMBDA n : Nothing, "type")
Checked ==
  \/ Checks("nil", LAMBDA n : n.type = "nil")
  \/ Checks("missing", LAMBDA n : n.type = "missing")
  \/ Checks("true", LAMBDA n : n.type = "bool" /\ n.v = <<1>>)
  \/ Checks("false", LAMBDA n : n.type = "bool" /\ n.v = <<0>>)
mpack_node_bool ==
  Gets("bool", NoArgs, Nothing, LAMBDA n : n.type = "bool", LAMBDA n : Flag(n.v = <<1>>), "type")

(***************************************************************************)
(* Strings and data.                                                       *)
(***************************************************************************)
Str(n) == n.type = "str"
StrOrBin(n) == n.type \in {"str", "bin"}
Utf8(n) == Str(n) /\ mpack_utf8_check(n.bytes)
Utf8CStr(n) == Str(n) /\ mpack_utf8_check_no_null(n.bytes)
CStr(n) == Str(n) /\ mpack_str_check_no_null(n.bytes)

Lengths ==
  \/ Gets("data_len", NoArgs, Nothing, StrOrBin, LAMBDA n : Count(n.len), "type")
  \/ Gets("strlen", NoArgs, Nothing, Str, LAMBDA n : Count(n.len), "type")
  \/ Gets("bin_size", NoArgs, Nothing, LAMBDA n : n.type = "bin", LAMBDA n : Count(n.len), "type")
\* A pointer to the bytes, or NULL.
Pointers ==
  \/ Gets("str", NoArgs, Nothing, Str, LAMBDA n : Holding(n.bytes), "type")
  \/ Gets("data", NoArgs, Nothing, StrOrBin, LAMBDA n : Holding(n.bytes), "type")
  \/ Gets("bin_data", NoArgs, Nothing, LAMBDA n : n.type = "bin", LAMBDA n : Holding(n.bytes), "type")
mpack_node_check_utf8 == Checks("check_utf8", Utf8)
mpack_node_check_utf8_cstr == Checks("check_utf8_cstr", Utf8CStr)

\* The copies: the type is checked first, then the size, then the bytes.  The end is put
\* behind the bytes, or into a buffer of which nothing else is known.
CopiesTo(size, n, name, end, room, typed, ok) ==
  LET args == [NoArgs EXCEPT !.size = size]
      fails(e) == Call(n, name, args, [Nothing EXCEPT !.data = end], e, held)
  IN CASE flagged # "ok" -> fails("ok")
       [] flagged = "ok" /\ ~typed -> fails("type")
       [] flagged = "ok" /\ typed /\ n.len > size - room -> fails("too_big")
       [] flagged = "ok" /\ typed /\ n.len <= size - room /\ ~ok -> fails("type")
       [] OTHER -> Call(n, name, args, Holding(n.bytes \o end), "ok", held)
Copies(name, end, room, Ty(_), Ok(_)) ==
  \E n \in {root, held}, size \in BufferSizes :
    size >= Len(end) /\ CopiesTo(size, n, name, end, room, Ty(n), Ok(n))
Room(end) == Len(end)
NUL == <<0>>
Copied ==
  \/ Copies("copy_data", <<>>, Room(<<>>), StrOrBin, StrOrBin)
  \/ Copies("copy_utf8", <<>>, Room(<<>>), Str, Utf8)
  \/ Copies("copy_cstr", NUL, Room(NUL), Str, CStr)
  \/ Copies("copy_utf8_cstr", NUL, Room(NUL), Str, Utf8CStr)

\* The same into memory from malloc, which may fail; NULL is no bytes at all.
Allocates(name, end, Ty(_), Ok(_)) ==
  /\ WithMalloc
  /\ \E n \in {root, held}, max \in BufferSizes :
       LET args == [NoArgs EXCEPT !.size = max]
           fails(e) == Call(n, name, args, Nothing, e, held)
       IN \/ flagged # "ok" /\ fails("ok")
          \/ flagged = "ok" /\ max < Len(end) /\ fails("bug")
          \/ flagged = "ok" /\ max >= Len(end) /\ ~Ty(n) /\ fails("type")
          \/ flagged = "ok" /\ max >= Len(end) /\ Ty(n) /\ n.len > max - Len(end) /\ fails("too_big")
          \/ /\ flagged = "ok" /\ max >= Len(end) /\ Ty(n) /\ n.len <= max - Len(end)
             /\ \/ ~Ok(n) /\ fails("type")
                \/ Ok(n) /\ fails("memory")
                \/ Ok(n) /\ Call(n, name, args, Holding(n.bytes \o end), "ok", held)
Allocated ==
  \/ Allocates("data_alloc", <<>>, StrOrBin, StrOrBin)
  \/ Allocates("cstr_alloc", NUL, Str, CStr)
  \/ Allocates("utf8_cstr_alloc", NUL, Str, Utf8CStr)

\* The number of the first of names that the string is, or how many there are.
Named(n, names) ==
  LET found == {i \in DOMAIN names : names[i] = n.bytes}
  IN IF Str(n) /\ found # {} THEN Min(found) - 1 ELSE Len(names)
Enums ==
  LET known(n) == Named(n, Names) < Len(Names)
      value(n) == Count(Named(n, Names))
  IN \/ Gets("enum_optional", NoArgs, Count(Len(Names)), known, value, "ok")
     \/ Gets("enum", NoArgs, Count(Len(Names)), known, value, "type")

(***************************************************************************)
(* Arrays and maps.                                                        *)
(***************************************************************************)
Counts ==
  \/ Gets("array_length", NoArgs, Nothing, LAMBDA n : n.type = "array", LAMBDA n : Count(n.len), "type")
  \/ Gets("map_count", NoArgs, Nothing, LAMBDA n : n.type = "map", LAMBDA n : Count(n.len), "type")

\* The node at a place, or nil.
At(name, type, Place(_)) ==
  \E n \in {root, held}, i \in Indices :
    LET args == [NoArgs EXCEPT !.index = i]
    IN IF flagged = "ok" /\ n.type = type /\ i < n.len
       THEN Call(n, name, args, Nothing, "ok", n.children[Place(i)])
       ELSE Call(n, name, args, Nothing, IF n.type = type THEN "data" ELSE "type", Nil)
Members ==
  \/ At("array_at", "array", LAMBDA i : i + 1)
  \/ At("map_key_at", "map", LAMBDA i : 2 * i + 1)
  \/ At("map_value_at", "map", LAMBDA i : 2 * i + 2)

\* What a key has to be for the lookups.  _Type: a key of the type that is asked for.
IntKey_Type(k, num) == k.type = "int" /\ k.v = num
IntKey(k, num) ==
  \/ k.type = "int" /\ k.v = num
  \/ k.type = "uint" /\ ~Negative(num) /\ k.v = num
UIntKey(k, num) ==
  \/ k.type = "uint" /\ k.v = num
  \/ k.type = "int" /\ ~Negative(k.v) /\ k.v = num
StrKey(k, s) == k.type = "str" /\ k.bytes = s

\* Where the keys of the map n are that Key holds of.
Found(n, Key(_)) == {i \in 1..n.len : Key(n.children[2 * i - 1])}

\* mpack_node_map_*_impl with mpack_node_wrap_lookup, its optional form and contains.
LookedUp(name, args, n, found) ==
  LET ends(form, result, e, next) == Call(n, name, [args EXCEPT !.form = form], result, e, next)
  IN CASE flagged # "ok" ->
            \/ \E form \in {"", "_optional"} : ends(form, Nothing, "ok", Nil)
            \/ ends("_contains", Nothing, "ok", held)
       [] flagged = "ok" /\ n.type # "map" ->
            \/ \E form \in {"", "_optional"} : ends(form, Nothing, "type", Nil)
            \/ ends("_contains", Nothing, "type", held)
       [] flagged = "ok" /\ n.type = "map" /\ Cardinality(found) > 1 ->
            \/ \E form \in {"", "_optional"} : ends(form, Nothing, "data", Nil)
            \/ ends("_contains", Nothing, "data", held)
       [] flagged = "ok" /\ n.type = "map" /\ found = {} ->
            \/ ends("", Nothing, "data", Nil)
            \/ ends("_optional", Nothing, "ok", MissingNode)
            \/ ends("_contains", Nothing, "ok", held)
       [] OTHER ->
            \/ \E form \in {"", "_optional"}, i \in found : ends(form, Nothing, "ok", n.children[2 * i])
            \/ ends("_contains", Flag(TRUE), "ok", held)
Lookup(name, args, Key(_)) ==
  \E n \in {root, held} :
    \E found \in {IF n.type = "map" THEN Found(n, Key) ELSE {}} : LookedUp(name, args, n, found)
Lookups ==
  \/ \E k \in Numbers : Lookup("map_int", [NoArgs EXCEPT !.number = k], LAMBDA key : IntKey(key, k))
  \/ \E k \in Numbers : Lookup("map_uint", [NoArgs EXCEPT !.number = k], LAMBDA key : UIntKey(key, k))
  \/ \E s \in Strings : Lookup("map_str", [NoArgs EXCEPT !.string = s], LAMBDA key : StrKey(key, s))

GettersNext ==
  \/ Integer \/ mpack_node_uint \/ mpack_node_int \/ Floating
  \/ mpack_node_type \/ mpack_node_tag \/ mpack_node_is_nil \/ mpack_node_is_missing
  \/ Checked \/ mpack_node_bool
  \/ Lengths \/ Pointers \/ mpack_node_check_utf8 \/ mpack_node_check_utf8_cstr
  \/ Copied \/ Allocated \/ Enums \/ Counts \/ Members \/ Lookups
GettersSpec == GettersInit /\ [][GettersNext]_getterVars

(***************************************************************************)
(* What the getters promise.                                               *)
(***************************************************************************)
Width ==
  [u8 |-> 1, i8 |-> 1, u16 |-> 2, i16 |-> 2, u32 |-> 4, i32 |-> 4, u64 |-> 8, i64 |-> 8, uint |-> 4, int |-> 4]
SignedFns == {"i8", "i16", "i32", "i64", "int"}
\* v in 64 bits.
Extend(v, signed) ==
  [i \in 1..(8 - Len(v)) |-> IF signed /\ v[1] >= 128 THEN 255 ELSE 0] \o v
\* A number as a sign and 64 bits, however it is encoded.
NumberOf(n) == <<n.type = "int" /\ Negative(n.v), n.v>>
IsInteger(n) == n.type \in {"uint", "int"}

\* A number is read by every function whose type has it, and as itself; every other
\* function raises mpack_error_type (mpack-node.h:741-803).  Numbers from 2^63 on and
\* negative ones have the same 64 bits.  After an error every number is 0, and that error
\* stays: a caller may look for it at the end.
IntegersExact ==
  [][fn' \in DOMAIN Width =>
       LET signed == fn' \in SignedFns
           low == Low(from'.v, Width[fn'])
           same == IsInteger(from') /\ <<signed /\ low[1] >= 128, Extend(low, signed)>> = NumberOf(from')
       IN IF flagged = "ok" /\ same THEN flagged' = "ok" /\ out'.v = low
          ELSE flagged' = (IF flagged = "ok" THEN "type" ELSE flagged) /\ out'.v = Zeros(Width[fn'])]_getterVars

\* The keys of the map n that are what is looked up, as numbers and strings are equal.
Same(k, name, args) ==
  CASE name = "map_int" -> IsInteger(k) /\ NumberOf(k) = <<Negative(args.number), args.number>>
    [] name = "map_uint" -> IsInteger(k) /\ NumberOf(k) = <<FALSE, args.number>>
    [] name = "map_str" -> k.type = "str" /\ k.bytes = args.string

\* A lookup gives the value of the one key there is; a key that is there twice is
\* mpack_error_data, whichever way it is looked up and however it is encoded
\* (mpack-node.h:1245-1460).
LookupsExact ==
  [][flagged = "ok" /\ fn' \in {"map_int", "map_uint", "map_str"} =>
       LET n == from'
           form == arguments'.form
           hits == {i \in 1..n.len : Same(n.children[2 * i - 1], fn', arguments')}
           gives == IF form = "_contains" THEN held ELSE Nil
       IN IF n.type # "map" THEN flagged' = "type" /\ held' = gives
          ELSE IF Cardinality(hits) > 1 THEN flagged' = "data" /\ held' = gives
          ELSE IF hits = {} THEN
            CASE form = "" -> flagged' = "data" /\ held' = Nil
              [] form = "_optional" -> flagged' = "ok" /\ held' = MissingNode
              [] form = "_contains" -> flagged' = "ok" /\ held' = held /\ ~out'.flag
          ELSE /\ flagged' = "ok"
               /\ IF form = "_contains" THEN out'.flag /\ held' = held
                  ELSE \A i \in hits : held' = n.children[2 * i]]_getterVars

\* UTF-8, as the Unicode standard's table of well-formed byte sequences has it: the first
\* byte, for some of them another range of the second one, and continuation bytes.
Second(a, b) ==
  (a = 224 => b >= 160) /\ (a = 237 => b <= 159) /\ (a = 240 => b >= 144) /\ (a = 244 => b <= 143)
UnicodeLen(s, i) ==
  CASE s[i] \in 0..127 -> 1
    [] s[i] \in 194..223 /\ Conts(s, i, 1) -> 2
    [] s[i] \in 224..239 /\ Conts(s, i, 2) /\ Second(s[i], s[i + 1]) -> 3
    [] s[i] \in 240..244 /\ Conts(s, i, 3) /\ Second(s[i], s[i + 1]) -> 4
    [] OTHER -> 0
WellFormed(s) == Covered([i \in 1..Len(s) |-> UnicodeLen(s, i)])

Checking(n, cstr) == Str(n) /\ WellFormed(n.bytes) /\ (cstr => \A i \in DOMAIN n.bytes : n.bytes[i] > 0)

\* What is taken for UTF-8 is UTF-8: no overlong form, no surrogate, nothing cut off and
\* nothing above the last code point; and all of that is taken.  A copy ends inside of the
\* buffer, and a C string with the only NUL it has, also when there is an error
\* (mpack-node.h:1084).
TextsExact ==
  [][/\ flagged = "ok" /\ fn' \in {"check_utf8", "check_utf8_cstr"} =>
          (flagged' = "ok" <=> Checking(from', fn' = "check_utf8_cstr"))
     /\ flagged' = "ok" /\ fn' \in {"copy_utf8", "copy_utf8_cstr", "utf8_cstr_alloc"} => WellFormed(from'.bytes)
     /\ fn' \in {"copy_data", "copy_utf8", "copy_cstr", "copy_utf8_cstr"} => Len(out'.data) <= arguments'.size
     /\ fn' \in {"copy_cstr", "copy_utf8_cstr"} =>
          /\ \A i \in DOMAIN out'.data : out'.data[i] = 0 <=> i = Len(out'.data)
          /\ IF flagged' = "ok" THEN out'.data # <<>> ELSE out'.data = NUL]_getterVars
================================================================================
