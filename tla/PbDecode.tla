-------------------------------- MODULE PbDecode --------------------------------
(***************************************************************************)
(* nanopb's decoder, built without malloc.  What it calls returns [s, v]   *)
(* or [s, m]: the stream behind and the value or struct as it then is.     *)
(* After a failure nothing more is read.                                   *)
(***************************************************************************)
EXTENDS PbMessage

PB_MAX_REQUIRED_FIELDS == 64
PB_SIZE_MAX == 65535

Ret(s, m) == [s |-> s, m |-> m]
With(m, p, v) == [m EXCEPT ![p] = v]
Stored(array, i, v) == SubSeq(array, 1, i - 1) \o <<v>> \o SubSeq(array, i + 1, Len(array))

(***************************************************************************)
(* One value; old is what the member held.                                 *)
(***************************************************************************)
BoolOf(r, old) ==
  [s |-> r.s, v |-> IF ~r.s.ok THEN old ELSE IF r.v = Zeros(4) THEN <<0>> ELSE <<1>>]
pb_dec_bool(s, old) == BoolOf(pb_decode_varint32(s), old)

\* A number of a plain type in a member of 32 bits or less is first cut to 32 bits:
\* negative ones may come in five bytes or in ten.
Cut(f, v) == IF f.size = 8 THEN v ELSE Extend(SubSeq(v, 1, 4), TRUE)

\* The number that is meant, in 64 bits.
Meant(f, v) ==
  CASE f.lt = "UVARINT" -> v
    [] f.lt = "SVARINT" -> Unzigzag(v)
    [] OTHER -> Cut(f, v)

\* _Any: whatever the member cannot hold is dropped.
Held_Any(f, v, wide) == TRUE
Held(f, v, wide) == Extend(v, f.lt # "UVARINT") = wide

Kept(s, f, v, wide) == [s |-> IF Held(f, v, wide) THEN s ELSE Failed(s), v |-> v]
Narrowed(s, f, wide) == Kept(s, f, SubSeq(wide, 1, f.size), wide)
VarintFor(r, f, old) ==
  IF ~r.s.ok \/ f.size \notin {1, 2, 4, 8} THEN [s |-> Failed(r.s), v |-> old]
  ELSE Narrowed(r.s, f, Meant(f, r.v))
pb_dec_varint(s, f, old) == VarintFor(pb_decode_varint(s), f, old)

\* n bytes, unless there are fewer.
Bytes(s, n, old) ==
  IF pb_read(s, n).ok THEN [s |-> pb_read(s, n), v |-> Ahead(s, n)]
  ELSE [s |-> Failed(s), v |-> old]

Rest(v, n) == SubSeq(v, n + 1, Len(v))

\* _Loose: the two bytes of the size are forgotten.
TooLong_Loose(f, n) == n > PB_SIZE_MAX \/ n > f.size
TooLong(f, n) == n > PB_SIZE_MAX \/ n + 2 > f.size

SizedBytes(t, n, old) == [s |-> t.s, v |-> [size |-> n, bytes |-> t.v \o Rest(old.bytes, n)]]
BytesFor(r, f, old) ==
  IF ~r.s.ok \/ TooLong(f, r.n) THEN [s |-> Failed(r.s), v |-> old]
  ELSE SizedBytes(Bytes(r.s, r.n, SubSeq(old.bytes, 1, r.n)), r.n, old)
pb_dec_bytes(s, f, old) == BytesFor(DecodeSize(s), f, old)

Ended(t, n, old) == [s |-> t.s, v |-> t.v \o <<0>> \o Rest(old, n + 1)]
StringFor(r, f, old) ==
  IF ~r.s.ok \/ r.n + 1 > f.size THEN [s |-> Failed(r.s), v |-> old]
  ELSE Ended(Bytes(r.s, r.n, SubSeq(old, 1, r.n)), r.n, old)
pb_dec_string(s, f, old) == StringFor(DecodeSize(s), f, old)

FixedBytesFor(r, f, old) ==
  CASE ~r.s.ok \/ r.n \notin {0, f.size} \/ r.n > PB_SIZE_MAX -> [s |-> Failed(r.s), v |-> old]
    [] r.s.ok /\ r.n = 0 -> [s |-> r.s, v |-> Zeros(f.size)]
    [] OTHER -> Bytes(r.s, r.n, old)
pb_dec_fixed_length_bytes(s, f, old) == FixedBytesFor(DecodeSize(s), f, old)

(***************************************************************************)
(* Callbacks.                                                              *)
(***************************************************************************)
\* What the decode function c reads of the bytes b when it is called until none are left, or
\* once.
Pieces(c, b) ==
  IF c.takes = 0 THEN <<>>
  ELSE LET calls == IF b = <<>> THEN 1 ELSE (Len(b) + c.takes - 1) \div c.takes
       IN [k \in 1..calls |-> SubSeq(b, (k - 1) * c.takes + 1, Min({k * c.takes, Len(b)}))]

Given(c, pieces) == [c EXCEPT !.gets = @ \o pieces]

\* The bytes of one number, to be given to a callback.
RawLength(s, wt) ==
  CASE wt = WT_VARINT -> Len(VarintBytes(s)) [] wt = WT_64BIT -> 8 [] wt = WT_32BIT -> 4
    [] OTHER -> 0
ReadRaw(s, n) == IF n \notin 1..10 THEN Failed(s) ELSE pb_read(s, n)
read_raw_value(s, wt) == ReadRaw(s, RawLength(s, wt))

\* A string is offered until all is read, a number once.
CallWithString(r, f, c, m) ==
  IF ~r.s.ok THEN Ret(r.s, m)
  ELSE Ret(pb_close_string_substream(r.s, r.sub),
           With(m, f.off, Given(c, Pieces(c, Ahead(r.sub, r.sub.left)))))
Once(c, raw) == IF c.takes = 0 THEN <<>> ELSE <<Pieces(c, raw)[1]>>
CallWithNumber(s, t, f, c, m) ==
  IF ~t.ok THEN Ret(t, m) ELSE Ret(t, With(m, f.off, Given(c, Once(c, Ahead(s, t.at - s.at)))))

decode_callback_field(s, wt, desc, f, m) ==
  CASE ~desc.cb -> Ret(pb_skip_field(s, wt), m)
    [] desc.cb /\ wt = WT_STRING -> CallWithString(pb_make_string_substream(s), f, m[f.off], m)
    [] desc.cb /\ wt # WT_STRING -> CallWithNumber(s, read_raw_value(s, wt), f, m[f.off], m)

(***************************************************************************)
(* Fields and messages.                                                    *)
(***************************************************************************)
RECURSIVE pb_decode_inner(_, _, _, _), SetToDefaults(_, _, _), Packed(_, _, _, _)

\* [s, v]: a submessage is initialized only as an element of an array.  A callback of
\* its own may take it all.
\* _Fresh: every one is.
NoInit_Fresh(f) == {}
NoInit(f) == IF f.at = "STATIC" /\ f.ht # "REPEATED" THEN {"NOINIT"} ELSE {}

\* The substream is closed behind what was read of it in t.
Closed(s, t) == [pb_close_string_substream(s, t) EXCEPT !.ok = t.ok]

OwnTakes(f, m) == IF HasOwnCallback(f) THEN m[OwnCallback(f)].takes ELSE 0
SubmessageIn(s, t) == [s |-> Closed(s, t.s), v |-> t.m]
Submessage(s, sub, takes, f, v) ==
  IF takes > 0 /\ sub.left = 0 THEN [s |-> Closed(s, sub), v |-> v]
  ELSE SubmessageIn(s, pb_decode_inner(sub, f.sub, v, NoInit(f)))
SubmessageFor(r, takes, f, v) ==
  IF ~r.s.ok THEN [s |-> r.s, v |-> v]
  ELSE Submessage(r.s, pb_read(r.sub, Min({takes, r.sub.left})), takes, f, v)
pb_dec_submessage(s, f, v, m) ==
  SubmessageFor(pb_make_string_substream(s), OwnTakes(f, m), f, v)

WireTypes(f) ==
  CASE f.lt \in {"BOOL", "VARINT", "UVARINT", "SVARINT"} -> {WT_VARINT, WT_PACKED}
    [] f.lt = "FIXED32" -> {WT_32BIT, WT_PACKED}
    [] f.lt = "FIXED64" -> {WT_64BIT, WT_PACKED}
    [] f.lt = "EXTENSION" -> {}
    [] OTHER -> {WT_STRING}

decode_basic_field(s, wt, f, v, m) ==
  CASE wt \notin WireTypes(f) -> [s |-> Failed(s), v |-> v]
    [] wt \in WireTypes(f) ->
         CASE f.lt = "BOOL" -> pb_dec_bool(s, v)
           [] f.lt \in {"VARINT", "UVARINT", "SVARINT"} -> pb_dec_varint(s, f, v)
           [] f.lt = "FIXED32" -> Bytes(s, 4, v)
           [] f.lt = "FIXED64" -> Bytes(s, 8, v)
           [] f.lt = "BYTES" -> pb_dec_bytes(s, f, v)
           [] f.lt = "STRING" -> pb_dec_string(s, f, v)
           [] f.lt = "FIXED_LENGTH_BYTES" -> pb_dec_fixed_length_bytes(s, f, v)
           [] PB_LTYPE_IS_SUBMSG(f.lt) -> pb_dec_submessage(s, f, v, m)

PutBack(r, f, m) == Ret(r.s, With(m, f.off, r.v))
Single(s, wt, f, m) == PutBack(decode_basic_field(s, wt, f, m[f.off], m), f, m)

\* The elements of a packed array, as many as there are and as there is room for.
PackedOn(r, f, array, n) ==
  IF ~r.s.ok THEN [s |-> r.s, array |-> Stored(array, n + 1, r.v), n |-> n]
  ELSE Packed(r.s, f, Stored(array, n + 1, r.v), n + 1)
Packed(sub, f, array, n) ==
  IF sub.left = 0 \/ n >= f.count THEN [s |-> sub, array |-> array, n |-> n]
  ELSE PackedOn(decode_basic_field(sub, WT_PACKED, f, array[n + 1], <<>>), f, array, n)

\* pSize is the count, or the decoder's own for a fixed array.
Refilled(s, p, f, m) ==
  Ret(IF p.s.left # 0 THEN Failed(s) ELSE Closed(s, p.s),
      With(With(m, f.off, p.array), SizePlace(f), p.n))
DecodePacked(r, f, m) ==
  IF ~r.s.ok THEN Ret(r.s, m)
  ELSE Refilled(r.s, Packed(r.sub, f, m[f.off], m[SizePlace(f)]), f, m)

OneMore(r, f, n, m) == Ret(r.s, With(m, f.off, Stored(m[f.off], n + 1, r.v)))
DecodeElement(s, wt, f, n, m) ==
  IF n >= f.count THEN Ret(Failed(s), With(m, SizePlace(f), n + 1))
  ELSE OneMore(decode_basic_field(s, wt, f, m[f.off][n + 1], m), f, n,
               With(m, SizePlace(f), n + 1))

DecodeArray(s, wt, f, m) ==
  IF wt = WT_STRING /\ f.lt \in Packable THEN DecodePacked(pb_make_string_substream(s), f, m)
  ELSE DecodeElement(s, wt, f, m[SizePlace(f)], m)

\* A message in a union starts afresh when it was not the one that was set; what the
\* other members left there is not looked at.
Emptied(f, m) ==
  CASE m[SizePlace(f)] = f.tag -> m[f.off]
    [] m[SizePlace(f)] # f.tag /\ PB_LTYPE_IS_SUBMSG(f.lt) ->
         SetToDefaults(Descriptors[f.sub].fields, Descriptors[f.sub].dflt, ZeroDatum(f)).m
    [] m[SizePlace(f)] # f.tag /\ ~PB_LTYPE_IS_SUBMSG(f.lt) -> ZeroDatum(f)

MadeChosen(f, m) == With(With(m, f.off, Emptied(f, m)), SizePlace(f), f.tag)

decode_static_field(s, wt, f, m) ==
  IF f.ht = "REPEATED" THEN DecodeArray(s, wt, f, m)
  ELSE Single(s, wt, f,
         CASE f.ht = "ONEOF" -> MadeChosen(f, m)
           [] f.ht = "OPTIONAL" /\ HasSize(f) -> With(m, SizePlace(f), TRUE)
           [] OTHER -> m)

decode_field(s, wt, desc, f, m) ==
  CASE ~s.ok -> Ret(s, m)
    [] s.ok /\ f.at = "STATIC" -> decode_static_field(s, wt, f, m)
    [] s.ok /\ f.at = "POINTER" -> Ret(Failed(s), m)  \* no malloc support
    [] s.ok /\ f.at = "CALLBACK" -> decode_callback_field(s, wt, desc, f, m)

\* The first extension of that tag; extensions with decoders of their own are left out.
WithExtension(r, exts, k, f, m) == Ret(r.s, With(m, f.off, [exts EXCEPT ![k].m = r.m]))
DecodeExtension(s, wt, exts, k, f, m) ==
  LET e == exts[k]
  IN WithExtension(decode_field(s, wt, [dflt |-> e.dflt, cb |-> FALSE], e.type,
                           With(e.m, SizePlace(e.type), TRUE)), exts, k, f, m)

(***************************************************************************)
(* Defaults.                                                               *)
(***************************************************************************)
Unset(f, m) == IF HasSize(f) THEN With(m, SizePlace(f), FALSE) ELSE m

\* Such a message is set to zeros, arrays and unions included.
Plain(name) ==
  /\ Descriptors[name].dflt = <<>> /\ ~Descriptors[name].cb
  /\ \A f \in Fields(name) : ~PB_LTYPE_IS_SUBMSG(f.lt)

DefaultsIn(t, f, m) == Ret(t.s, With(m, f.off, t.m))
pb_field_set_to_default(f, m) ==
  CASE f.lt = "EXTENSION" ->
         Ret(TRUE, With(m, f.off,
           [k \in 1..Len(m[f.off]) |->
              LET e == m[f.off][k]
              IN [e EXCEPT !.m = SetToDefaults(<<e.type>>, e.dflt, e.m).m]]))
    [] HasCallback(f) -> Ret(TRUE, m)
    [] f.at = "POINTER" ->
         Ret(TRUE, With(IF f.ht \in {"REPEATED", "ONEOF"} /\ HasSize(f)
                        THEN With(m, SizePlace(f), 0) ELSE m, f.off, <<>>))
    [] f.at = "STATIC" /\ f.ht \in {"REPEATED", "ONEOF"} -> Ret(TRUE, With(m, SizePlace(f), 0))
    [] f.at = "STATIC" /\ f.ht \in {"REQUIRED", "OPTIONAL"} ->
         IF PB_LTYPE_IS_SUBMSG(f.lt) /\ ~Plain(f.sub)
         THEN DefaultsIn(SetToDefaults(Descriptors[f.sub].fields, Descriptors[f.sub].dflt,
                                       m[f.off]), f, Unset(f, m))
         ELSE Ret(TRUE, With(Unset(f, m), f.off, ZeroDatum(f)))

\* pb_message_set_to_defaults.  s says whether it went well.  The defaults are an encoded
\* message, its fields in the order of fs, behind which there is a tag of 0.
NextDefault(r, f) ==
  [s |-> pb_decode_tag(r.s), m |-> IF HasSize(f) THEN With(r.m, SizePlace(f), FALSE) ELSE r.m]

\* x is [s, m] with s the tag that comes next in the defaults.
DefaultFrom(x, unset, dflt, f) ==
  CASE ~unset.s -> [s |-> [x.s EXCEPT !.s.ok = FALSE], m |-> unset.m]
    [] unset.s /\ x.s.tag # f.tag -> [x EXCEPT !.m = unset.m]
    [] OTHER ->
         NextDefault(decode_field(x.s.s, x.s.wt, [dflt |-> dflt, cb |-> TRUE], f, unset.m), f)
DefaultOf(x, dflt, f) ==
  IF ~x.s.s.ok THEN x ELSE DefaultFrom(x, pb_field_set_to_default(f, x.m), dflt, f)

NoDefaults == [s |-> pb_istream_from_buffer(<<>>), tag |-> 0, wt |-> 0]
AllDefaults(x) == Ret(x.s.s.ok, x.m)
SetToDefaults(fs, dflt, m) ==
  AllDefaults(FoldLeft(LAMBDA x, f : DefaultOf(x, dflt, f),
    [s |-> IF dflt = <<>> THEN NoDefaults ELSE pb_decode_tag(pb_istream_from_buffer(dflt)),
     m |-> m], fs))

(***************************************************************************)
(* pb_decode_inner: x is [s, m, fixed, seen], where fixed is the fixed     *)
(* array it is in, or 0, and seen the required fields it came across.      *)
(***************************************************************************)
\* Whether an array of a fixed length has all its elements.
Filled(desc, x) == x.fixed = 0 \/ x.m[-1] = desc.fields[x.fixed].count

RequiredNumber(desc, i) == Cardinality({j \in 1..(i - 1) : desc.fields[j].ht = "REQUIRED"})

\* The fixed array that field i is, if it is one.
FixedAt(x, desc, i) ==
  IF desc.fields[i].ht = "REPEATED" /\ desc.fields[i].fixed THEN i ELSE x.fixed

Seen(desc, i) ==
  IF desc.fields[i].ht = "REQUIRED" /\ RequiredNumber(desc, i) < PB_MAX_REQUIRED_FIELDS
  THEN {RequiredNumber(desc, i)} ELSE {}

Known(r, x, desc, i) ==
  [s |-> r.s, m |-> r.m, fixed |-> FixedAt(x, desc, i), seen |-> x.seen \cup Seen(desc, i)]
DecodeKnown(x, desc, i, wt) ==
  LET other == FixedAt(x, desc, i) # x.fixed
  IN IF other /\ ~Filled(desc, x) THEN [x EXCEPT !.s = Failed(@)]
     ELSE Known(decode_field(x.s, wt, desc, desc.fields[i], IF other THEN With(x.m, -1, 0) ELSE x.m),
                x, desc, i)

\* Extensions begin at the tag of their placeholder.
FoundIn(x, r) == [x EXCEPT !.s = r.s, !.m = r.m]
Unknowns(x, places, tag, wt) ==
  LET f == CHOOSE g \in places : TRUE
      hits == {k \in 1..Len(x.m[f.off]) : x.m[f.off][k].type.tag = tag}
  IN IF places # {} /\ hits # {}
     THEN FoundIn(x, DecodeExtension(x.s, wt, x.m[f.off], Min(hits), f, x.m))
     ELSE [x EXCEPT !.s = pb_skip_field(x.s, wt)]
DecodeUnknown(x, desc, tag, wt) ==
  Unknowns(x, {f \in ToSet(desc.fields) : f.lt = "EXTENSION" /\ tag >= f.tag}, tag, wt)

DecodeField(x, desc, known, t) ==
  IF known = {} THEN DecodeUnknown(x, desc, t.tag, t.wt) ELSE DecodeKnown(x, desc, Min(known), t.wt)

RECURSIVE DecodeFields(_, _, _)
DecodeTagged(x, t, desc, flags) ==
  CASE ~t.s.ok -> x
    [] t.s.ok /\ t.tag = 0 ->
         IF "NULLTERMINATED" \in flags THEN x ELSE [x EXCEPT !.s = Failed(@)]
    [] t.s.ok /\ t.tag # 0 ->
         DecodeFields(DecodeField(x, desc,
           {i \in 1..Len(desc.fields) :
              desc.fields[i].tag = t.tag /\ desc.fields[i].lt # "EXTENSION"}, t), desc, flags)
DecodeNext(x, t, desc, flags) == DecodeTagged([x EXCEPT !.s = t.s], t, desc, flags)
DecodeFields(x, desc, flags) ==
  IF ~x.s.ok \/ x.s.left = 0 THEN x ELSE DecodeNext(x, pb_decode_tag(x.s), desc, flags)

\* _Some: one of them will do.
AllRequired_Some(desc, seen) == (\E f \in ToSet(desc.fields) : f.ht = "REQUIRED") => seen # {}
AllRequired(desc, seen) ==
  LET n == Cardinality({i \in 1..Len(desc.fields) : desc.fields[i].ht = "REQUIRED"})
  IN 0..(Min({n, PB_MAX_REQUIRED_FIELDS}) - 1) \subseteq seen

Checked(x, desc) ==
  Ret(IF x.s.ok /\ Filled(desc, x) /\ AllRequired(desc, x.seen) THEN x.s ELSE Failed(x.s), x.m)
DecodeInto(s, desc, init, flags) ==
  IF ~s.ok \/ ~init.s THEN Ret(Failed(s), init.m)
  ELSE Checked(DecodeFields([s |-> s, m |-> init.m, fixed |-> 0, seen |-> {}], desc, flags), desc)
pb_decode_inner(s, name, m, flags) ==
  LET desc == Descriptors[name]
  IN DecodeInto(s, desc, IF "NOINIT" \in flags THEN Ret(TRUE, m)
                         ELSE SetToDefaults(desc.fields, desc.dflt, m), flags)

ClosedIn(s, t) == Ret(Closed(s, t.s), t.m)
DecodeDelimited(r, name, m, flags) ==
  IF ~r.s.ok THEN Ret(r.s, m) ELSE ClosedIn(r.s, pb_decode_inner(r.sub, name, m, flags))
pb_decode_ex(s, name, m, flags) ==
  IF "DELIMITED" \notin flags THEN pb_decode_inner(s, name, m, flags)
  ELSE DecodeDelimited(pb_make_string_substream(s), name, m, flags)

pb_decode(s, name, m) == pb_decode_inner(s, name, m, {})
================================================================================
