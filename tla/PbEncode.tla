-------------------------------- MODULE PbEncode --------------------------------
(***************************************************************************)
(* nanopb's encoder.  An output stream is [ok, written, max, sizing, out,  *)
(* calls]: whether no call has failed, the bytes counted and the most      *)
(* there may be, whether it only counts, what went to the buffer, and how  *)
(* often callbacks were called.  A call on a stream that failed is one the *)
(* code does not make.                                                     *)
(***************************************************************************)
EXTENDS PbMessage

pb_ostream_from_buffer(n) ==
  [ok |-> TRUE, written |-> 0, max |-> n, sizing |-> FALSE, out |-> <<>>, calls |-> 0]
PB_OSTREAM_SIZING(calls) ==
  [ok |-> TRUE, written |-> 0, max |-> 0, sizing |-> TRUE, out |-> <<>>, calls |-> calls]

Refused(st) == [st EXCEPT !.ok = FALSE]

\* _Late: one byte more is written.
Full_Late(st, n) == st.written + n > st.max + 1
Full(st, n) == st.written + n > st.max

pb_write(st, b) ==
  CASE ~st.ok -> st
    [] st.ok /\ st.sizing -> [st EXCEPT !.written = @ + Len(b)]
    [] st.ok /\ ~st.sizing ->
         IF Full(st, Len(b)) THEN Refused(st)
         ELSE [st EXCEPT !.written = @ + Len(b), !.out = @ \o b]

pb_encode_varint(st, v) == pb_write(st, Varint(v))
pb_encode_svarint(st, v) == pb_encode_varint(st, Zigzag(v))
pb_encode_size(st, n) == pb_write(st, VarintOf(n))
pb_encode_tag(st, wt, tag) == pb_encode_size(st, 8 * tag + wt)
pb_encode_string(st, b) == pb_write(pb_encode_size(st, Len(b)), b)

WireTypeOf(f) ==
  CASE f.lt \in {"BOOL", "VARINT", "UVARINT", "SVARINT"} -> WT_VARINT
    [] f.lt = "FIXED32" -> WT_32BIT
    [] f.lt = "FIXED64" -> WT_64BIT
    [] OTHER -> WT_STRING
pb_encode_tag_for_field(st, f) ==
  IF f.lt = "EXTENSION" THEN Refused(st) ELSE pb_encode_tag(st, WireTypeOf(f), f.tag)

(***************************************************************************)
(* One value v.                                                            *)
(***************************************************************************)
pb_enc_bool(st, v) == pb_encode_size(st, IF v = Zeros(Len(v)) THEN 0 ELSE 1)

pb_enc_varint(st, f, v) ==
  CASE f.size \notin {1, 2, 4, 8} -> Refused(st)
    [] f.size \in {1, 2, 4, 8} /\ f.lt = "SVARINT" -> pb_encode_svarint(st, Extend(v, TRUE))
    [] OTHER -> pb_encode_varint(st, Extend(v, f.lt # "UVARINT"))

pb_enc_fixed(st, f, v) == IF f.size \in {4, 8} THEN pb_write(st, v) ELSE Refused(st)

pb_enc_bytes(st, f, v) ==
  IF f.at = "STATIC" /\ v.size > f.size - 2 THEN Refused(st)
  ELSE pb_encode_string(st, SubSeq(v.bytes, 1, v.size))

pb_enc_string(st, v) ==
  LET ends == {i \in 1..Len(v) : v[i] = 0}
  IN IF ends = {} THEN Refused(st) ELSE pb_encode_string(st, SubSeq(v, 1, Min(ends) - 1))

\* The encode function of a callback member, or nothing.
Called(st, c) ==
  IF c.puts = <<>> \/ ~st.ok THEN st
  ELSE pb_write([st EXCEPT !.calls = @ + 1], c.puts[(st.calls % Len(c.puts)) + 1])

(***************************************************************************)
(* Messages.                                                               *)
(***************************************************************************)
RECURSIVE pb_encode(_, _, _), pb_check_proto3_default_value(_, _, _)

\* _Trust: what the second pass wrote is not compared with the size of the first.
SameSize_Trust(second, n) == TRUE
SameSize(second, n) == second.written = n

\* It is encoded twice, the first time for its size; the second time has room for no more.
Behind(head, second, n) ==
  [second EXCEPT !.written = @ + head.written, !.max = head.max, !.ok = @ /\ SameSize(second, n)]
SecondPass(head, name, m, n) ==
  CASE ~head.ok -> head
    [] head.ok /\ head.sizing -> pb_write(head, Zeros(n))
    [] head.ok /\ ~head.sizing ->
         IF Full(head, n) THEN Refused(head)
         ELSE Behind(head, pb_encode([head EXCEPT !.written = 0, !.max = n], name, m), n)
Announced(st, first, name, m) ==
  IF ~first.ok THEN Refused(st)
  ELSE SecondPass(pb_encode_size([st EXCEPT !.calls = first.calls], first.written),
                  name, m, first.written)
pb_encode_submessage(st, name, m) ==
  IF ~st.ok THEN st ELSE Announced(st, pb_encode(PB_OSTREAM_SIZING(st.calls), name, m), name, m)

pb_enc_submessage(st, f, v, m) ==
  pb_encode_submessage(IF HasOwnCallback(f) THEN Called(st, m[OwnCallback(f)]) ELSE st, f.sub, v)

\* The value, behind its tag.
EncodeDatum(st, f, v, m) ==
  CASE f.lt = "BOOL" -> pb_enc_bool(st, v)
    [] f.lt \in {"VARINT", "UVARINT", "SVARINT"} -> pb_enc_varint(st, f, v)
    [] f.lt \in {"FIXED32", "FIXED64"} -> pb_enc_fixed(st, f, v)
    [] f.lt = "BYTES" -> pb_enc_bytes(st, f, v)
    [] f.lt = "STRING" -> pb_enc_string(st, v)
    [] f.lt = "FIXED_LENGTH_BYTES" -> pb_encode_string(st, v)
    [] PB_LTYPE_IS_SUBMSG(f.lt) -> pb_enc_submessage(st, f, v, m)
encode_basic_field(st, f, v, m) == EncodeDatum(pb_encode_tag_for_field(st, f), f, v, m)

\* An element of an array of pointers to strings or bytes may be NULL.
EncodeElement(st, f, v, m) ==
  LET pointed == f.at = "POINTER" /\ f.lt \in {"STRING", "BYTES"}
  IN IF pointed /\ v = <<>> THEN pb_encode_size(pb_encode_tag_for_field(st, f), 0)
     ELSE encode_basic_field(st, f, IF pointed THEN v[1] ELSE v, m)

PackedElement(st, f, v) ==
  IF f.lt \in {"FIXED32", "FIXED64"} THEN pb_enc_fixed(st, f, v) ELSE pb_enc_varint(st, f, v)

PackedSize(f, some, calls) ==
  CASE f.lt = "FIXED32" -> [ok |-> TRUE, written |-> 4 * Len(some)]
    [] f.lt = "FIXED64" -> [ok |-> TRUE, written |-> 8 * Len(some)]
    [] OTHER -> FoldLeft(LAMBDA t, v : pb_enc_varint(t, f, v), PB_OSTREAM_SIZING(calls), some)

EncodePacked(head, f, some, n) ==
  IF head.sizing THEN pb_write(head, Zeros(n))
  ELSE FoldLeft(LAMBDA t, v : PackedElement(t, f, v), head, some)
PackedInto(st, f, some, size) ==
  IF ~size.ok THEN Refused(st)
  ELSE EncodePacked(pb_encode_size(pb_encode_tag(st, WT_STRING, f.tag), size.written),
                    f, some, size.written)

EncodeElements(st, f, some, m) ==
  IF f.lt \in Packable THEN PackedInto(st, f, some, PackedSize(f, some, st.calls))
  ELSE FoldLeft(LAMBDA t, v : EncodeElement(t, f, v, m), st, some)

encode_array(st, f, data, m) ==
  LET count == SizeIn(f, m)
  IN CASE count = 0 -> st
       [] f.at # "POINTER" /\ count > PB_ARRAY_SIZE(f) -> Refused(st)
       [] OTHER -> EncodeElements(st, f, SubSeq(data, 1, count), m)

\* Whether proto3 leaves the field out.
pb_check_proto3_default_value(desc, f, m) ==
  LET v == m[f.off]
  IN CASE f.at = "POINTER" -> v = <<>>
       [] f.at = "CALLBACK" ->
            IF f.lt = "EXTENSION" THEN v = <<>> ELSE ~desc.cb \/ v.puts = <<>>
       [] f.at = "STATIC" ->
            CASE f.ht = "REQUIRED" -> FALSE
              [] f.ht \in {"REPEATED", "ONEOF"} -> SizeIn(f, m) = 0
              [] f.ht = "OPTIONAL" /\ HasSize(f) -> ~SizeIn(f, m)
              [] OTHER ->
                   /\ desc.dflt = <<>>
                   /\ CASE f.lt \in Packable -> v = Zeros(f.size)
                        [] f.lt = "BYTES" -> v.size = 0
                        [] f.lt = "STRING" -> v[1] = 0
                        [] f.lt = "FIXED_LENGTH_BYTES" -> f.size = 0
                        [] PB_LTYPE_IS_SUBMSG(f.lt) ->
                             \A g \in Fields(f.sub) :
                               pb_check_proto3_default_value(Descriptors[f.sub], g, v)

\* A field of a union is there only when it is the one that was set.
Chosen(f, m) == SizeIn(f, m) = f.tag

Present(desc, f, m) ==
  CASE f.ht = "ONEOF" -> Chosen(f, m)
    [] f.ht = "OPTIONAL" /\ HasSize(f) -> SizeIn(f, m)
    [] f.ht = "OPTIONAL" /\ ~HasSize(f) ->
         f.at # "STATIC" \/ ~pb_check_proto3_default_value(desc, f, m)
    [] OTHER -> TRUE

EncodeValue(st, f, v, m) ==
  IF f.ht = "REPEATED" THEN encode_array(st, f, v, m) ELSE encode_basic_field(st, f, v, m)

encode_field(st, desc, f, m) ==
  CASE ~Present(desc, f, m) -> st
    [] Present(desc, f, m) /\ f.at = "CALLBACK" -> IF desc.cb THEN Called(st, m[f.off]) ELSE st
    [] Present(desc, f, m) /\ f.at = "POINTER" /\ m[f.off] = <<>> ->
         IF f.ht = "REQUIRED" THEN Refused(st) ELSE st
    [] OTHER -> EncodeValue(st, f, IF f.at = "POINTER" THEN m[f.off][1] ELSE m[f.off], m)

\* Extensions with encoders of their own are left out.
encode_extension_field(st, exts) ==
  FoldLeft(LAMBDA t, e : encode_field(t, [dflt |-> e.dflt, cb |-> FALSE], e.type, e.m), st, exts)

EncodeOne(st, desc, f, m) ==
  IF ~st.ok THEN st
  ELSE IF f.lt = "EXTENSION" THEN encode_extension_field(st, m[f.off])
  ELSE encode_field(st, desc, f, m)

pb_encode(st, name, m) ==
  LET desc == Descriptors[name]
  IN FoldLeft(LAMBDA t, f : EncodeOne(t, desc, f, m), st, desc.fields)

pb_encode_ex(st, name, m, flags) ==
  CASE "DELIMITED" \in flags -> pb_encode_submessage(st, name, m)
    [] flags = {"NULLTERMINATED"} -> pb_write(pb_encode(st, name, m), <<0>>)
    [] flags = {} -> pb_encode(st, name, m)

pb_get_encoded_size(name, m) == pb_encode(PB_OSTREAM_SIZING(0), name, m)
================================================================================
