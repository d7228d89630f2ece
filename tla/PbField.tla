--------------------------------- MODULE PbField ---------------------------------
(***************************************************************************)
(* nanopb's field descriptors.  A field of a message is a record: its tag, *)
(* its allocation (at), presence (ht) and type (lt), the place (off) and   *)
(* size of its data, how far before the data its count, has- or which-     *)
(* member lies (delta), the length of its array, and its message type.     *)
(* PB_BIND packs that into one to eight 32-bit words, and                  *)
(* load_descriptor_values takes it out again.                              *)
(***************************************************************************)
EXTENDS PbBits, Sequences, SequencesExt, FiniteSetsExt

\* A field as it is declared.  SINGULAR is OPTIONAL without a has-member, FIXARRAY is
\* REPEATED without a count.
Field(at, ht, lt, tag, off, size, delta, count, sub) ==
  [at |-> at, lt |-> lt, tag |-> tag, off |-> off, size |-> size, delta |-> delta,
   ht |-> CASE ht = "SINGULAR" -> "OPTIONAL" [] ht = "FIXARRAY" -> "REPEATED" [] OTHER -> ht,
   single |-> ht = "SINGULAR", fixed |-> ht = "FIXARRAY", count |-> count, sub |-> sub]

LTypes == <<"BOOL", "VARINT", "UVARINT", "SVARINT", "FIXED32", "FIXED64", "BYTES", "STRING",
            "SUBMESSAGE", "SUBMSG_W_CB", "EXTENSION", "FIXED_LENGTH_BYTES">>
HTypes == <<"REQUIRED", "OPTIONAL", "REPEATED", "ONEOF">>
ATypes == <<"STATIC", "CALLBACK", "POINTER">>

Packable == {"BOOL", "VARINT", "UVARINT", "SVARINT", "FIXED32", "FIXED64"}
PB_LTYPE_IS_SUBMSG(lt) == lt \in {"SUBMESSAGE", "SUBMSG_W_CB"}

\* ((n) & (2^width - 1)) << shift, and the way back.
Put(n, width, shift) == {b + shift : b \in BitsOf(n, width)}
Part(word, shift, width) == NumberOf({b - shift : b \in word}, width)

CodeOf(types, t) == CHOOSE n \in 0..(Len(types) - 1) : types[n + 1] = t
TypeBits(f) ==
  Put(CodeOf(LTypes, f.lt), 4, 0) \cup Put(CodeOf(HTypes, f.ht), 2, 4)
    \cup Put(CodeOf(ATypes, f.at), 2, 6)

\* Which fields have a member of their own for a count or for their presence.
PB_SIZE_OFFSET(f) ==
  CASE f.at = "STATIC" -> IF f.ht = "REQUIRED" \/ f.single \/ f.fixed THEN 0 ELSE f.delta
    [] f.at = "POINTER" -> IF f.ht = "ONEOF" \/ (f.ht = "REPEATED" /\ ~f.fixed) THEN f.delta ELSE 0
    [] f.at = "CALLBACK" -> IF f.ht = "ONEOF" THEN f.delta ELSE 0

PB_ARRAY_SIZE(f) ==
  IF f.ht = "REPEATED" /\ (f.at = "STATIC" \/ (f.at = "POINTER" /\ f.fixed)) THEN f.count ELSE 1

\* What AUTO makes of a field: one word, or two.
PB_FIELDINFO_WIDTH_AUTO(f) ==
  IF \/ f.at = "CALLBACK" \/ f.ht = "REPEATED"
     \/ f.lt \in {"BYTES", "STRING", "FIXED_LENGTH_BYTES"} \/ PB_LTYPE_IS_SUBMSG(f.lt)
  THEN 1 ELSE 0

FirstWord(f, len) == Put(len, 2, 0) \cup Put(f.tag, 6, 2) \cup {b + 8 : b \in TypeBits(f)}

PB_FIELDINFO_1(f) ==
  << FirstWord(f, 0) \cup Put(f.off, 8, 16) \cup Put(PB_SIZE_OFFSET(f), 4, 24) \cup Put(f.size, 4, 28) >>

PB_FIELDINFO_2(f) ==
  << FirstWord(f, 1) \cup Put(PB_ARRAY_SIZE(f), 12, 16) \cup Put(PB_SIZE_OFFSET(f), 4, 28),
     Put(f.off, 16, 0) \cup Put(f.size, 12, 16) \cup Put(f.tag \div 64, 4, 28) >>

Second(f) == Put(PB_SIZE_OFFSET(f), 8, 0) \cup Put(f.tag \div 64, 24, 8)

PB_FIELDINFO_4(f) ==
  << FirstWord(f, 2) \cup Put(PB_ARRAY_SIZE(f), 16, 16), Second(f), BitsOf(f.off, 31), BitsOf(f.size, 31) >>

PB_FIELDINFO_8(f) ==
  << FirstWord(f, 3), Second(f), BitsOf(f.off, 31), BitsOf(f.size, 31), BitsOf(PB_ARRAY_SIZE(f), 31),
     {}, {}, {} >>

\* The asserts of each width, with 16 bits for pb_size_t.  The wider formats cast the
\* distance to int_least8_t before they look at it.
PB_FITS(n, bits) == n < Power[bits]
PB_FIELDINFO_ASSERT(f, len) ==
  CASE len = 0 -> /\ PB_FITS(f.tag, 6) /\ PB_FITS(f.off, 8) /\ PB_FITS(PB_SIZE_OFFSET(f), 4)
                  /\ PB_FITS(f.size, 4) /\ PB_FITS(PB_ARRAY_SIZE(f), 1)
    [] len = 1 -> /\ PB_FITS(f.tag, 10) /\ PB_FITS(f.off, 16) /\ PB_FITS(PB_SIZE_OFFSET(f), 4)
                  /\ PB_FITS(f.size, 12) /\ PB_FITS(PB_ARRAY_SIZE(f), 12)
    [] OTHER -> /\ PB_FITS(f.tag, 16) /\ PB_FITS(f.off, 16)
                /\ PB_FITS(PB_SIZE_OFFSET(f) % 256, 7) /\ PB_FITS(f.size, 16) /\ PB_FITS(PB_ARRAY_SIZE(f), 16)

\* A message: [width, fields], where width 9 is AUTO and n is 2^n words.
AUTO == 9
Len2(m, f) == IF m.width = AUTO THEN PB_FIELDINFO_WIDTH_AUTO(f) ELSE m.width

FieldWords(m, f) ==
  CASE Len2(m, f) = 0 -> PB_FIELDINFO_1(f)
    [] Len2(m, f) = 1 -> PB_FIELDINFO_2(f)
    [] Len2(m, f) = 2 -> PB_FIELDINFO_4(f)
    [] Len2(m, f) = 3 -> PB_FIELDINFO_8(f)

\* What a field adds to the list of message types.
SubmsgInfo(f) == IF PB_LTYPE_IS_SUBMSG(f.lt) THEN <<f.sub>> ELSE <<>>

(***************************************************************************)
(* pb_msgdesc_t.                                                           *)
(***************************************************************************)
PB_BIND(m) ==
  [field_info |-> FlattenSeq([i \in 1..Len(m.fields) |-> FieldWords(m, m.fields[i])]),
   submsg_info |-> FlattenSeq([i \in 1..Len(m.fields) |-> SubmsgInfo(m.fields[i])]),
   field_count |-> Len(m.fields),
   required_field_count |-> Cardinality({i \in 1..Len(m.fields) : m.fields[i].ht = "REQUIRED"}),
   largest_tag |-> IF m.fields = <<>> THEN 0 ELSE m.fields[Len(m.fields)].tag]

\* The type, in bits 8 to 15 of a field's first word.
TypeOf(word) ==
  [lt |-> LTypes[Part(word, 8, 4) + 1], ht |-> HTypes[Part(word, 12, 2) + 1],
   at |-> ATypes[Part(word, 14, 2) + 1]]

\* What load_descriptor_values finds in the words from position at on.
Loaded(info, at) ==
  LET w(i) == info[at + i]
      len == Part(w(1), 0, 2)
      low == Part(w(1), 2, 6)
      type == TypeOf(w(1))
  IN CASE len = 0 ->
            [tag |-> low, type |-> type, array_size |-> 1, size_offset |-> Part(w(1), 24, 4),
             data_offset |-> Part(w(1), 16, 8), data_size |-> Part(w(1), 28, 4)]
       [] len = 1 ->
            [tag |-> low + 64 * Part(w(2), 28, 4), type |-> type,
             array_size |-> Part(w(1), 16, 12), size_offset |-> Part(w(1), 28, 4),
             data_offset |-> Part(w(2), 0, 16), data_size |-> Part(w(2), 16, 12)]
       [] OTHER ->
            [tag |-> (low + 64 * Part(w(2), 8, 24)) % 65536, type |-> type,
             array_size |-> IF len = 2 THEN Part(w(1), 16, 16) ELSE Part(w(5), 0, 16),
             size_offset |-> Part(w(2), 0, 8), data_offset |-> Part(w(3), 0, 31),
             data_size |-> Part(w(4), 0, 16)]
================================================================================
