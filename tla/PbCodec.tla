-------------------------------- MODULE PbCodec --------------------------------
(***************************************************************************)
(* A struct is encoded into a buffer of any size; what that gives is       *)
(* passed on as it is, cut short, with an unknown field in it, or with     *)
(* another message behind it; and decoded into a struct that held anything *)
(* before, with the same or another version of its message type.           *)
(***************************************************************************)
EXTENDS PbEncode, PbDecode

CONSTANTS
  Structs,   \* [name, m]
  Unknown,   \* encoded fields that no message has
  Readers,   \* by message type, those that its encoding may be decoded as
  Befores,   \* [name, m]: what the struct may hold before it is decoded into
  Flags      \* sets of flags for pb_encode_ex and pb_decode_ex

VARIABLES
  stage,     \* "new", "encoded", "refused", "sent" or "decoded"
  source,    \* the struct
  flags,
  room,      \* the buffer's size
  buffer,    \* what was written
  wire,      \* what is decoded
  how,       \* "kept", "cut", "unknown" or "joined": what happened to it
  second,    \* the struct that was joined
  reader, dest,
  accepted   \* by the decoder

vars == <<stage, source, flags, room, buffer, wire, how, second, reader, dest, accepted>>

Whole(x, fl) == pb_encode_ex(pb_ostream_from_buffer(HugeSize), x.name, x.m, fl)

ASSUME ReadersAssumption ==
  \A x \in Structs : x.name \in DOMAIN Descriptors /\ Readers[x.name] \subseteq DOMAIN Descriptors
ASSUME BeforesAssumption == \A x \in Befores : x.name \in DOMAIN Descriptors

Init ==
  /\ stage = "new" /\ source \in Structs /\ flags \in Flags
  /\ room = 0 /\ buffer = <<>> /\ wire = <<>> /\ how = "kept" /\ second = source
  /\ reader = source.name /\ dest = source.m /\ accepted = FALSE

Encode ==
  /\ stage = "new"
  /\ \E n \in 0..Whole(source, flags).written :
       \E st \in {pb_encode_ex(pb_ostream_from_buffer(n), source.name, source.m, flags)} :
         /\ room' = n /\ buffer' = st.out
         /\ stage' = IF st.ok THEN "encoded" ELSE "refused"
  /\ UNCHANGED <<source, flags, wire, how, second, reader, dest, accepted>>

\* Where the fields of a message begin, and where the last ends.
RECURSIVE BordersFrom(_)
BordersFrom(s) ==
  IF ~s.ok \/ s.left = 0 THEN {s.at}
  ELSE LET t == pb_decode_tag(s) IN {s.at} \cup BordersFrom(pb_skip_field(t.s, t.wt))
Borders(b) == BordersFrom(pb_istream_from_buffer(b))

Send(kind, b) ==
  /\ stage = "encoded" /\ stage' = "sent" /\ how' = kind /\ wire' = b
  /\ UNCHANGED <<source, flags, room, buffer, reader, dest, accepted>>

SendKept == Send("kept", buffer) /\ UNCHANGED second
SendCut ==
  \E k \in 0..(Len(buffer) - 1) : Send("cut", SubSeq(buffer, 1, k)) /\ UNCHANGED second
SendUnknown ==
  /\ flags = {}
  /\ \E k \in Borders(buffer), u \in Unknown :
       Send("unknown", SubSeq(buffer, 1, k) \o u \o SubSeq(buffer, k + 1, Len(buffer)))
  /\ UNCHANGED second
\* The struct or one in it has a callback that writes something.
RECURSIVE Calls(_, _)
Calls(name, m) ==
  \E f \in Fields(name) :
    \/ HasCallback(f) /\ m[f.off].puts # <<>>
    \/ PB_LTYPE_IS_SUBMSG(f.lt) /\ f.at = "STATIC" /\ f.ht # "REPEATED" /\ f.ht # "ONEOF"
         /\ Calls(f.sub, m[f.off])

\* Bound: of structs without such callbacks.
SendJoined ==
  /\ flags = {} /\ ~Calls(source.name, source.m)
  /\ \E x \in Structs :
       /\ x.name = source.name /\ ~Calls(x.name, x.m) /\ second' = x
       /\ \E st \in {Whole(x, {})} : st.ok /\ Send("joined", buffer \o st.out)

\* A decoder that is to merge takes the struct as it is.
Decode ==
  /\ stage = "sent" /\ stage' = "decoded"
  /\ \E r \in Readers[source.name], b \in Befores :
       /\ b.name = r /\ reader' = r
       /\ \E t \in {pb_decode_ex(pb_istream_from_buffer(wire), r, b.m, flags)} :
            accepted' = t.s.ok /\ dest' = t.m
  /\ UNCHANGED <<source, flags, room, buffer, wire, how, second>>

Next == Encode \/ SendKept \/ SendCut \/ SendUnknown \/ SendJoined \/ Decode
Spec == Init /\ [][Next]_vars

(***************************************************************************)
(* What a struct says: of every field the values it has.                   *)
(***************************************************************************)
RECURSIVE Meaning(_, _)

ValueOf(f, v) ==
  CASE f.lt = "BYTES" -> SubSeq(v.bytes, 1, v.size)
    [] f.lt = "STRING" -> SubSeq(v, 1, Min({i \in 1..Len(v) : v[i] = 0}) - 1)
    [] PB_LTYPE_IS_SUBMSG(f.lt) -> Meaning(f.sub, v)
    [] OTHER -> v

PointedTo(f, v) ==
  CASE f.lt \notin {"STRING", "BYTES"} -> ValueOf(f, v)
    [] OTHER -> IF v = <<>> THEN <<>> ELSE ValueOf(f, v[1])

ValuesOf(f, m) ==
  CASE HasCallback(f) \/ f.lt = "EXTENSION" -> <<>>
    [] f.at = "POINTER" ->
         IF m[f.off] = <<>> THEN <<>>
         ELSE IF f.ht = "REPEATED"
         THEN [i \in 1..SizeIn(f, m) |-> PointedTo(f, m[f.off][1][i])]
         ELSE <<ValueOf(f, m[f.off][1])>>
    [] f.ht = "REPEATED" -> [i \in 1..SizeIn(f, m) |-> ValueOf(f, m[f.off][i])]
    [] f.ht = "ONEOF" -> IF SizeIn(f, m) = f.tag THEN <<ValueOf(f, m[f.off])>> ELSE <<>>
    [] OTHER -> IF HasSize(f) /\ f.ht = "OPTIONAL" /\ ~SizeIn(f, m) THEN <<>>
                ELSE <<ValueOf(f, m[f.off])>>

ExtensionsOf(f, m) ==
  IF f.lt = "EXTENSION"
  THEN [k \in 1..Len(m[f.off]) |-> ValuesOf(m[f.off][k].type, m[f.off][k].m)] ELSE <<>>

Meaning(name, m) ==
  LET fs == Descriptors[name].fields
  IN [i \in 1..Len(fs) |-> <<ValuesOf(fs[i], m), ExtensionsOf(fs[i], m)>>]

(***************************************************************************)
(* Properties.                                                             *)
(***************************************************************************)
\* n bytes with what the flags add.
SizeWith(n, fl) ==
  CASE "DELIMITED" \in fl -> n + Len(VarintOf(n))
    [] fl = {"NULLTERMINATED"} -> n + 1
    [] OTHER -> n

\* The reader has the same fields, though perhaps not allocated the same way.
Alike(a, b) ==
  LET shape(name) == [i \in DOMAIN Descriptors[name].fields |->
                        LET f == Descriptors[name].fields[i] IN <<f.tag, f.lt, f.ht>>]
  IN shape(a) = shape(b)

\* A decode function of the program took a submessage for itself.
Intercepted ==
  \E f \in Fields(reader) : HasOwnCallback(f) /\ dest[OwnCallback(f)].takes > 0

Decoded == stage = "decoded" /\ ~Intercepted
Same == Decoded /\ Alike(reader, source.name)
Got == Meaning(reader, dest)

\* What was encoded is decoded as the same, in whatever struct and whatever it held
\* before; fields that the decoder does not know are no matter to it, wherever they are.
RoundTrip ==
  Same /\ how \in {"kept", "unknown"} => accepted /\ Got = Meaning(source.name, source.m)

\* No number is taken for another when the member is narrower or wider than the one it
\* came from: the decoder gets it right or refuses the message.  Of a plain number it
\* looks at the lower 32 bits only when the member has no more (pb_dec_varint, whose
\* comment gives the reason): 2^32 + 3 is then taken for 3, and no other way.
Number(f, v) == Extend(v, f.lt # "UVARINT")
SeenBy(g, n) == IF g.lt = "VARINT" /\ g.size <= 4 THEN Extend(SubSeq(n, 1, 4), TRUE) ELSE n
NoneMistaken ==
  stage = "decoded" /\ how = "kept" /\ accepted =>
    \A f \in Fields(source.name), g \in Fields(reader) :
      /\ f.tag = g.tag /\ f.lt = g.lt /\ f.lt \in {"VARINT", "UVARINT", "SVARINT"}
      /\ f.ht # "REPEATED" /\ Present(Descriptors[source.name], f, source.m)
      => Number(g, dest[g.off]) = SeenBy(g, Number(f, source.m[f.off]))

RECURSIVE TagsFrom(_)
TagsFrom(s) ==
  IF s.left = 0 THEN <<>>
  ELSE LET t == pb_decode_tag(s) IN <<t.tag>> \o TagsFrom(pb_skip_field(t.s, t.wt))

\* A message that was cut inside a field is refused, and a whole one without all required
\* fields or with a part of a fixed array.
AcceptedIsWhole ==
  stage = "decoded" /\ accepted =>
    /\ how = "cut" => "DELIMITED" \notin flags /\ Len(wire) \in Borders(buffer)
    /\ flags = {} =>
         LET tags == TagsFrom(pb_istream_from_buffer(wire))
         IN \A f \in Fields(reader) :
              /\ f.ht = "REQUIRED" => f.tag \in ToSet(tags)
              /\ f.fixed /\ f.lt \notin Packable =>
                   Len(SelectSeq(tags, LAMBDA tag : tag = f.tag)) % f.count = 0

RECURSIVE Usable(_, _)
UsableDatum(f, v) ==
  CASE f.lt = "BYTES" -> v.size <= f.size - 2 /\ Len(v.bytes) = f.size - 2
    [] f.lt = "STRING" -> Len(v) = f.size /\ \E i \in 1..Len(v) : v[i] = 0
    [] PB_LTYPE_IS_SUBMSG(f.lt) -> Usable(f.sub, v)
    [] OTHER -> Len(v) = f.size
Usable(name, m) ==
  \A f \in Fields(name) :
    f.at = "STATIC" =>
      /\ f.ht = "REPEATED" =>
           SizeIn(f, m) <= f.count /\ \A i \in 1..SizeIn(f, m) : UsableDatum(f, m[f.off][i])
      /\ f.ht = "ONEOF" => (SizeIn(f, m) = f.tag => UsableDatum(f, m[f.off]))
      /\ f.ht \in {"REQUIRED", "OPTIONAL"} => UsableDatum(f, m[f.off])

DecodesToSame(st) ==
  /\ st.ok
  /\ \E t \in {pb_decode(pb_istream_from_buffer(st.out), reader, dest)} :
       t.s.ok /\ Meaning(reader, t.m) = Got

\* An accepted struct is one that can be used: no count beyond its array, no size
\* beyond its bytes, every string ended, in submessages too; it can be encoded, and says
\* the same when that is decoded, whatever was done to the message.
AcceptedIsUsable ==
  stage = "decoded" /\ accepted =>
    /\ Usable(reader, dest)
    /\ flags = {} => DecodesToSame(Whole([name |-> reader, m |-> dest], {}))

\* Nothing of what the struct held before is left.
Untainted ==
  \A b \in Befores : b.name = reader =>
    Got = Meaning(reader, pb_decode_ex(pb_istream_from_buffer(wire), reader, b.m, flags).m)
\* "Callback fields of the destination structure must be initialized by caller.  All
\* other fields will be initialized by this function", pb_decode.h says, of arrays of a
\* fixed length too.
AllInitialized == stage = "decoded" /\ accepted => Untainted

AsAnnounced(sizing) ==
  /\ stage = "encoded" <=> sizing.ok /\ room >= SizeWith(sizing.written, flags)
  /\ stage = "encoded" => Len(buffer) = room
  /\ Len(buffer) <= room

\* A message that can be encoded is, exactly when the buffer is as long as
\* pb_get_encoded_size says, and no byte is written behind the buffer's end; of what a
\* callback writes the size is not known before, but however often it was called, every
\* submessage is as long as its head says.
AnnouncedSizes ==
  /\ stage \in {"encoded", "refused"} /\ ~Calls(source.name, source.m) =>
       AsAnnounced(pb_get_encoded_size(source.name, source.m))
  /\ stage = "encoded" /\ flags = {} /\ Calls(source.name, source.m) =>
       pb_decode(pb_istream_from_buffer(buffer), source.name, source.m).s.ok

RECURSIVE Merged(_, _, _)

\* A field that proto3 leaves out says nothing, and of a union the last member stays.
LeftOut(name, f, m) ==
  f.single /\ ~PB_LTYPE_IS_SUBMSG(f.lt) /\ pb_check_proto3_default_value(Descriptors[name], f, m)
Displaced(f, n) == f.ht = "ONEOF" /\ SizeIn(f, n) \notin {0, f.tag}

MergedValues(name, f, m, n) ==
  LET first == IF Displaced(f, n) THEN <<>> ELSE ValuesOf(f, m)
      last == IF LeftOut(name, f, n) THEN <<>> ELSE ValuesOf(f, n)
  IN CASE f.ht = "REPEATED" -> IF f.fixed THEN last ELSE first \o last
       [] f.ht # "REPEATED" /\ (first = <<>> \/ last = <<>>) -> first \o last
       [] OTHER -> IF PB_LTYPE_IS_SUBMSG(f.lt) THEN <<Merged(f.sub, m[f.off], n[f.off])>> ELSE last

MergedExtensions(f, m, n) ==
  IF f.lt = "EXTENSION"
  THEN [k \in 1..Len(m[f.off]) |->
          MergedValues("", m[f.off][k].type, m[f.off][k].m, n[f.off][k].m)] ELSE <<>>

Merged(name, m, n) ==
  LET fs == Descriptors[name].fields
  IN [i \in 1..Len(fs) |-> <<MergedValues(name, fs[i], m, n), MergedExtensions(fs[i], m, n)>>]

\* Two messages in a row are merged: of a field with one value the last that was encoded
\* is kept, arrays come one behind the other, submessages are merged again.
Joined ==
  Decoded /\ how = "joined" /\ accepted /\ reader = source.name =>
    Got = Merged(reader, source.m, second.m)
================================================================================
