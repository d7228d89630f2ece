------------------------------- MODULE MpackUsage -------------------------------
(***************************************************************************)
(* mpack_usage.h: mpack_encode and mpack_encode_array write one or several *)
(* structs into the caller's buffer, mpack_decode and mpack_decode_array   *)
(* read them back.  A step is one call to mpack.  Encoding goes on after   *)
(* an error of the writer; decoding stores into the caller's structs as it *)
(* goes, whether or not the reader still stands.                           *)
(***************************************************************************)
EXTENDS MpackCalls, SampleData, SequencesExt

CONSTANTS
  Inputs,     \* what is encoded: [array |-> BOOLEAN, infos |-> sequence of structs,
              \* room |-> the bytes of the caller's buffer, MAX_BUFFER in main.c]
  Foreign,    \* encodings by the other libraries that decode may be given
  Stale       \* what the caller's structs hold before decoding

\* The values that a wifi_softap_info_t can hold.
Array(n) == [1..n -> Byte]
wifi_softap_info_t ==
  [device_count : Int32, state : Int32, ipv4 : Array(IPV4_LEN), ipv6 : Array(IPV6_LEN),
   ssid : Array(WIFI_SSID_MAX_LEN + 1), bssid : Array(WIFI_BT_MAC_ADDRESS_LEN),
   security : Int32, channel : Byte, frequency : UInt16]

\* An assumption on the constants: what an instance gives are structs of the program, no
\* more of them than its arrays hold, and bytes.
InputsOK ==
  /\ \A in \in Inputs :
       /\ in.infos \in Seq(wifi_softap_info_t) /\ Len(in.infos) <= MAX_ARRAY
       /\ in.array \in BOOLEAN /\ (~in.array => Len(in.infos) = 1)
       /\ in.room \in Nat
  /\ Foreign \subseteq Seq(Byte)
  /\ Stale \in wifi_softap_info_t

VARIABLES
  pc, input,
  writer, encoded,          \* encoding: the writer, and what the function returned
  reader, count, elem, field,  \* decoding: the struct and the field read next
  out_infos, out_count, ret

vars == <<pc, input, writer, encoded, reader, count, elem, field, out_infos, out_count, ret>>

\* The fixed order of the fields and the call that each one is moved with.
Schema ==
  <<[name |-> "device_count", kind |-> "i32"], [name |-> "state", kind |-> "i32"],
    [name |-> "ipv4", kind |-> "bin"], [name |-> "ipv6", kind |-> "bin"],
    [name |-> "ssid", kind |-> "str"], [name |-> "bssid", kind |-> "bin"],
    [name |-> "security", kind |-> "i32"],
    [name |-> "channel", kind |-> "u8"], [name |-> "frequency", kind |-> "u16"]>>

Init ==
  /\ pc = "encode" /\ input \in Inputs
  /\ writer = mpack_writer_init(input.room) /\ encoded = "none"
  /\ reader = mpack_reader_init_data(<<>>)
  /\ count = 0 /\ elem = 1 /\ field = 0
  /\ out_infos = Fill(MAX_ARRAY, Stale)
  /\ out_count = 0 /\ ret = "none"

decodeVars == <<reader, out_infos, out_count, ret>>

(***************************************************************************)
(* Encoding.                                                               *)
(***************************************************************************)
\* mpack_encode or mpack_encode_array up to the first struct.
mpack_encode ==
  /\ pc = "encode"
  /\ IF input.infos = <<>>
     THEN pc' = "done" /\ encoded' = "fail" /\ UNCHANGED <<writer, count>>
     ELSE /\ pc' = "write" /\ count' = Len(input.infos)
          /\ writer' = IF input.array THEN mpack_start_array(writer, count') ELSE writer
          /\ UNCHANGED encoded
  /\ UNCHANGED <<input, elem, field, decodeVars>>

\* mpack_writer_destroy.
Encoded(w) == IF mpack_writer_destroy(w) = "ok" THEN "ok" ELSE "fail"

\* The length of an ssid is that of its string, at most the 32 bytes before the last of the
\* array.
SsidBytes(ssid) == SubSeq(ssid, 1, strnlen(ssid, WIFI_SSID_MAX_LEN))

WriteField(w, f, v) ==
  CASE f.kind = "i32" -> mpack_write_i32(w, v)
    [] f.kind = "u8" -> mpack_write_u8(w, v)
    [] f.kind = "u16" -> mpack_write_u16(w, v)
    [] f.kind = "bin" -> mpack_write_bin(w, v)
    [] f.kind = "str" -> mpack_write_bin(w, SsidBytes(v))

\* One call of write_single_structure; the next field, the next struct, or the
\* end of the function.  No call's error stops the others.
write_single_structure ==
  /\ pc = "write"
  /\ writer' = IF field = 0 THEN mpack_start_array(writer, Len(Schema))
               ELSE WriteField(writer, Schema[field],
                               input.infos[elem][Schema[field].name])
  /\ IF field < Len(Schema)
     THEN field' = field + 1 /\ UNCHANGED <<pc, elem, encoded>>
     ELSE /\ field' = 0
          /\ IF elem < count
             THEN elem' = elem + 1 /\ UNCHANGED <<pc, encoded>>
             ELSE /\ elem' = 1 /\ encoded' = Encoded(writer')
                  /\ pc' = IF encoded' = "ok" THEN "decode" ELSE "done"
  /\ UNCHANGED <<input, count, decodeVars>>

(***************************************************************************)
(* Decoding.                                                               *)
(***************************************************************************)
\* mpack_reader_destroy; *out_count is stored on success only.
Result(r) == IF mpack_reader_destroy(r) = "ok" THEN "ok" ELSE "fail"

Finish(r, n) ==
  /\ pc' = "done" /\ reader' = r /\ ret' = Result(r)
  /\ out_count' = IF ret' = "ok" /\ input.array THEN n ELSE out_count
  /\ UNCHANGED <<count, elem, field>>

\* The first call of mpack_decode or mpack_decode_array, up to the first struct.
mpack_decode(bytes) ==
  /\ pc = "decode"
  /\ LET r == mpack_reader_init_data(bytes)
         a == mpack_expect_array(r)
     IN CASE ~input.array ->
               /\ pc' = "read" /\ reader' = r /\ count' = 1
               /\ UNCHANGED <<ret, out_count, elem, field>>
          [] input.array /\ a.reader.error = "ok" /\ a.value > 0 ->
               /\ pc' = "read" /\ reader' = a.reader /\ count' = a.value
               /\ UNCHANGED <<ret, out_count, elem, field>>
          [] OTHER -> Finish(a.reader, a.value)
  /\ UNCHANGED <<input, writer, encoded, out_infos>>

\* read_single_structure returned -1 in the middle of a struct.
Break(r) == Finish(mpack_reader_flag_error(r, "data"), count)

Store(name, v) == out_infos' = [out_infos EXCEPT ![elem][name] = v]

\* After a call that does not return early: the next field, the next struct, or
\* the end of the loop.
Continue(r) ==
  IF field < Len(Schema)
  THEN /\ field' = field + 1 /\ reader' = r
       /\ UNCHANGED <<pc, ret, out_count, count, elem>>
  ELSE IF elem < count
  THEN /\ field' = 0 /\ elem' = elem + 1 /\ reader' = r
       /\ UNCHANGED <<pc, ret, out_count, count>>
  ELSE Finish(r, count)

ReadHeader ==
  /\ pc = "read" /\ field = 0
  /\ Continue(mpack_expect_array_match(reader, Len(Schema)))
  /\ UNCHANGED <<input, writer, encoded, out_infos>>

\* A number is stored even when the call failed and returned 0.
ReadNumber ==
  /\ pc = "read" /\ field # 0
  /\ LET f == Schema[field]
         e == CASE f.kind = "u8" -> mpack_expect_u8(reader)
                [] f.kind = "u16" -> mpack_expect_u16(reader)
                [] OTHER -> mpack_expect_i32(reader)
     IN /\ f.kind \in {"u8", "u16", "i32"}
        /\ Store(f.name, e.value)
        /\ Continue(e.reader)
  /\ UNCHANGED <<input, writer, encoded>>

\* The local buf takes WIFI_SSID_MAX_LEN bytes.
ReadBin ==
  /\ pc = "read" /\ field # 0 /\ Schema[field].kind = "bin"
  /\ \E e \in {mpack_expect_bin_buf(reader, WIFI_SSID_MAX_LEN)} :
       IF Len(e.value) = Len(Stale[Schema[field].name])
       THEN Store(Schema[field].name, e.value) /\ Continue(e.reader)
       ELSE Break(e.reader) /\ UNCHANGED out_infos
  /\ UNCHANGED <<input, writer, encoded>>

\* The bytes and the zero that ends them; what is behind stays.
Terminated(old, s) == Over(old, Append(s, 0))

ReadSsid ==
  /\ pc = "read" /\ field # 0 /\ Schema[field].kind = "str"
  /\ \E e \in {mpack_expect_bin_buf(reader, WIFI_SSID_MAX_LEN)} :
       Store("ssid", Terminated(out_infos[elem].ssid, e.value)) /\ Continue(e.reader)
  /\ UNCHANGED <<input, writer, encoded>>

\* decode is given what encode made in the same process or received whole from
\* a client, whose library may be another one; arrays never leave the process.
Received == {writer.buffer} \cup IF input.array THEN {} ELSE Foreign

Next ==
  \/ mpack_encode \/ write_single_structure
  \/ \E bytes \in Received : mpack_decode(bytes)
  \/ ReadHeader \/ ReadNumber \/ ReadBin \/ ReadSsid

Spec == Init /\ [][Next]_vars

(***************************************************************************)
(* Properties.                                                             *)
(***************************************************************************)
Own == reader.data = writer.buffer

\* What is decoded from this library's own bytes is what was encoded, struct for
\* struct and field for field, whatever the caller's memory held before; structs
\* beyond the count are not touched.
RoundTrip ==
  pc = "done" /\ encoded = "ok" /\ Own =>
    LET n == Len(input.infos)
    IN /\ ret = "ok"
       /\ input.array => out_count = n
       /\ \A i \in 1..n : SameInfo(out_infos[i], input.infos[i])
       /\ \A i \in n + 1 .. MAX_ARRAY : out_infos[i] = Stale

\* Bytes made by another library are refused, and no count is reported.
ForeignIsRefused ==
  pc = "done" /\ encoded = "ok" /\ ~Own => ret = "fail" /\ out_count = 0

\* The bytes that an input takes, from the MessagePack format.
NumberSize(v) ==
  CASE v \in -32..127 -> 1
    [] v \in -128..-33 \cup 128..255 -> 2
    [] v \in -32768..-129 \cup 256..65535 -> 3
    [] OTHER -> 5
StructSize(x) ==
  1 + NumberSize(x.device_count) + NumberSize(x.state) + (2 + IPV4_LEN) + (2 + IPV6_LEN)
    + (2 + strnlen(x.ssid, WIFI_SSID_MAX_LEN)) + (2 + WIFI_BT_MAC_ADDRESS_LEN)
    + NumberSize(x.security) + NumberSize(x.channel) + NumberSize(x.frequency)
InputSize(in) ==
  FoldLeft(LAMBDA n, x : n + StructSize(x),
           IF in.array THEN (IF Len(in.infos) <= 15 THEN 1 ELSE 3) ELSE 0, in.infos)

\* encode succeeds exactly when the whole encoding fits the buffer, and then its
\* size is that of the format: an overflow is never reported as a short success,
\* although writes after it may still have landed.
FitsOrFails ==
  encoded # "none" /\ input.infos # <<>> =>
    /\ encoded = "ok" <=> InputSize(input) <= input.room
    /\ encoded = "ok" => mpack_writer_buffer_used(writer) = InputSize(input)
===============================================================================
