------------------------------ MODULE NanopbUsage ------------------------------
(***************************************************************************)
(* nanopb_usage.h: nanopb_encode and nanopb_encode_array move one or       *)
(* several structs into a generated message and encode it into the         *)
(* caller's buffer, nanopb_decode and nanopb_decode_array decode a message *)
(* and move it into the caller's structs.  A step is one of the four.      *)
(* Members of a generated struct are named by their offsets.               *)
(***************************************************************************)
EXTENDS PbEncode, PbDecode, SampleData

CONSTANTS
  Inputs,     \* what is encoded: [array |-> BOOLEAN, infos |-> sequence of structs,
              \* room |-> the bytes of the caller's buffer, MAX_BUFFER in main.c]
  Foreign,    \* encodings by the other libraries that decode may be given
  Stale       \* what the caller's structs hold before decoding

VARIABLES
  pc, input,
  buffer,   \* what was written
  encoded,  \* what encode returned
  text,     \* what decode was given
  out_infos, out_count, ret

vars == <<pc, input, buffer, encoded, text, out_infos, out_count, ret>>

Init ==
  /\ pc = "encode" /\ input \in Inputs
  /\ buffer = <<>> /\ encoded = "none" /\ text = <<>>
  /\ out_infos = Fill(MAX_ARRAY, Stale) /\ out_count = 0 /\ ret = "none"

(***************************************************************************)
(* The two structs.                                                        *)
(***************************************************************************)
Int32(n) == [i \in 1..4 |-> n \div 256 ^ (i - 1) % 256]
Signed(b) == b[1] + 256 * (b[2] + 256 * (b[3] + 256 * (IF b[4] > 127 THEN b[4] - 256 ELSE b[4])))

BytesMember(old, b) == [size |-> Len(b), bytes |-> Over(old.bytes, b)]

SsidBytes(ssid) == SubSeq(ssid, 1, strnlen(ssid, WIFI_SSID_MAX_LEN))

HasAddress == TRUE

parse_wifi_softap_info(info, message) ==
  [message EXCEPT
     ![0] = Int32(info.device_count), ![4] = Int32(info.state),
     ![8] = HasAddress,
     ![10] = (0 :> BytesMember(@[0], info.ipv4)) @@ (6 :> BytesMember(@[6], info.ipv6)),
     ![34] = BytesMember(@, SsidBytes(info.ssid)), ![70] = BytesMember(@, info.bssid),
     ![80] = Int32(info.security), ![84] = Int32(info.channel), ![88] = Int32(info.frequency)]

FirstBytes(member, max) == SubSeq(member.bytes, 1, Min({member.size, max}))

\* The address stays as it is when the message has none; channel and frequency keep
\* their low bytes.
parse_wifi_WifiSoftAPInfo(message, info) ==
  LET ip == message[10]
      address(old, b) == IF message[8] THEN Over(old, b) ELSE old
  IN [info EXCEPT
        !.device_count = Signed(message[0]), !.state = Signed(message[4]),
        !.ipv4 = address(@, FirstBytes(ip[0], IPV4_LEN)),
        !.ipv6 = address(@, FirstBytes(ip[6], IPV6_LEN)),
        !.ssid = Over(@, Append(FirstBytes(message[34], WIFI_SSID_MAX_LEN), 0)),
        !.bssid = SubSeq(message[70].bytes, 1, WIFI_BT_MAC_ADDRESS_LEN),
        !.security = Signed(message[80]),
        !.channel = message[84][1], !.frequency = message[88][1] + 256 * message[88][2]]

Type == IF input.array THEN "WifiSoftAPList" ELSE "WifiSoftAPInfo"

Message ==
  LET list == Zero("WifiSoftAPList")
      n == Len(input.infos)
      ap(i, old) == IF i > n THEN old ELSE parse_wifi_softap_info(input.infos[i], old)
  IN IF input.array THEN [list EXCEPT ![0] = n, ![4] = [i \in DOMAIN @ |-> ap(i, @[i])]]
     ELSE parse_wifi_softap_info(input.infos[1], Zero("WifiSoftAPInfo"))

(***************************************************************************)
(* The four functions.                                                     *)
(***************************************************************************)
nanopb_encode ==
  /\ pc = "encode"
  /\ \/ input.infos = <<>> /\ pc' = "done" /\ encoded' = "fail" /\ UNCHANGED buffer
     \/ /\ input.infos # <<>>
        /\ LET st == pb_encode(pb_ostream_from_buffer(input.room), Type, Message)
           IN /\ buffer' = st.out
              /\ IF st.ok THEN encoded' = "ok" /\ pc' = "decode"
                 ELSE encoded' = "fail" /\ pc' = "done"
  /\ UNCHANGED <<input, text, out_infos, out_count, ret>>

\* _Unchecked: what pb_decode returned is not looked at.
Taken_Unchecked(t) == TRUE
Taken(t) == t.s.ok

nanopb_decode(bytes) ==
  /\ pc = "decode" /\ pc' = "done" /\ text' = bytes
  /\ \E t \in {pb_decode(pb_istream_from_buffer(bytes), Type, Zero(Type))} :
       \/ (bytes = <<>> \/ ~Taken(t)) /\ ret' = "fail" /\ UNCHANGED <<out_count, out_infos>>
       \/ /\ bytes # <<>> /\ Taken(t) /\ ret' = "ok"
          /\ out_count' = IF input.array THEN t.m[0] ELSE out_count
          /\ out_infos' = [i \in DOMAIN out_infos |->
                             IF i > (IF input.array THEN t.m[0] ELSE 1) THEN out_infos[i]
                             ELSE parse_wifi_WifiSoftAPInfo(IF input.array THEN t.m[4][i] ELSE t.m,
                                                            out_infos[i])]
  /\ UNCHANGED <<input, buffer, encoded>>

\* decode is given what encode made in the same process or received whole from
\* a client, whose library may be another one; arrays never leave the process.
Received == {buffer} \cup IF input.array THEN {} ELSE Foreign

Next == nanopb_encode \/ \E bytes \in Received : nanopb_decode(bytes)
Spec == Init /\ [][Next]_vars

(***************************************************************************)
(* Properties.                                                             *)
(***************************************************************************)
Own == text = buffer

\* What is decoded from this library's own bytes is what was encoded, values of zero that
\* are left out included, whatever the caller's structs held; structs beyond the count are
\* not touched.
RoundTrip ==
  pc = "done" /\ encoded = "ok" /\ Own =>
    LET n == Len(input.infos)
    IN /\ ret = "ok"
       /\ input.array => out_count = n
       /\ \A i \in 1..n : SameInfo(out_infos[i], input.infos[i])
       /\ \A i \in n + 1 .. MAX_ARRAY : out_infos[i] = Stale

\* Bytes made by another library are refused before anything is stored, although a
\* protobuf decoder skips every field that it does not know.
ForeignIsRefused ==
  pc = "done" /\ encoded = "ok" /\ ~Own =>
    ret = "fail" /\ out_count = 0 /\ out_infos = Fill(MAX_ARRAY, Stale)

\* The bytes that an input takes, from the protobuf format: zero is left out, a negative
\* number fills 64 bits.
NumberSize(v) ==
  CASE v = 0 -> 0
    [] v < 0 -> 11
    [] v > 0 -> 1 + Cardinality({i \in 0..4 : v \div 128 ^ i > 0})
StringSize(n) == IF n = 0 THEN 0 ELSE 2 + n
StructSize(x) ==
  NumberSize(x.device_count) + NumberSize(x.state)
    + StringSize(StringSize(IPV4_LEN) + StringSize(IPV6_LEN))
    + StringSize(strnlen(x.ssid, WIFI_SSID_MAX_LEN)) + StringSize(WIFI_BT_MAC_ADDRESS_LEN)
    + NumberSize(x.security) + NumberSize(x.channel) + NumberSize(x.frequency)
InputSize(in) ==
  FoldLeft(LAMBDA n, x : n + (IF in.array THEN 2 ELSE 0) + StructSize(x), 0, in.infos)

\* encode succeeds exactly when the message fits the buffer, whose size is then that of
\* the format, though every struct and address was encoded more than once to learn it.
FitsOrFails ==
  encoded # "none" /\ input.infos # <<>> =>
    /\ encoded = "ok" <=> InputSize(input) <= input.room
    /\ encoded = "ok" => Len(buffer) = InputSize(input)
================================================================================
