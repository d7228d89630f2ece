-------------------------------- MODULE TplUsage --------------------------------
(***************************************************************************)
(* tpl_usage.h: tpl_encode and tpl_encode_array dump one or several        *)
(* structs into the caller's buffer, tpl_decode and tpl_decode_array load  *)
(* and unpack them.  A step is one call to tpl.  A single struct is packed *)
(* from and unpacked to where the caller has it, an array's structs one    *)
(* after another through the local tmp that the map points to.             *)
(***************************************************************************)
EXTENDS TplCalls, SampleData

CONSTANTS
  Inputs,     \* what is encoded: [array |-> BOOLEAN, infos |-> sequence of structs,
              \* room |-> the bytes of the caller's buffer, MAX_BUFFER in main.c]
  Foreign,    \* encodings by the other libraries that decode may be given
  Stale       \* what the caller's structs hold before decoding

VARIABLES
  pc, input,
  tn,         \* the tpl, NoTpl when there is none
  tmp,        \* the struct that the map points to
  elem,       \* structs packed or unpacked so far
  count,      \* the length of an array that is unpacked
  buffer,     \* what was dumped, <<>> before
  encoded,    \* what encode returned
  text,       \* what decode was given
  out_infos, out_count, ret

decodeVars == <<text, out_infos, out_count, ret>>
vars == <<pc, input, tn, tmp, elem, count, buffer, encoded, decodeVars>>

(***************************************************************************)
(* wifi_softap_info_t in memory: each field's offset, element type and     *)
(* number of elements.                                                     *)
(***************************************************************************)
Layout ==
  <<[name |-> "device_count", off |-> 0, type |-> "i", num |-> 1],
    [name |-> "state", off |-> 4, type |-> "i", num |-> 1],
    [name |-> "ipv4", off |-> 8, type |-> "c", num |-> IPV4_LEN],
    [name |-> "ipv6", off |-> 12, type |-> "c", num |-> IPV6_LEN],
    [name |-> "ssid", off |-> 28, type |-> "c", num |-> WIFI_SSID_MAX_LEN + 1],
    [name |-> "bssid", off |-> 61, type |-> "c", num |-> WIFI_BT_MAC_ADDRESS_LEN],
    [name |-> "security", off |-> 68, type |-> "i", num |-> 1],
    [name |-> "channel", off |-> 72, type |-> "c", num |-> 1],
    [name |-> "frequency", off |-> 74, type |-> "v", num |-> 1]>>

Info == "info"  \* the struct the map was made for

BytesOf(type, v) == SubSeq(Word(v), 1, tpl_types[type])

Signed(b) == b[1] + 256 * (b[2] + 256 * (b[3] + 256 * (IF b[4] > 127 THEN b[4] - 256 ELSE b[4])))
NumberOf(type, b) ==
  CASE type = "i" -> Signed(b)
    [] type = "v" -> b[1] + 256 * b[2]
    [] OTHER -> b[1]

InField(f, off) == f.off <= off /\ off < f.off + f.num

Memory(info) ==
  LET addrs == UNION {{<<Info, f.off + i>> : i \in 0..(f.num - 1)} : f \in Range(Layout)}
      field(a) == CHOOSE f \in Range(Layout) : InField(f, a[2])
      value(f, i) == IF f.num = 1 THEN info[f.name] ELSE info[f.name][i]
  IN [a \in addrs |-> BytesOf(field(a).type, value(field(a), a[2] - field(a).off + 1))]

Struct(mem) ==
  LET value(f) ==
        IF f.num = 1 THEN NumberOf(f.type, mem[<<Info, f.off>>])
        ELSE [i \in 1..f.num |-> mem[<<Info, f.off + i - 1>>][1]]
  IN [name \in {f.name : f \in Range(Layout)} |->
        value(CHOOSE f \in Range(Layout) : f.name = name)]

\* The maps: "S(ii$(c#c#)c#c#icv)", in an A for arrays, with the sizes of the arrays.
Char(c) == [c |-> c, addr |-> "", nums |-> <<>>]
Sized(n) == <<Char("c"), [Char("#") EXCEPT !.nums = <<n>>]>>
StructFormat ==
  <<[Char("S") EXCEPT !.addr = Info], Char("("), Char("i"), Char("i"), Char("$"), Char("(")>>
    \o Sized(IPV4_LEN) \o Sized(IPV6_LEN) \o <<Char(")")>>
    \o Sized(WIFI_SSID_MAX_LEN + 1) \o Sized(WIFI_BT_MAC_ADDRESS_LEN)
    \o <<Char("i"), Char("c"), Char("v"), Char(")")>>
ArrayFormat == <<Char("A"), Char("(")>> \o StructFormat \o <<Char(")")>>

Map == Mapped(tpl_map(IF input.array THEN ArrayFormat ELSE StructFormat))

\* memset(&tmp, 0, sizeof(tmp))
Zero == Uniform(0, 0)

NoTpl == Mapped(MapInit)

Index == IF input.array THEN 1 ELSE 0

Init ==
  /\ pc = "encode" /\ input \in Inputs
  /\ tn = NoTpl /\ tmp = Zero /\ elem = 0 /\ count = 0
  /\ buffer = <<>> /\ encoded = "none" /\ text = <<>>
  /\ out_infos = Fill(MAX_ARRAY, Stale) /\ out_count = 0 /\ ret = "none"

(***************************************************************************)
(* Encoding.                                                               *)
(***************************************************************************)
tpl_encode ==
  /\ pc = "encode"
  /\ IF input.infos = <<>>
     THEN pc' = "done" /\ encoded' = "fail" /\ UNCHANGED <<tn, tmp>>
     ELSE /\ pc' = "pack" /\ tn' = Map
          /\ tmp' = IF input.array THEN Zero ELSE input.infos[1]
          /\ UNCHANGED encoded
  /\ UNCHANGED <<input, elem, count, buffer, decodeVars>>

\* An array's struct is copied to where the map points before it is packed.
\* _Once: only the first is.
CopyIn_Once(i) == IF i = 1 THEN input.infos[1] ELSE tmp
CopyIn(i) == input.infos[i]

Pack ==
  /\ pc = "pack"
  /\ tmp' = IF input.array THEN CopyIn(elem + 1) ELSE tmp
  /\ LET p == tpl_pack(tn, Memory(tmp'), Index)
     IN /\ tn' = p.tpl
        /\ IF p.rc # 0 THEN pc' = "free" /\ encoded' = "fail" /\ UNCHANGED elem
           ELSE /\ elem' = elem + 1 /\ UNCHANGED encoded
                /\ pc' = IF elem' < Len(input.infos) THEN "pack" ELSE "dump"
  /\ UNCHANGED <<input, count, buffer, decodeVars>>

\* tpl_dump into MAX_BUFFER bytes, then tpl_dump for the size.
Dump ==
  /\ pc = "dump"
  /\ LET d == tpl_dump(tn, input.room)
     IN buffer' = d.image /\ encoded' = IF d.rc = 0 THEN "ok" ELSE "fail"
  /\ pc' = "free"
  /\ UNCHANGED <<input, tn, tmp, elem, count, decodeVars>>

(***************************************************************************)
(* Decoding.                                                               *)
(***************************************************************************)
\* decode is given what encode made in the same process or received whole from
\* a client, whose library may be another one; arrays never leave the process.
Received == {buffer} \cup IF input.array THEN {} ELSE Foreign

\* What is returned when the image is refused or its array is empty.
Refusal == "fail"

tpl_decode(bytes) ==
  /\ pc = "decode"
  /\ \E l \in {tpl_load(Map, bytes, {"MEM"})} :
       /\ text' = bytes /\ tn' = l.tpl /\ elem' = 0
       /\ count' = IF input.array /\ l.rc = 0 THEN tpl_Alen(l.tpl, 1) ELSE 0
       /\ tmp' = IF input.array THEN Zero ELSE out_infos[1]
       /\ IF l.rc = 0 /\ (input.array => count' > 0)
          THEN pc' = "unpack" /\ UNCHANGED ret
          ELSE pc' = "free" /\ ret' = Refusal
  /\ UNCHANGED <<input, buffer, encoded, out_infos, out_count>>

\* *out_count gets the length from before the first element was taken, however
\* many elements the loop found.
Unpack ==
  /\ pc = "unpack"
  /\ \E u \in {tpl_unpack(tn, Memory(tmp), Index)} :
       /\ tn' = u.tpl /\ tmp' = Struct(u.mem)
       /\ IF u.rc > 0 THEN elem' = elem + 1 /\ out_infos' = [out_infos EXCEPT ![elem + 1] = tmp']
          ELSE UNCHANGED <<elem, out_infos>>
       /\ IF input.array /\ u.rc > 0 /\ elem + 1 < count THEN UNCHANGED <<pc, ret, out_count>>
          ELSE /\ pc' = "free"
               /\ ret' = IF input.array \/ u.rc = 1 THEN "ok" ELSE "fail"
               /\ out_count' = IF input.array THEN count ELSE out_count
  /\ UNCHANGED <<input, count, buffer, encoded, text>>

\* cleanup: the tpl is freed on every path.
Free ==
  /\ pc = "free"
  /\ tn' = NoTpl
  /\ pc' = IF ret = "none" /\ encoded = "ok" THEN "decode" ELSE "done"
  /\ UNCHANGED <<input, tmp, elem, count, buffer, encoded, decodeVars>>

Next ==
  \/ tpl_encode \/ Pack \/ Dump \/ Unpack \/ Free
  \/ \E bytes \in Received : tpl_decode(bytes)

Spec == Init /\ [][Next]_vars

(***************************************************************************)
(* Properties.                                                             *)
(***************************************************************************)
Own == text = buffer

\* What is decoded from this library's own image is what was encoded, every byte
\* of every field, and as many structs as are reported; structs beyond them keep
\* what they held.
RoundTrip ==
  pc = "done" /\ encoded = "ok" /\ Own =>
    LET n == Len(input.infos)
    IN /\ ret = "ok"
       /\ input.array => out_count = n
       /\ \A i \in 1..n : out_infos[i] = input.infos[i]
       /\ \A i \in n + 1 .. MAX_ARRAY : out_infos[i] = Stale

\* Bytes made by another library are refused before anything is stored.
ForeignIsRefused ==
  pc = "done" /\ encoded = "ok" /\ ~Own =>
    ret = "fail" /\ out_count = 0 /\ out_infos = Fill(MAX_ARRAY, Stale)

\* A struct takes 74 bytes, without its padding; the format, the four numbers and
\* the preamble come before.
InputSize(in) ==
  8 + 4 * 4 + 74 * Len(in.infos) + (IF in.array THEN 23 + 4 ELSE 20)

\* encode succeeds exactly when the image fits the buffer, whose size is then that
\* of the format.
FitsOrFails ==
  encoded # "none" /\ input.infos # <<>> =>
    /\ encoded = "ok" <=> InputSize(input) <= input.room
    /\ encoded = "ok" => Len(buffer) = InputSize(input)
================================================================================
