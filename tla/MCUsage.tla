-------------------------------- MODULE MCUsage --------------------------------
(***************************************************************************)
(* The functions that main calls, in the library that the program was      *)
(* built with: the structs of its commands, structs at the bounds of every *)
(* field's type, buffers that some of them fit exactly, and the first      *)
(* bytes that the other two libraries make of the first sample.            *)
(***************************************************************************)
EXTENDS SampleData, SampleMessages

Libraries == {"mpack", "tpl", "nanopb"}

VARIABLES
  library,
  pc, input, encoded, out_infos, out_count, ret,  \* of all three
  writer, reader, field,                          \* of mpack_usage.h
  tn, tmp,                                        \* of tpl_usage.h
  elem, count, buffer, text

common == <<pc, input, encoded, out_infos, out_count, ret>>
vars == <<library, common, writer, reader, field, tn, tmp, elem, count, buffer, text>>

(***************************************************************************)
(* Inputs.                                                                 *)
(***************************************************************************)
MAX_BUFFER == 4096

One(x) == [array |-> FALSE, infos |-> <<x>>, room |-> MAX_BUFFER]
Several(s) == [array |-> TRUE, infos |-> s, room |-> MAX_BUFFER]
In(room, inputs) == {[in EXCEPT !.room = room] : in \in inputs}

\* A struct at the upper or the lower end of every type, its ssid full.
Highest == 2147483647
Largest ==
  [Uniform(255, Highest) EXCEPT !.frequency = 65535, !.ssid = Over(@, Append(Fill(32, 255), 0))]
Lowest == [Uniform(0, -Highest - 1) EXCEPT !.frequency = 0]
Sample == getSingleSampleData(0)
Stale == Uniform(170, 11)

Edge(n, len) ==
  [Sample EXCEPT !.device_count = n, !.security = -n,
                 !.channel = n % 256, !.frequency = n % 65536,
                 !.ssid = Over(Fill(33, 0), Fill(len, 65))]
Edges(numbers, lens) == {One(Edge(n, len)) : n \in numbers, len \in lens}

Commands ==
  {One(Sample), One(Samples(1)[1]), One(Largest), One(Lowest),
   Several(<<Lowest, Largest, Sample>>), Several(<<>>), Several(Fill(MAX_ARRAY, Largest))}
    \cup {Several(Samples(n)) : n \in {1, 2, 10}}
Few == {One(Lowest), One(Largest), Several(<<Sample>>), Several(<<Lowest, Sample>>)}

MpackInputs ==
  Commands \cup {Several(Fill(n, Lowest)) : n \in {15, 16}}
    \cup In(72, Few \cup Edges({0, 32, 33, 127, 128, 129, 255, 256, 32768, 32769, 65535, 65536},
                               {0, 1, 31, 32}))
TplInputs == Commands \cup In(790, {Several(Samples(n)) : n \in {1, 10}}) \cup In(117, {One(Sample)})
NanopbInputs ==
  Commands
    \cup Edges({0, 127, 128, 255, 256, 16383, 16384, 65535, 2097151, 2097152}, {0, 1, 31, 32})
    \cup In(64, Few \cup Edges({0, 127, 128, 255, 16384, 65535}, {0, 1, 2, 9, 10, 11, 12, 31, 32}))

MpackBytes ==
  <<153, 2, 2, 196, 4, 192, 168, 1, 100, 196, 16>> \o Fill(16, 0)
    \o <<196, 4, 77, 121, 65, 80, 196, 6, 222, 173, 190, 239, 0, 1, 2, 6, 205, 9, 133>>
TplBytes == <<116, 112, 108, 0, 118, 0, 0, 0>> \o Fill(110, 0)
NanopbBytes == <<8, 2, 16, 2, 26, 24, 10, 4, 192, 168, 1, 100>> \o Fill(39, 0)

(***************************************************************************)
(* One program, one library.                                               *)
(***************************************************************************)
Mpack == INSTANCE MpackUsage WITH Inputs <- MpackInputs, Foreign <- {TplBytes, NanopbBytes}
Tpl == INSTANCE TplUsage
         WITH Inputs <- TplInputs, Foreign <- {MpackBytes, NanopbBytes}, BigEndian <- FALSE
Nanopb == INSTANCE NanopbUsage
            WITH Inputs <- NanopbInputs, Foreign <- {MpackBytes, TplBytes}, Descriptors <- Generated

\* nanopb_encode_array has MAX_ARRAY elements in its list and does not look.
InputsOK == Mpack!InputsOK /\ \A in \in NanopbInputs : Len(in.infos) <= MAX_ARRAY

ofMpack == <<writer, reader, field>>
ofTpl == <<tn, tmp>>
ofLoops == <<elem, count>>
ofBytes == <<buffer, text>>

\* The variables of the others keep a value without a meaning.
Unused == 0

Rest ==
  /\ library = "none" /\ encoded = "none" /\ input = Unused
  /\ pc = Unused /\ out_infos = Unused /\ out_count = Unused /\ ret = Unused
  /\ writer = Unused /\ reader = Unused /\ field = Unused
  /\ tn = Unused /\ tmp = Unused /\ elem = Unused /\ count = Unused
  /\ buffer = Unused /\ text = Unused

Init ==
  \/ /\ library = "mpack" /\ Mpack!Init
     /\ tn = Unused /\ tmp = Unused /\ buffer = Unused /\ text = Unused
  \/ /\ library = "tpl" /\ Tpl!Init
     /\ writer = Unused /\ reader = Unused /\ field = Unused
  \/ /\ library = "nanopb" /\ Nanopb!Init
     /\ writer = Unused /\ reader = Unused /\ field = Unused
     /\ tn = Unused /\ tmp = Unused /\ elem = Unused /\ count = Unused

Next ==
  /\ UNCHANGED library
  /\ \/ library = "mpack" /\ Mpack!Next /\ UNCHANGED <<ofTpl, ofBytes>>
     \/ library = "tpl" /\ Tpl!Next /\ UNCHANGED ofMpack
     \/ library = "nanopb" /\ Nanopb!Next /\ UNCHANGED <<ofMpack, ofTpl, ofLoops>>

Spec == Init /\ [][Next]_vars

(***************************************************************************)
(* Properties.                                                             *)
(***************************************************************************)
\* What decode makes of the bytes of its own library's encode is what was encoded,
\* struct for struct and field for field, whatever the caller's memory held, and the
\* count that is reported is theirs; structs beyond the count are not touched.
RoundTrip ==
  /\ library = "mpack" => Mpack!RoundTrip
  /\ library = "tpl" => Tpl!RoundTrip
  /\ library = "nanopb" => Nanopb!RoundTrip

\* A server that receives the bytes of another library refuses them and reports no
\* count, although none of the three formats says which library made it.
ForeignIsRefused ==
  /\ library = "mpack" => Mpack!ForeignIsRefused
  /\ library = "tpl" => Tpl!ForeignIsRefused
  /\ library = "nanopb" => Nanopb!ForeignIsRefused

\* The sizes in the table of README.md: one struct "MyAP" (line 24), one "WiFi-0" as
\* the benchmark encodes it (line 40), arrays of 2 (lines 25 and 41) and of 10 (26, 42).
Table ==
  {<<One(Sample), [mpack |-> 46, tpl |-> 118, nanopb |-> 51]>>,
   <<One(Samples(1)[1]), [mpack |-> 48, tpl |-> 118, nanopb |-> 53]>>,
   <<Several(Samples(2)), [mpack |-> 97, tpl |-> 199, nanopb |-> 110]>>,
   <<Several(Samples(10)), [mpack |-> 481, tpl |-> 791, nanopb |-> 550]>>}
Size == IF library = "mpack" THEN Len(writer.buffer) ELSE Len(buffer)
SizesAsDocumented ==
  encoded = "ok" => \A row \in Table : input = row[1] => Size = row[2][library]

\* encode succeeds exactly when the whole encoding fits the buffer, and then its size
\* is that of the library's format: an overflow is never reported as a short success.
\* MAX_BUFFER is enough for MAX_ARRAY structs, however large their values, and the
\* samples have the sizes that README.md gives.
FitsOrFails ==
  /\ library = "mpack" => Mpack!FitsOrFails
  /\ library = "tpl" => Tpl!FitsOrFails
  /\ library = "nanopb" => Nanopb!FitsOrFails
  /\ encoded = "fail" /\ input.room = MAX_BUFFER => input.infos = <<>>
  /\ SizesAsDocumented
================================================================================
