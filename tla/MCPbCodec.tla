------------------------------- MODULE MCPbCodec -------------------------------
EXTENDS PbCodec, PbVarint, PbIter, SampleMessages

\* Every kind of number; two of the fields have defaults, the first -3.
Nums ==
  [Plainly(<< Field("STATIC", "REQUIRED", "UVARINT", 1, 0, 1, 0, 1, ""),
              Field("STATIC", "OPTIONAL", "SVARINT", 2, 4, 2, 2, 1, ""),
              Field("STATIC", "SINGULAR", "VARINT", 3, 8, 4, 0, 1, ""),
              Field("STATIC", "REQUIRED", "VARINT", 4, 16, 8, 0, 1, ""),
              Field("STATIC", "OPTIONAL", "FIXED32", 5, 28, 4, 1, 1, ""),
              Field("STATIC", "SINGULAR", "FIXED64", 16, 32, 8, 0, 1, ""),
              Field("STATIC", "OPTIONAL", "BOOL", 17, 41, 1, 1, 1, "") >>)
     EXCEPT !.dflt = <<16, 5, 45, 1, 2, 3, 4, 0>>]

\* The same with wider members, as a later version may have it.
Wide ==
  Plainly(<< Field("STATIC", "OPTIONAL", "UVARINT", 1, 8, 8, 8, 1, ""),
             Field("STATIC", "OPTIONAL", "SVARINT", 2, 24, 8, 8, 1, ""),
             Field("STATIC", "REQUIRED", "VARINT", 4, 32, 8, 0, 1, "") >>)

\* And with narrower ones.
Slim ==
  Plainly(<< Field("STATIC", "OPTIONAL", "VARINT", 3, 1, 1, 1, 1, ""),
             Field("STATIC", "REQUIRED", "VARINT", 4, 2, 2, 0, 1, "") >>)
Thin == Plainly(<< Field("STATIC", "REQUIRED", "VARINT", 4, 0, 4, 0, 1, "") >>)

Leaf ==
  Plainly(<< Field("STATIC", "SINGULAR", "UVARINT", 1, 0, 4, 0, 1, ""),
             Field("STATIC", "REQUIRED", "BYTES", 2, 4, 4, 0, 1, "") >>)

\* The required member alone, and a longer one.
Big == Plainly(<< Field("STATIC", "REQUIRED", "BYTES", 2, 0, 6, 0, 1, "") >>)

Lists ==
  Plainly(<< Field("STATIC", "REPEATED", "VARINT", 1, 4, 4, 4, 3, ""),
             Field("STATIC", "REPEATED", "STRING", 2, 20, 3, 2, 2, ""),
             Field("STATIC", "REPEATED", "SUBMESSAGE", 4, 40, 8, 4, 2, "Leaf"),
             Field("STATIC", "REPEATED", "BOOL", 5, 60, 1, 2, 2, "") >>)

\* Arrays without a count, packed and not.
Fixed ==
  Plainly(<< Field("STATIC", "FIXARRAY", "FIXED32", 1, 0, 4, 0, 2, ""),
             Field("STATIC", "FIXARRAY", "STRING", 2, 8, 2, 0, 2, "") >>)
Bare == Plainly(<< Field("STATIC", "SINGULAR", "VARINT", 9, 0, 4, 0, 1, "") >>)

Tree ==
  [Plainly(<< Field("STATIC", "ONEOF", "UVARINT", 1, 8, 4, 8, 1, ""),
              Field("STATIC", "ONEOF", "SUBMESSAGE", 2, 8, 8, 8, 1, "Leaf"),
              Field("STATIC", "ONEOF", "BYTES", 3, 8, 5, 8, 1, ""),
              Field("STATIC", "OPTIONAL", "SUBMSG_W_CB", 5, 48, 24, 8, 1, "Node"),
              Field("STATIC", "SINGULAR", "FIXED_LENGTH_BYTES", 6, 72, 2, 0, 1, "") >>)
     EXCEPT !.cb = TRUE]
Node ==
  [Plainly(<< Field("STATIC", "OPTIONAL", "SUBMESSAGE", 1, 4, 8, 4, 1, "Leaf"),
              Field("CALLBACK", "OPTIONAL", "STRING", 2, 16, 16, 0, 1, ""),
              Field("STATIC", "REPEATED", "UVARINT", 3, 34, 2, 2, 2, "") >>)
     EXCEPT !.cb = TRUE]

Extended ==
  Plainly(<< Field("STATIC", "SINGULAR", "VARINT", 1, 0, 4, 0, 1, ""),
             Field("CALLBACK", "OPTIONAL", "EXTENSION", 10, 8, 8, 0, 1, "") >>)

\* Pointers, and the same without.
Ptrs ==
  Plainly(<< Field("POINTER", "OPTIONAL", "STRING", 1, 0, 1, 0, 1, ""),
             Field("POINTER", "REPEATED", "BYTES", 2, 16, 4, 8, 1, ""),
             Field("POINTER", "REQUIRED", "SUBMESSAGE", 3, 24, 8, 0, 1, "Leaf"),
             Field("POINTER", "REPEATED", "VARINT", 4, 40, 2, 8, 1, "") >>)
Twin ==
  Plainly(<< Field("STATIC", "OPTIONAL", "STRING", 1, 4, 4, 4, 1, ""),
             Field("STATIC", "REPEATED", "BYTES", 2, 16, 5, 4, 2, ""),
             Field("STATIC", "REQUIRED", "SUBMESSAGE", 3, 32, 8, 0, 1, "Leaf"),
             Field("STATIC", "REPEATED", "VARINT", 4, 44, 2, 4, 3, "") >>)

Outer ==
  [Plainly(<< Field("STATIC", "OPTIONAL", "SUBMESSAGE", 1, 8, 80, 8, 1, "Tree") >>) EXCEPT !.cb = TRUE]

Types == [Big |-> Big, Outer |-> Outer, Ptrs |-> Ptrs, Twin |-> Twin, Nums |-> Nums, Wide |-> Wide,
          Slim |-> Slim, Thin |-> Thin, Leaf |-> Leaf, Lists |-> Lists, Fixed |-> Fixed, Bare |-> Bare, Tree |-> Tree, Node |-> Node, Extended |-> Extended]

\* The zero struct with some members set.
Set(name, some) == [name |-> name, m |-> some @@ Zero(name)]

FFs(n) == [i \in 1..n |-> 255]
Leaves == << 4 :> [size |-> 2, bytes |-> <<7, 200>>] @@ Zero("Leaf"),
             0 :> <<0, 1, 0, 0>> @@ 4 :> [size |-> 1, bytes |-> <<9, 0>>] @@ Zero("Leaf") >>

Numbers ==
  { Set("Nums", <<>>),
    Set("Nums", 0 :> <<255>> @@ 2 :> TRUE @@ 4 :> <<0, 128>> @@ 8 :> <<0, 0, 0, 128>>
                @@ 16 :> FFs(8) @@ 27 :> TRUE @@ 28 :> FFs(4) @@ 32 :> FFs(8) @@ 40 :> TRUE @@ 41 :> <<1>>),
    Set("Nums", 2 :> TRUE @@ 4 :> <<255, 127>> @@ 8 :> FFs(4) @@ 16 :> <<0, 0, 0, 0, 0, 0, 0, 128>>
                @@ 40 :> TRUE),
    Set("Wide", 16 :> TRUE @@ 24 :> <<0, 128, 0, 0, 0, 0, 0, 0>> @@ 0 :> TRUE @@ 8 :> <<255, 0, 0, 0, 0, 0, 0, 0>>),
    Set("Wide", 0 :> TRUE @@ 8 :> <<5, 1, 0, 0, 0, 0, 0, 0>> @@ 32 :> <<3, 0, 0, 0, 1, 0, 0, 0>>),
    Set("Wide", 16 :> TRUE @@ 24 :> <<0, 128, 255, 255, 255, 255, 255, 255>> @@ 0 :> TRUE),
    Set("Wide", 32 :> <<0, 128, 0, 0, 0, 0, 0, 0>>), Set("Wide", 32 :> <<0, 128, 255, 255, 0, 0, 0, 0>>) }

Lengths == {Set("Big", 0 :> [size |-> n, bytes |-> <<1, 2, 3, 4>>]) : n \in 0..4}

Arrays ==
  { Set("Lists", <<>>),
    Set("Lists", 0 :> 2 @@ 4 :> <<FFs(4), <<1, 0, 0, 0>>, Zeros(4)>> @@ 18 :> 1
                 @@ 20 :> << <<65, 66, 0>>, Zeros(3) >> @@ 58 :> 2 @@ 60 :> << <<1>>, <<0>> >>),
    Set("Lists", 0 :> 1 @@ 18 :> 2 @@ 20 :> << <<67, 0, 5>>, Zeros(3) >> @@ 36 :> 2 @@ 40 :> Leaves),
    Set("Fixed", 0 :> << <<1, 2, 3, 4>>, FFs(4) >> @@ 8 :> << <<65, 0>>, Zeros(2) >>) }

Trees ==
  { Set("Tree", 0 :> 1 @@ 8 :> <<44, 1, 0, 0>>),
    Set("Tree", 0 :> 2 @@ 8 :> Leaves[2] @@ 72 :> <<1, 2>>),
    Set("Tree", 0 :> 2 @@ 8 :> Leaves[1]),
    Set("Tree", 0 :> 3 @@ 8 :> [size |-> 3, bytes |-> <<1, 0, 2>>]),
    Set("Tree", 40 :> TRUE
                @@ 48 :> (0 :> TRUE @@ 4 :> Leaves[2] @@ 32 :> 2 @@ 34 :> << <<1, 0>>, <<0, 1>> >> @@ Zero("Node"))),
    Set("Tree", 40 :> TRUE @@ 48 :> (0 :> TRUE @@ 4 :> Leaves[1] @@ Zero("Node"))) }

\* Extensions a number and a submessage.
Exts(some, more) ==
  LET a == Field("STATIC", "OPTIONAL", "SVARINT", 10, 4, 4, 4, 1, "")
      b == Field("STATIC", "OPTIONAL", "SUBMESSAGE", 12, 4, 8, 4, 1, "Leaf")
  IN << [type |-> a, m |-> some @@ ZeroStruct({a}), dflt |-> <<>>],
        [type |-> b, m |-> more @@ ZeroStruct({b}), dflt |-> <<>>] >>
WithExtensions ==
  { Set("Extended", 0 :> FFs(4) @@ 8 :> Exts(<<>>, <<>>)),
    Set("Extended", 8 :> Exts(0 :> TRUE @@ 4 :> <<250, 255, 255, 255>>, <<>>)),
    Set("Extended", 8 :> Exts(0 :> TRUE, 0 :> TRUE @@ 4 :> Leaves[2])) }

Pointers ==
  { Set("Ptrs", 24 :> <<Leaves[1]>>),
    Set("Ptrs", 0 :> <<<<65, 66, 0, 5>>>> @@ 24 :> <<Leaves[2]>> @@ 8 :> 2
                @@ 16 :> << << <<>>, <<[size |-> 2, bytes |-> <<1, 2, 3>>]>> >> >>
                @@ 32 :> 3 @@ 40 :> << << <<1, 0>>, FFs(2), <<0, 128>> >> >>) }

\* What the encoder has to refuse: a count, a size or a string beyond its bounds, no
\* required field.
Impossible ==
  { Set("Lists", 0 :> 4), Set("Leaf", 4 :> [size |-> 3, bytes |-> <<1, 2>>]),
    Set("Lists", 18 :> 1 @@ 20 :> <<FFs(3), Zeros(3)>>), Set("Ptrs", 0 :> <<<<65, 0>>>>),
    Set("Tree", 40 :> TRUE @@ 48 :> (0 :> TRUE @@ 4 :> (4 :> [size |-> 9, bytes |-> <<1, 2>>] @@ Zero("Leaf"))
                                     @@ Zero("Node"))) }

MCStructs == Numbers \cup Lengths \cup Arrays \cup Trees \cup WithExtensions \cup Pointers \cup Impossible

\* A number, a string, four and eight bytes, and with a tag that extensions may have.
MCUnknown == { <<240, 1, 128, 1>>, <<250, 1, 2, 8, 1>>, <<253, 1, 1, 2, 3, 4>>, <<249, 1>> \o Zeros(8),
               <<88, 1>> }

MCReaders ==
  [n \in DOMAIN Types |->
     CASE n = "Nums" -> {"Nums", "Wide", "Slim"} [] n = "Wide" -> {"Wide", "Nums", "Slim", "Thin"}
       [] n = "Ptrs" -> {"Twin"} [] n = "Big" -> {"Leaf"} [] n = "Bare" -> {"Bare", "Fixed"} [] OTHER -> {n}]

\* The stack's garbage.
Dirty ==
  { Set("Nums", 0 :> <<9>> @@ 2 :> TRUE @@ 4 :> <<9, 9>> @@ 8 :> FFs(4) @@ 27 :> TRUE @@ 32 :> FFs(8)
                @@ 40 :> TRUE @@ 41 :> <<1>>),
    Set("Wide", 0 :> TRUE @@ 8 :> FFs(8) @@ 32 :> FFs(8)),
    Set("Lists", 0 :> 3 @@ 4 :> <<FFs(4), FFs(4), FFs(4)>> @@ 18 :> 2 @@ 20 :> <<FFs(3), FFs(3)>> @@ 36 :> 2
                 @@ 40 :> <<Leaves[2], Leaves[2]>> @@ 58 :> 2),
    Set("Twin", 0 :> TRUE @@ 4 :> FFs(4) @@ 12 :> 2 @@ 40 :> 3 @@ 44 :> <<FFs(2), FFs(2), FFs(2)>>),
    Set("Fixed", 0 :> <<FFs(4), FFs(4)>> @@ 8 :> <<<<66, 0>>, <<67, 0>>>>),
    Set("Tree", 0 :> 2 @@ 8 :> Leaves[2] @@ 72 :> FFs(2) @@ 40 :> TRUE
                @@ 48 :> (0 :> TRUE @@ 4 :> Leaves[2] @@ 32 :> 2 @@ Zero("Node"))),
    Set("Extended", 0 :> FFs(4) @@ 8 :> Exts(0 :> TRUE @@ 4 :> FFs(4), 0 :> TRUE @@ 4 :> Leaves[2])) }
Clean == {Set(n, <<>>) : n \in DOMAIN Types \ {"Extended"}}
           \cup {Set("Extended", 8 :> Exts(<<>>, <<>>))}
MCBefores == Dirty \cup Clean
MCFlags == {{}, {"DELIMITED"}, {"NULLTERMINATED"}}

\* A message that has none of the fields of its reader.
MCBare == {Set("Bare", 0 :> <<1, 0, 0, 0>>)}

\* The callback in a Tree's Node: the same every time, a longer or a shorter string the
\* second time, and one in a union beside it.
WithPuts(puts, takes) ==
  Set("Tree", 0 :> 1 @@ 40 :> TRUE
              @@ 48 :> (16 :> [puts |-> puts, takes |-> takes, gets |-> <<>>] @@ 0 :> TRUE @@ 4 :> Leaves[1]
                        @@ Zero("Node")))
A == <<18, 3, 65, 66, 67>>
B == <<18, 1, 66>>
C == <<18, 3, 70, 71, 72>>
MCCallbacks ==
  {WithPuts(p, t) : p \in {<<A>>, <<A, B>>, <<B, A>>, <<A, C>>, <<A, A, B>>, <<A \o B>>}, t \in {0, 2}}
    \cup {Set("Outer", 0 :> TRUE @@ 8 :> WithPuts(p, 1).m) : p \in {<<A>>, <<A, B>>, <<A, A, B>>, <<A, A, C>>}}
MCOwn == { [x EXCEPT !.m = 24 :> [puts |-> <<>>, takes |-> t, gets |-> <<>>] @@ @] :
             x \in {WithPuts(<<A>>, 2)}, t \in {0, 100} }

MCAll == MCStructs \cup MCCallbacks
MCAnything == MCBefores \cup MCOwn

(***************************************************************************)
(* The loops over varints: values around every bit, alone, with all below, *)
(* with all above, and with an end bit; and encodings of these, cut or     *)
(* with more bytes than the number needs.                                  *)
(***************************************************************************)
Words ==
  {{}} \cup UNION {{{k}, 0..k, k..63, {0, k}, {k, 63}, (0..63) \ {k}} : k \in 0..63}

PutOut(w) ==
  LET last == Max({0} \cup {b \div 7 : b \in w})
      group(i) == MapThenSumSet(LAMBDA b : 2 ^ (b % 7), {b \in w : b \div 7 = i - 1})
  IN [i \in 1..(last + 1) |-> group(i) + (IF i <= last THEN 128 ELSE 0)]

Padded(b, n) ==
  [i \in 1..(Len(b) + n) |->
     IF i < Len(b) THEN b[i] ELSE IF i = Len(b) THEN b[i] + 128
     ELSE IF i < Len(b) + n THEN 128 ELSE 0]

Varints ==
  LET some == {PutOut(0..k) : k \in {0, 6, 7, 27, 28, 31, 34, 35, 62, 63, 66, 69, 76}}
  IN {PutOut(w) : w \in Words} \cup {<<>>} \cup {PutOut(31..k) : k \in 32..69}
     \cup {PutOut(27..k) : k \in 27..35}
     \cup {SubSeq(b, 1, n) : b \in {c \in some : Len(c) >= 10}, n \in {1, 4, 9, 10}} \cup some
     \cup {Padded(b, n) : b \in {PutOut({k}) : k \in {0, 28, 31, 55, 62, 63}}, n \in 1..10}

(***************************************************************************)
(* The field iterator over messages of every width, with tags that agree   *)
(* in their low six bits and extensions in the middle.                     *)
(***************************************************************************)
Mixed ==
  [Plainly(<< Field("STATIC", "REQUIRED", "BOOL", 1, 0, 1, 0, 1, ""),
              Field("STATIC", "ONEOF", "SUBMESSAGE", 2, 8, 24, 6, 1, "IPAddr"),
              Field("STATIC", "REQUIRED", "SVARINT", 65, 40, 8, 0, 1, ""),
              Field("CALLBACK", "OPTIONAL", "EXTENSION", 66, 48, 8, 0, 1, ""),
              Field("POINTER", "REPEATED", "SUBMSG_W_CB", 129, 64, 92, 8, 5, "WifiSoftAPInfo"),
              Field("STATIC", "FIXARRAY", "FIXED64", 130, 72, 8, 0, 300, "") >>)
     EXCEPT !.width = 1]
Broad(w) ==
  [Plainly(<< Field("STATIC", "REQUIRED", "FIXED32", 3, 0, 4, 0, 1, ""),
              Field("STATIC", "OPTIONAL", "STRING", 67, 300, 4097, 120, 1, ""),
              Field("STATIC", "REPEATED", "SUBMESSAGE", 20003, 60000, 4100, 4, 5000, "IPAddr"),
              Field("STATIC", "REQUIRED", "FIXED_LENGTH_BYTES", 60001, 65000, 6, 0, 1, "") >>)
     EXCEPT !.width = w]

Bound == {wifi_IPAddr, wifi_WifiSoftAPInfo, wifi_WifiSoftAPList, Mixed, Broad(2), Broad(3)}

TagsAround == {1, 2, 3, 5, 8, 9, 65, 66, 67, 129, 130, 193, 20003, 60001, 65000}
SubNames == {"", "IPAddr", "WifiSoftAPInfo"}

(***************************************************************************)
(* The three parts.  The variables of the others keep a value without a    *)
(* meaning.                                                                *)
(***************************************************************************)
CONSTANT Parts
VARIABLE part

Unused == "unused"

NoCodec ==
  /\ stage = Unused /\ source = Unused /\ flags = Unused /\ room = Unused /\ buffer = Unused
  /\ wire = Unused /\ how = Unused /\ second = Unused /\ reader = Unused /\ dest = Unused
  /\ accepted = Unused
NoLoops ==
  /\ op = Unused /\ pc = Unused /\ value = {} /\ input = <<>> /\ Blank
NoIterator ==
  /\ message = Unused /\ desc = Unused /\ index = Unused /\ field_info_index = Unused
  /\ submessage_index = Unused /\ required_field_index = Unused /\ field = Unused
  /\ doing = Unused /\ want = Unused /\ start = Unused /\ answer = Unused

MCInit ==
  /\ part \in Parts
  /\ \/ part = "codec" /\ Init /\ NoLoops /\ NoIterator
     \/ part = "varint" /\ VarintInit /\ NoCodec /\ NoIterator
     \/ part = "iterator" /\ IterInit /\ NoCodec /\ NoLoops

MCNext ==
  /\ UNCHANGED part
  /\ \/ part = "codec" /\ Next /\ UNCHANGED <<varint_vars, iter_vars>>
     \/ part = "varint" /\ VarintNext /\ UNCHANGED <<vars, iter_vars>>
     \/ part = "iterator" /\ IterNext /\ UNCHANGED <<vars, varint_vars>>

MCSpec == MCInit /\ [][MCNext]_<<vars, varint_vars, iter_vars, part>>
================================================================================
