-------------------------------- MODULE TplCalls --------------------------------
(***************************************************************************)
(* The calls on one mapped tpl: pack, dump, load, unpack, and what they    *)
(* share.  A tpl is a record of the map and of what the calls change; the  *)
(* memory they copy from and to is a function from addresses to values.    *)
(***************************************************************************)
EXTENDS TplMap

Null == <<-1>>   \* a null char* or tpl_bin*
Junk == <<-2>>   \* what malloc left in an atom's data

EmptyArray == [num |-> 0, bb |-> <<>>, cur |-> 0]

Nodes(t, type) == {n \in DOMAIN t.map.nodes : t.map.nodes[n].type = type}
Node(t, n) == t.map.nodes[n]

Mapped(map) ==
  [map |-> map, flags |-> {}, text |-> <<>>, iter |-> NoIter(map), status |-> "ok",
   live |-> 0,                                       \* copies the tpl has malloc'd
   osz |-> [n \in DOMAIN map.nodes |-> 0],
   at |-> [n \in DOMAIN map.nodes |-> EmptyArray],
   data |-> [n \in DOMAIN map.nodes |-> [s \in 1..map.nodes[n].slots |->
               IF map.nodes[n].type \in {"s", "B"} THEN Null ELSE Junk]]]

Fatal(t) == [t EXCEPT !.status = "fatal"]

\* Blocks behind a value that tpl_pack copied: a string, or a tpl_bin and its buffer.
Blocks(type, v) ==
  CASE v = Null -> 0
    [] v # Null /\ type = "s" -> 1
    [] v # Null /\ type = "B" -> IF v = <<>> THEN 1 ELSE 2
    [] OTHER -> 0

SumOver(S, f(_)) == MapThenSumSet(f, S)

\* tpl_free_atyp: the blocks it gives back, those of inner arrays included.
RECURSIVE tpl_free_atyp(_, _, _)
tpl_free_atyp(p, n, atyp) ==
  LET walk == Walk(p, n, NoIter(p))
      entry(datum, j) ==
        IF p.nodes[walk[j].kid].type = "A" THEN tpl_free_atyp(p, walk[j].kid, datum[j])
        ELSE SumOver(DOMAIN datum[j],
                     LAMBDA f : Blocks(p.nodes[walk[j].kid].type, datum[j][f]))
  IN SumOver(DOMAIN atyp.bb, LAMBDA b :
       SumOver(DOMAIN walk, LAMBDA j : entry(atyp.bb[b], j)))

\* _File: images that were handed over with TPL_UFREE are forgotten.
HoldsImage_File(t) == {"RDONLY", "FILE"} \subseteq t.flags
HoldsImage(t) ==
  {"RDONLY", "FILE"} \subseteq t.flags \/ {"MEM", "UFREE"} \subseteq t.flags

\* Back to an empty tpl with the same map.  Of a '#' loop only the first round's
\* strings go, and of a root 'B' its buffer but not its tpl_bin.
tpl_free_keep_map(t) ==
  LET atRoot(type) == {n \in Nodes(t, type) : Node(t, n).parent = RootNode}
      strings == SumOver(atRoot("s"), LAMBDA n :
                   SumOver(1..Node(t, n).num, LAMBDA i : Blocks("s", t.data[n][i])))
      buffers == SumOver(atRoot("B"), LAMBDA n :
                   IF Blocks("B", t.data[n][1]) = 2 THEN 1 ELSE 0)
      arrays == SumOver(Nodes(t, "A"), LAMBDA n : tpl_free_atyp(t.map, n, t.at[n]))
  IN [t EXCEPT
       !.live = @ - strings - buffers - arrays - (IF HoldsImage(t) THEN 1 ELSE 0),
       !.data = [n \in DOMAIN @ |-> [i \in DOMAIN @[n] |->
                   IF Node(t, n).type \in {"s", "B"} /\ i <= Node(t, n).num
                   THEN Null ELSE @[n][i]]],
       !.at = [n \in DOMAIN @ |-> EmptyArray],
       !.osz = [n \in DOMAIN @ |-> 0],
       !.flags = {}]

\* How many pointers of string node n tpl_free looks at: it multiplies by the number
\* of the last '#' node behind n, whichever structure that '#' repeats.
\* _Once: not multiplied, as in tpl_free_keep_map.
Freed_Once(t, n) == Node(t, n).num
Freed(t, n) ==
  LET pounds == {k \in Nodes(t, "#") : Node(t, k).parent = Node(t, n).parent /\ k > n}
  IN Node(t, n).num * (IF pounds = {} THEN 1 ELSE Node(t, Max(pounds)).num)

\* Those are more than the node has.
ReadsBehind(t) == \E n \in Nodes(t, "s") : Freed(t, n) > Node(t, n).slots

\* What tpl_free leaves behind of the copies.
tpl_free(t) ==
  LET strings == SumOver(Nodes(t, "s"), LAMBDA n :
                   SumOver(1..Min({Freed(t, n), Node(t, n).slots}),
                           LAMBDA i : Blocks("s", t.data[n][i])))
      bins == SumOver(Nodes(t, "B"), LAMBDA n : Blocks("B", t.data[n][1]))
      arrays == SumOver(Nodes(t, "A"), LAMBDA n : tpl_free_atyp(t.map, n, t.at[n]))
  IN t.live - strings - bins - arrays - (IF HoldsImage(t) THEN 1 ELSE 0)

(***************************************************************************)
(* Packing.                                                                *)
(***************************************************************************)
Address(t, v, f) ==
  LET k == Node(t, v.kid)
  IN <<k.addr[1], k.addr[2] + v.off + (f - 1) * tpl_types[k.type]>>

Elements(t, v) == 1..Node(t, v.kid).num

Stray(t, mem, walk) ==
  \E j \in DOMAIN walk : Node(t, walk[j].kid).type # "A" /\
    \E f \in Elements(t, walk[j]) : Address(t, walk[j], f) \notin DOMAIN mem

\* A '#' loop that starts midway moves the nodes' addresses back too far.
Midway(t, n) == \E k \in DOMAIN t.iter : Node(t, k).parent = n /\ t.iter[k] # 0

SizeOf(type, v) ==
  CASE type = "s" -> 4 + (IF v = Null THEN 0 ELSE Len(v))
    [] type = "B" -> 4 + Len(v)
    [] OTHER -> Len(v)

\* Packing the root keeps the values in the nodes, in place of earlier ones.
Stored(t, mem, v, d) ==
  LET num == Node(t, v.kid).num
  IN [d EXCEPT ![v.kid] = [i \in DOMAIN @ |->
        IF i - v.pass * num \in 1..num THEN mem[Address(t, v, i - v.pass * num)] ELSE @[i]]]

BlocksOf(t, d) ==
  SumOver(DOMAIN d, LAMBDA n : SumOver(DOMAIN d[n], LAMBDA i : Blocks(Node(t, n).type, d[n][i])))

PackRoot(t, mem) ==
  LET all == Walk(t.map, RootNode, t.iter)
      data == FoldLeft(LAMBDA d, v : IF Node(t, v.kid).type = "A" THEN d ELSE Stored(t, mem, v, d),
                       t.data, all)
  IN [t EXCEPT !.data = data, !.live = @ + BlocksOf(t, data) - BlocksOf(t, t.data)]

\* _Kept: an inner A that was moved into an element keeps its own elements.
Moved_Kept(at) == at
Moved(at) == EmptyArray

\* What one element of the A takes, value by value, in the order of its walk.
DatumOf(t, mem, walk) ==
  [j \in DOMAIN walk |->
     IF Node(t, walk[j].kid).type = "A" THEN t.at[walk[j].kid]
     ELSE [f \in Elements(t, walk[j]) |-> mem[Address(t, walk[j], f)]]]

\* The sum of measure over the values of a datum.
OverDatum(t, walk, datum, measure(_, _)) ==
  SumOver({j \in DOMAIN walk : Node(t, walk[j].kid).type # "A"},
          LAMBDA j : SumOver(DOMAIN datum[j],
                             LAMBDA i : measure(Node(t, walk[j].kid).type, datum[j][i])))

\* Packing an A adds one datum; an inner A moves into it and becomes empty.
AddDatum(t, n, walk, datum) ==
  LET inner == {k \in Nodes(t, "A") : \E j \in DOMAIN walk : walk[j].kid = k}
  IN [t EXCEPT
       !.at = [k \in DOMAIN @ |->
          CASE k = n -> [@[n] EXCEPT !.bb = Append(@, datum), !.num = @ + 1]
            [] k \in inner -> Moved(@[k])
            [] OTHER -> @[k]],
       !.osz = [k \in DOMAIN @ |->
          CASE k = n -> @[n] + OverDatum(t, walk, datum, SizeOf)
                          + SumOver(inner, LAMBDA x : 4 + t.osz[x])
            [] k \in inner -> 0
            [] OTHER -> @[k]],
       !.live = @ + OverDatum(t, walk, datum, Blocks)]

PackArray(t, mem, n, walk) == AddDatum(t, n, walk, DatumOf(t, mem, walk))

\* A loaded tpl becomes writable and empty.
Writable(t) == IF "RDONLY" \in t.flags THEN tpl_free_keep_map(t) ELSE t

PackNode(t, mem, n) ==
  CASE Midway(t, n) \/ Stray(t, mem, Walk(t.map, n, t.iter)) -> Undefined(t)
    [] OTHER -> IF n = RootNode THEN PackRoot(t, mem)
                ELSE PackArray(t, mem, n, Walk(t.map, n, t.iter))

\* The result's rc is 0, or -1 for an index that names no packable.
tpl_pack(t, mem, i) ==
  IF tpl_find_i(t.map, i) = 0 THEN [tpl |-> t, rc |-> -1]
  ELSE [tpl |-> PackNode([Writable(t) EXCEPT !.flags = @ \cup {"WRONLY"}], mem,
                         tpl_find_i(t.map, i)), rc |-> 0]

(***************************************************************************)
(* Dumping.                                                                *)
(***************************************************************************)
RootValue(t, v, f) == t.data[v.kid][v.pass * Node(t, v.kid).num + f]

tpl_ser_osz(t) ==
  LET walk == Walk(t.map, RootNode, t.iter)
      of(v) == IF Node(t, v.kid).type = "A" THEN 4 + t.osz[v.kid]
               ELSE SumOver(Elements(t, v), LAMBDA f :
                      SizeOf(Node(t, v.kid).type, RootValue(t, v, f)))
  IN Overhead(t.map) + SumOver(DOMAIN walk, LAMBDA j : of(walk[j]))

\* A string's length word counts its NUL, which is not written; NULL has length 0.
ValueBytes(type, v) ==
  CASE type = "s" -> IF v = Null THEN Word(0) ELSE Word(Len(v) + 1) \o v
    [] type = "B" -> Word(Len(v)) \o v
    [] OTHER -> v

ValuesBytes(type, vs) == FlattenSeq([f \in DOMAIN vs |-> ValueBytes(type, vs[f])])

RECURSIVE tpl_dump_atyp(_, _, _)
tpl_dump_atyp(p, n, at) ==
  LET walk == Walk(p, n, NoIter(p))
      entry(datum, j) ==
        IF p.nodes[walk[j].kid].type = "A" THEN tpl_dump_atyp(p, walk[j].kid, datum[j])
        ELSE ValuesBytes(p.nodes[walk[j].kid].type, datum[j])
      one(datum) == FlattenSeq([j \in DOMAIN walk |-> entry(datum, j)])
  IN Word(at.num) \o FlattenSeq([b \in DOMAIN at.bb |-> one(at.bb[b])])

tpl_dump_to_mem(t, sz) ==
  LET walk == Walk(t.map, RootNode, t.iter)
      of(v) == IF Node(t, v.kid).type = "A"
               THEN tpl_dump_atyp(t.map, v.kid, t.at[v.kid])
               ELSE ValuesBytes(Node(t, v.kid).type,
                                [f \in Elements(t, v) |-> RootValue(t, v, f)])
      strings == \E i \in DOMAIN t.map.fmt : t.map.fmt[i] = FormatCodes["s"]
  IN Magic \o <<Flags(strings)>> \o Word(sz) \o t.map.fmt \o <<0>>
       \o FlattenSeq([i \in DOMAIN t.map.fxlens |-> Word(t.map.fxlens[i])])
       \o FlattenSeq([j \in DOMAIN walk |-> of(walk[j])])

\* tpl_dump to memory of the caller's, room bytes of it.
tpl_dump(t, room) ==
  LET sz == tpl_ser_osz(t)
  IN IF "RDONLY" \in t.flags \/ room < sz THEN [rc |-> -1, size |-> 0, image |-> <<>>]
     ELSE [rc |-> 0, size |-> sz, image |-> tpl_dump_to_mem(t, sz)]

(***************************************************************************)
(* Loading an image into a mapped tpl, unpacking it, and peeking into one. *)
(* Positions in an image count from 1.                                     *)
(***************************************************************************)
XEndian(t) == "XENDIAN" \in t.flags
OldStrings(t) == "OLD_STRING_FMT" \in t.flags
Past(t) == Len(t.text) + 1

LengthAt(t, pos) == WordAt(t.text, pos, XEndian(t))

\* The bytes of data behind a length word of len: a string's counts its NUL.
DataLength(t, type, len) ==
  IF type = "B" \/ OldStrings(t) THEN len ELSE IF len > 1 THEN len - 1 ELSE 0

Within(t, end) == IF end > Past(t) THEN 0 ELSE end

\* Where a value of the type at pos ends, 0 when that is past the image.
ValueEnd(t, type, pos) ==
  CASE type \notin {"s", "B"} -> Within(t, pos + tpl_types[type])
    [] OTHER -> IF pos + 4 > Past(t) THEN 0
                ELSE Within(t, pos + 4 + DataLength(t, type, LengthAt(t, pos)))

\* tpl_serlen: walk the data of the root or of an A.  pos is 0 when the image is
\* not to be trusted; then the loop that was under way keeps its count in iter.
RECURSIVE tpl_serlen(_, _, _)
tpl_serlen(t, n, pos) ==
  LET isA == Node(t, n).type = "A"
      num == IF isA THEN LengthAt(t, pos) ELSE 1
      field(acc, v) ==
        LET k == Node(t, v.kid)
            all == IF k.type = "A" THEN tpl_serlen(t, v.kid, acc.pos)
                   ELSE [pos |-> FoldLeft(LAMBDA e, f : IF e = 0 THEN 0 ELSE ValueEnd(t, k.type, e),
                                          acc.pos, [f \in Elements(t, v) |-> f]),
                         iter |-> acc.iter]
        IN CASE acc.pos = 0 -> acc
             [] acc.pos # 0 /\ all.pos = 0 ->
                  [all EXCEPT !.iter = [l \in DOMAIN @ |->
                     IF l \in LoopsOver(t.map, v.kid) THEN t.iter[l] + v.pass ELSE @[l]]]
             [] OTHER -> all
      element(acc, i) ==
        IF acc.pos = 0 THEN acc
        ELSE LET e == FoldLeft(field, acc, Walk(t.map, n, acc.iter))
             IN IF e.pos = 0 THEN e
                ELSE [e EXCEPT !.iter = [l \in DOMAIN @ |->
                        IF Node(t, l).parent = n THEN 0 ELSE @[l]]]
  IN IF isA /\ pos + 4 > Past(t) THEN [pos |-> 0, iter |-> t.iter]
     ELSE FoldLeft(element, [pos |-> IF isA THEN pos + 4 ELSE pos, iter |-> t.iter],
                   [i \in 1..num |-> i])

\* Where the format's NUL is, 0 if there is none.
NulAt(image) ==
  LET nuls == {i \in MinImage..Len(image) : image[i] = 0}
  IN IF nuls = {} THEN 0 ELSE Min(nuls)

FormatOf(image) == SubSeq(image, MinImage, NulAt(image) - 1)

Octothorpes(image) ==
  Len(SelectSeq(FormatOf(image), LAMBDA c : c = Pound))

tpl_find_data_start(image) == NulAt(image) + 1 + 4 * Octothorpes(image)

KnownChars == {FormatCodes[c] : c \in DOMAIN FormatCodes}

HasMagic(image) == Len(image) >= MinImage /\ SubSeq(image, 1, 3) = Magic

\* The image's byte order and string format are noted before it is trusted.
\* _Native: the byte order not looked at.
OldFormat(text) == HasMagic(text) /\ FlagsSupported(text[4]) /\ ~FlagNullStrings(text[4])
Noted_Native(t) ==
  [t EXCEPT !.flags = @ \cup (IF OldFormat(t.text) THEN {"OLD_STRING_FMT"} ELSE {})]
Noted(t) ==
  LET swap == HasMagic(t.text) /\ tpl_needs_endian_swap(t.text)
  IN [t EXCEPT !.flags = @ \cup (IF swap THEN {"XENDIAN"} ELSE {})
                           \cup (IF OldFormat(t.text) THEN {"OLD_STRING_FMT"} ELSE {})]

\* The checks of the head in the code's order, 0 or the code of the first that does
\* not hold.
SanityOfHead(t, nul, excess_ok) ==
  LET image == t.text
      magic == HasMagic(image)
      lens == t.map.fxlens
      checks == <<
        [rc |-> -1, ok |-> Len(image) >= MinImage],
        [rc |-> -2, ok |-> magic],
        [rc |-> -11, ok |-> magic => FlagsSupported(image[4])],
        [rc |-> -3, ok |-> magic /\ ~excess_ok => LengthAt(t, 5) = Len(image)],
        [rc |-> -4, ok |-> \A i \in MinImage..(IF nul = 0 THEN Len(image) ELSE nul - 1) :
                            image[i] \in KnownChars],
        [rc |-> -5, ok |-> nul # 0],
        [rc |-> -6, ok |-> nul # 0 => FormatOf(image) = t.map.fmt],
        [rc |-> -10, ok |-> nul # 0 => nul + 4 * Octothorpes(image) <= Len(image)] >>
      failed == {c \in DOMAIN checks : ~checks[c].ok}
      numbers == \A i \in DOMAIN lens : LengthAt(t, nul + 1 + 4 * (i - 1)) = lens[i]
  IN CASE failed # {} -> checks[Min(failed)].rc
       [] failed = {} /\ ~numbers -> -7
       [] OTHER -> 0

\* The walk over the data, which has to end with the image.
SanityOfData(t, data, excess_ok) ==
  [tpl |-> [t EXCEPT !.iter = data.iter],
   rc |-> CASE data.pos = 0 -> -8
            [] data.pos # 0 /\ ~excess_ok /\ data.pos # Past(t) -> -9
            [] OTHER -> 0]

SanityOf(t, excess_ok, rc) ==
  IF rc # 0 THEN [tpl |-> t, rc |-> rc]
  ELSE SanityOfData(t, tpl_serlen(t, RootNode, NulAt(t.text) + 1 + 4 * Len(t.map.fxlens)),
                    excess_ok)

\* tpl_sanity: 0 when the image fits the map, and what it leaves in the tpl.
tpl_sanity(t, excess_ok) ==
  SanityOf(Noted(t), excess_ok, SanityOfHead(Noted(t), NulAt(t.text), excess_ok))

\* The A's met on the way get their element count and a cursor.
OpenArray(t, n, pos) ==
  [t EXCEPT !.at[n] = [@ EXCEPT !.num = LengthAt(t, pos), !.cur = pos + 4]]

\* An A is opened, and passed over.
UnpackArray(acc, n, end) ==
  IF end = 0 THEN [acc EXCEPT !.tpl = Fatal(@)]
  ELSE [acc EXCEPT !.tpl = OpenArray(@, n, acc.pos), !.pos = end]

\* The length that tpl_unpack and tpl_unpackA0 read before a string's bytes.
StringEnd(t, pos) ==
  LET slen == LengthAt(t, pos) + (IF OldStrings(t) THEN 1 ELSE 0)
  IN pos + 4 + (IF slen > 1 THEN slen - 1 ELSE 0)

ElementEnd(t, type, pos) ==
  CASE type = "s" -> StringEnd(t, pos)
    [] type = "B" -> pos + 4 + LengthAt(t, pos)
    [] OTHER -> pos + tpl_types[type]

\* tpl_unpackA0: open the root's A's, past everything else of the root.
PassKid(acc, v) ==
  CASE acc.tpl.status = "fatal" -> acc
    [] acc.tpl.status # "fatal" /\ Node(acc.tpl, v.kid).type = "A" ->
         UnpackArray(acc, v.kid, tpl_serlen(acc.tpl, v.kid, acc.pos).pos)
    [] OTHER -> [acc EXCEPT !.pos =
         FoldLeft(LAMBDA e, f : ElementEnd(acc.tpl, Node(acc.tpl, v.kid).type, e), @,
                  [f \in Elements(acc.tpl, v) |-> f])]

tpl_unpackA0(t) ==
  FoldLeft(PassKid, [tpl |-> t, pos |-> tpl_find_data_start(t.text)],
           Walk(t.map, RootNode, t.iter)).tpl

\* A tpl that was packed or loaded is as newly mapped before it is loaded.
Reset(t) == IF t.flags \cap {"WRONLY", "RDONLY"} # {} THEN tpl_free_keep_map(t) ELSE t

\* What becomes of a tpl that tpl_sanity has answered for.
LoadChecked(s, image, mode) ==
  LET swap == IF tpl_needs_endian_swap(image) THEN {"XENDIAN"} ELSE {}
      flags == (mode \cap {"MEM", "FILE", "UFREE"}) \cup {"RDONLY"} \cup swap
      owned == IF "UFREE" \in mode \/ "FILE" \in mode THEN 1 ELSE 0
  IN IF s.rc # 0 THEN [tpl |-> s.tpl, rc |-> -1]
     ELSE [tpl |-> tpl_unpackA0([s.tpl EXCEPT !.flags = flags, !.live = @ + owned]), rc |-> 0]

\* tpl_load of an image in memory (mode a set of "MEM" or "FILE", "UFREE" and
\* "EXCESS_OK").  A refusal unmaps a file, and leaves what tpl_sanity did.
tpl_load(t, image, mode) ==
  LoadChecked(tpl_sanity([Reset(t) EXCEPT !.text = image], "EXCESS_OK" \in mode), image, mode)

\* The value of an element, as the caller's memory gets it.
ReadElement(t, type, pos) ==
  LET bytes == SubSeq(t.text, pos, pos + tpl_types[type] - 1)
      slen == LengthAt(t, pos) + (IF OldStrings(t) THEN 1 ELSE 0)
  IN CASE type = "s" -> IF slen = 0 THEN Null ELSE SubSeq(t.text, pos + 4, pos + 4 + slen - 2)
       [] type = "B" -> SubSeq(t.text, pos + 4, pos + 3 + LengthAt(t, pos))
       [] OTHER -> IF XEndian(t) THEN tpl_byteswap(bytes) ELSE bytes

\* The elements of one value go to the caller's memory.
UnpackElement(acc, v, type, f) ==
  [acc EXCEPT !.mem[Address(acc.tpl, v, f)] = ReadElement(acc.tpl, type, acc.pos),
              !.pos = ElementEnd(acc.tpl, type, @)]

UnpackKid(acc, v) ==
  CASE acc.tpl.status # "ok" -> acc
    [] acc.tpl.status = "ok" /\ Node(acc.tpl, v.kid).type = "A" ->
         UnpackArray(acc, v.kid, tpl_serlen(acc.tpl, v.kid, acc.pos).pos)
    [] OTHER -> FoldLeft(LAMBDA a, f : UnpackElement(a, v, Node(a.tpl, v.kid).type, f), acc,
                         [f \in Elements(acc.tpl, v) |-> f])

UnpackNode(t, mem, n, start) ==
  FoldLeft(UnpackKid, [tpl |-> t, mem |-> mem, pos |-> start], Walk(t.map, n, t.iter))

\* The root's elements are found anew each time, those of an A from where it stopped.
Unpacked(all, n, rc) ==
  [tpl |-> IF n = RootNode THEN all.tpl ELSE [all.tpl EXCEPT !.at[n].cur = all.pos],
   mem |-> all.mem, rc |-> rc]

\* rc is -1 for a failure, 0 for an A with no element left, or what was left of it
\* before this one.
UnpackLoaded(s, ok, n, mem) ==
  LET start == IF n = RootNode THEN tpl_find_data_start(s.text) ELSE s.at[n].cur
      none(tpl, rc) == [tpl |-> tpl, mem |-> mem, rc |-> rc]
  IN CASE ~ok \/ n = 0 -> none(s, -1)
       [] ok /\ n \notin {0, RootNode} /\ s.at[n].num <= 0 -> none(s, 0)
       [] OTHER ->
            CASE start = 0 -> none(Fatal(s), -1)
              [] start # 0 /\ (Midway(s, n) \/ Stray(s, mem, Walk(s.map, n, s.iter))) ->
                   none(Undefined(s), 1)
              [] OTHER ->
                   IF n = RootNode THEN Unpacked(UnpackNode(s, mem, n, start), n, 1)
                   ELSE Unpacked(UnpackNode([s EXCEPT !.at[n].num = @ - 1], mem, n, start), n,
                                 s.at[n].num)

UnpackOf(loaded, mem, i) ==
  UnpackLoaded(loaded.tpl, loaded.rc = 0, tpl_find_i(loaded.tpl.map, i), mem)

\* A tpl that was packed is dumped and loaded first.
tpl_unpack(t, mem, i) ==
  UnpackOf(IF "WRONLY" \in t.flags
           THEN tpl_load(t, tpl_dump(t, tpl_ser_osz(t)).image, {"MEM", "UFREE"})
           ELSE [tpl |-> t, rc |-> 0], mem, i)

tpl_Alen(t, i) ==
  LET n == tpl_find_i(t.map, i)
  IN IF n = 0 \/ n = RootNode THEN -1 ELSE t.at[n].num

(***************************************************************************)
(* tpl_peek: the format, the '#' numbers and the first values of an image, *)
(* without a map.  types are the atoms a TPL_DATAPEEK asks for.            *)
(***************************************************************************)
Refused == [ok |-> FALSE, fmt |-> <<>>, fxlens |-> <<>>, values |-> <<>>]

\* How many characters of the format are a leading "S", "(" or ")".
first_atom(fmt) ==
  LET skip == {FormatCodes[c] : c \in {"S", "(", ")"}}
  IN CHOOSE k \in 0..Len(fmt) :
       /\ \A i \in 1..k : fmt[i] \in skip
       /\ k < Len(fmt) => fmt[k + 1] \notin skip

tpl_peek(image, types) ==
  LET head == HasMagic(image)
      swap == tpl_needs_endian_swap(image)
      p == [Mapped(MapInit) EXCEPT !.text = image,
              !.flags = (IF swap THEN {"XENDIAN"} ELSE {})
                  \cup (IF FlagNullStrings(image[4]) THEN {} ELSE {"OLD_STRING_FMT"})]
      fmt == FormatOf(image)
      start == tpl_find_data_start(image)
      wanted == [i \in DOMAIN types |-> FormatCodes[types[i]]]
      value(acc, type) ==
        LET end == ElementEnd(p, type, acc.pos)
            fits == /\ type = "s" => acc.pos + 4 <= Past(p)
                    /\ end <= Past(p)
        IN IF acc.pos = 0 \/ ~fits THEN [acc EXCEPT !.pos = 0]
           ELSE [pos |-> end, values |-> Append(acc.values, ReadElement(p, type, acc.pos))]
      peeked == FoldLeft(value, [pos |-> start, values |-> <<>>], types)
      legal == head /\ LengthAt(p, 5) = Len(image) /\ NulAt(image) # 0
                    /\ start - 1 <= Len(image)
      match == IsPrefix(wanted, SubSeq(fmt, first_atom(fmt) + 1, Len(fmt)))
  IN IF ~legal \/ (types # <<>> /\ (~match \/ peeked.pos = 0)) THEN Refused
     ELSE [ok |-> TRUE, fmt |-> fmt, values |-> peeked.values,
           fxlens |-> [i \in 1..Octothorpes(image) |->
                         LengthAt(p, NulAt(image) + 1 + 4 * (i - 1))]]
================================================================================
