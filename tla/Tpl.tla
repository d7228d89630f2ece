---------------------------------- MODULE Tpl ----------------------------------
(***************************************************************************)
(* A program that makes any sequence of calls on one tpl: pack, dump, load *)
(* (the image it dumped, the same from a machine of the other byte order,  *)
(* or a damaged one), unpack, and free.                                    *)
(***************************************************************************)
EXTENDS TplCalls

CONSTANTS
  Formats,   \* the formats, as sequences of items
  Contents,  \* what the caller's memory can hold when it packs
  Value(_, _, _), \* the value of a content, of a type, at an address
  MaxCalls,  \* bound: calls on one tpl
  Damages    \* the damaged images that are tried, see Image

VARIABLES
  t,      \* the tpl
  ready,  \* the root has been packed since the tpl was last empty
  image,  \* the image dumped last
  foreign,\* the same document as a machine of the other byte order dumps it
  reply,  \* the last unpack's return value and what it put in memory
  doc,    \* auxiliary: what the state amounts to, see Meaning
  lost,   \* blocks that the last tpl_free did not give back
  calls

vars == <<t, ready, image, foreign, reply, doc, lost, calls>>

Map == t.map

Nothing == <<>>  \* a root without values

\* Everything that the map points to.
Memory(c) ==
  LET visits == UNION {{Walk(Map, n, NoIter(Map))[j] : j \in DOMAIN Walk(Map, n, NoIter(Map))} :
                         n \in {RootNode} \cup Nodes(t, "A")}
      fields == UNION {{<<Address(t, v, f), Node(t, v.kid).type>> : f \in Elements(t, v)} :
                         v \in {w \in visits : Node(t, w.kid).type # "A"}}
  IN [a \in {f[1] : f \in fields} |-> Value(c, (CHOOSE f \in fields : f[1] = a)[2], a)]

\* The values at the addresses of one packable, in the order of its walk.
ValuesOf(mem, n) ==
  LET walk == Walk(Map, n, NoIter(Map))
  IN [j \in DOMAIN walk |-> IF Node(t, walk[j].kid).type = "A" THEN <<>>
        ELSE [f \in Elements(t, walk[j]) |-> mem[Address(t, walk[j], f)]]]

RootHasValues(s) == \E k \in DOMAIN s.map.nodes : Node(s, k).parent = RootNode /\ Node(s, k).type # "A"

Other == INSTANCE TplCalls WITH BigEndian <- ~BigEndian

\* The numbers of a tpl in the other byte order.
MirrorValues(type, vs) ==
  IF type \in {"s", "B"} THEN vs ELSE [f \in DOMAIN vs |-> tpl_byteswap(vs[f])]

RECURSIVE MirrorArray(_, _)
MirrorArray(n, at) ==
  LET walk == Walk(Map, n, NoIter(Map))
      type(j) == Node(t, walk[j].kid).type
      datum(d) == [j \in DOMAIN d |-> IF type(j) = "A" THEN MirrorArray(walk[j].kid, d[j])
                                      ELSE MirrorValues(type(j), d[j])]
  IN [at EXCEPT !.bb = [b \in DOMAIN @ |-> datum(@[b])]]

Mirror(s) ==
  [s EXCEPT !.data = [n \in DOMAIN @ |-> MirrorValues(Node(t, n).type, @[n])],
            !.at = [n \in DOMAIN @ |-> IF Node(t, n).type = "A" THEN MirrorArray(n, @[n])
                                       ELSE @[n]]]

(***************************************************************************)
(* The document that the nodes, or the bytes of an image, stand for.       *)
(***************************************************************************)
ArraysIn(s) == [p \in {RootNode} \cup Nodes(s, "A") |-> {a \in Nodes(s, "A") : Node(s, a).parent = p}]

NoArrays(s) == [a \in Nodes(s, "A") |-> <<>>]

\* The elements that array n of tpl s has been packed with.
RECURSIVE PackedElements(_, _, _)
PackedElements(s, n, at) ==
  LET walk == Walk(s.map, n, NoIter(s.map))
      isA(j) == Node(s, walk[j].kid).type = "A"
      nested(d) == FoldLeft(LAMBDA acc, j :
        IF isA(j) THEN [acc EXCEPT ![walk[j].kid] = PackedElements(s, walk[j].kid, d[j])] ELSE acc,
        NoArrays(s), [j \in DOMAIN walk |-> j])
  IN [b \in DOMAIN at.bb |->
        [val |-> [j \in DOMAIN walk |-> IF isA(j) THEN <<>> ELSE at.bb[b][j]],
         nested |-> nested(at.bb[b])]]

\* Reading num elements of packable n from pos on, each with its inner arrays.
RECURSIVE ReadElements(_, _, _, _)
ReadElements(s, n, pos, num) ==
  LET step(acc, v) ==
        LET type == Node(s, v.kid).type
            value(a, f) == [val |-> Append(a.val, ReadElement(s, type, a.pos)),
                            pos |-> ElementEnd(s, type, a.pos)]
            atom == FoldLeft(value, [val |-> <<>>, pos |-> acc.pos], [f \in Elements(s, v) |-> f])
            r == ReadElements(s, v.kid, acc.pos + 4, LengthAt(s, acc.pos))
        IN IF type = "A"
           THEN [val |-> Append(acc.val, <<>>), pos |-> r.pos,
                 nested |-> [acc.nested EXCEPT ![v.kid] = r.elements]]
           ELSE [acc EXCEPT !.val = Append(@, atom.val), !.pos = atom.pos]
      one(acc, i) ==
        LET e == FoldLeft(step, [val |-> <<>>, pos |-> acc.pos, nested |-> NoArrays(s)],
                          Walk(s.map, n, NoIter(s.map)))
        IN [elements |-> Append(acc.elements, [val |-> e.val, nested |-> e.nested]), pos |-> e.pos]
  IN FoldLeft(one, [elements |-> <<>>, pos |-> pos], [i \in 1..num |-> i])

NoDoc(s) == [root |-> Nothing, arrays |-> NoArrays(s)]

DocOf(s, bytes) ==
  LET r == [s EXCEPT !.text = bytes,
                     !.flags = IF tpl_needs_endian_swap(bytes) THEN {"XENDIAN"} ELSE {}]
      e == ReadElements(r, RootNode, tpl_find_data_start(bytes), 1).elements[1]
  IN [root |-> IF RootHasValues(s) THEN e.val ELSE Nothing, arrays |-> e.nested]

RootValues(s) ==
  LET walk == Walk(s.map, RootNode, NoIter(s.map))
  IN [j \in DOMAIN walk |-> IF Node(s, walk[j].kid).type = "A" THEN <<>>
        ELSE [f \in Elements(s, walk[j]) |-> RootValue(s, walk[j], f)]]

\* The abstract state that a tpl s, an image dumped and an answer amount to.
Meaning(s, packed, bytes) ==
  LET read == "RDONLY" \in s.flags
      rest(a) == IF read /\ s.at[a].num > 0 /\ s.at[a].cur # 0
                 THEN ReadElements(s, a, s.at[a].cur, s.at[a].num).elements ELSE <<>>
  IN [inner |-> ArraysIn(s),
      root |-> IF packed /\ RootHasValues(s) THEN RootValues(s) ELSE Nothing,
      store |-> [a \in Nodes(s, "A") |-> IF read THEN <<>> ELSE PackedElements(s, a, s.at[a])],
      sent |-> IF bytes = <<>> THEN NoDoc(s) ELSE DocOf(s, bytes),
      open |-> IF read THEN DocOf(s, s.text) ELSE NoDoc(s),
      left |-> [a \in Nodes(s, "A") |-> rest(a)],
      reading |-> read]

Init ==
  /\ t \in {Mapped(tpl_map(f)) : f \in Formats}
  /\ ready = FALSE /\ image = <<>> /\ foreign = <<>> /\ lost = 0 /\ calls = 0
  /\ reply = [count |-> 0, val |-> <<>>]
  /\ doc = Meaning(t, ready, image)

Call == t.status = "ok" /\ calls < MaxCalls /\ calls' = calls + 1

Pack(i, c) ==
  LET n == tpl_find_i(Map, i)
  IN /\ Call /\ n # 0
     /\ t' = tpl_pack(t, Memory(c), i).tpl
     /\ ready' = (n = RootNode \/ (ready /\ "RDONLY" \notin t.flags))
     /\ UNCHANGED <<image, foreign, reply, lost>>

\* The program packs the root's values before it dumps: the nodes hold what malloc
\* left in them until then.
CanDump == RootHasValues(t) => ready

Dump ==
  /\ Call /\ CanDump
  /\ LET d == tpl_dump(t, tpl_ser_osz(t))
     IN /\ d.rc = 0 /\ image' = d.image
        /\ foreign' = Other!tpl_dump(Mirror(t), tpl_ser_osz(t)).image
  /\ UNCHANGED <<t, ready, reply, lost>>

\* The images a load is given, how, and whether it has to be taken.
Image(kind) ==
  CASE kind = "memory"  -> [image |-> image, mode |-> {"MEM"}, good |-> TRUE]
    [] kind = "owned"   -> [image |-> image, mode |-> {"MEM", "UFREE"}, good |-> TRUE]
    [] kind = "file"    -> [image |-> image, mode |-> {"FILE"}, good |-> TRUE]
    [] kind = "foreign" -> [image |-> foreign, mode |-> {"MEM"}, good |-> TRUE]
    [] kind = "excess"  -> [image |-> image \o <<0>>, mode |-> {"MEM", "EXCESS_OK"}, good |-> TRUE]
    [] kind = "long"    -> [image |-> image \o <<0>>, mode |-> {"MEM"}, good |-> FALSE]
    [] kind = "short"   -> [image |-> Front(foreign), mode |-> {"FILE"}, good |-> FALSE]
    [] kind = "cut"     -> [image |-> Front(image), mode |-> {"MEM", "EXCESS_OK"}, good |-> FALSE]
    [] kind = "number"  -> [image |-> IF Octothorpes(image) = 0 THEN image
                                       ELSE [image EXCEPT ![NulAt(image) + 1] = 77],
                            mode |-> {"MEM"}, good |-> Octothorpes(image) = 0]
    [] kind = "format"  -> [image |-> [image EXCEPT ![MinImage] = FormatCodes["U"]],
                            mode |-> {"MEM"}, good |-> FALSE]
    [] kind = "text"    -> [image |-> [image EXCEPT ![MinImage] = 1], mode |-> {"MEM"},
                            good |-> FALSE]
    [] kind = "runaway" -> [image |-> [i \in DOMAIN image |-> IF i < MinImage THEN image[i]
                                       ELSE 65], mode |-> {"MEM"}, good |-> FALSE]
    [] kind = "magic"   -> [image |-> [image EXCEPT ![1] = 0], mode |-> {"FILE"}, good |-> FALSE]
    [] kind = "flags"   -> [image |-> [image EXCEPT ![4] = @ + 4], mode |-> {"MEM"},
                            good |-> FALSE]

\* tpl_free, and a new map of the same format: the state after it, and what it left.
Renewed(s) == IF ReadsBehind(s) THEN Undefined(s) ELSE Mapped(Map)

\* A tpl that refuses an image is freed, and the program starts anew.  TPL_FD is a
\* gather, which TplGather models, and then a load of kind "owned".
Load(kind) ==
  /\ Call /\ image # <<>> /\ ready' = FALSE
  /\ \E l \in {tpl_load(t, Image(kind).image, Image(kind).mode)} :
       /\ t' = IF l.rc = 0 THEN l.tpl ELSE Renewed(l.tpl)
       /\ lost' = IF l.rc = 0 THEN lost ELSE tpl_free(l.tpl)
  /\ UNCHANGED <<image, foreign, reply>>

Unpack(i) ==
  /\ Call /\ tpl_find_i(Map, i) # 0
  /\ "RDONLY" \notin t.flags => "WRONLY" \in t.flags /\ CanDump
  /\ \E u \in {tpl_unpack(t, Memory(CHOOSE c \in Contents : TRUE), i)} :
       /\ t' = u.tpl /\ ready' = FALSE
       /\ reply' = [count |-> u.rc,
                    val |-> IF u.rc <= 0 \/ (tpl_find_i(Map, i) = RootNode /\ ~RootHasValues(t))
                            THEN Nothing ELSE ValuesOf(u.mem, tpl_find_i(Map, i))]
  /\ UNCHANGED <<image, foreign, lost>>

\* The file cannot be mapped; the tpl has been reset by then.
tpl_mmap_file_fails ==
  /\ Call
  /\ t' = Renewed(t) /\ ready' = FALSE /\ lost' = tpl_free(Reset(t))
  /\ UNCHANGED <<image, foreign, reply>>

\* A new map of the same format is packed, dumped and freed; its A's stay empty.
tpl_jot(c) ==
  /\ Call
  /\ \E j \in {tpl_pack(Mapped(Map), Memory(c), 0).tpl} :
       /\ image' = tpl_dump(j, tpl_ser_osz(j)).image
       /\ foreign' = Other!tpl_dump(Mirror(j), tpl_ser_osz(j)).image
       /\ lost' = tpl_free(j)
       /\ t' = IF ReadsBehind(j) THEN Undefined(t) ELSE t
  /\ UNCHANGED <<ready, reply>>

Free ==
  /\ Call
  /\ lost' = tpl_free(t) /\ t' = Renewed(t) /\ ready' = FALSE
  /\ UNCHANGED <<image, foreign, reply>>

Next ==
  /\ \/ \E i \in 0..Len(Packables(Map)) : Unpack(i) \/ \E c \in Contents : Pack(i, c)
     \/ \E kind \in {"memory", "owned", "file", "foreign", "excess"} \cup Damages : Load(kind)
     \/ \E c \in Contents : tpl_jot(c)
     \/ Dump \/ Free \/ tpl_mmap_file_fails
  /\ doc' = Meaning(t', ready', image')

Spec == Init /\ [][Next]_vars

Doc == INSTANCE TplDoc WITH
  Root <- RootNode, inner <- doc.inner, root <- doc.root, store <- doc.store,
  sent <- doc.sent, open <- doc.open, left <- doc.left, reading <- doc.reading

\* The bytes, flags and cursors implement the documents of TplDoc.
DocSpec == Doc!DSpec

(***************************************************************************)
(* Properties.                                                             *)
(***************************************************************************)
\* Every block that packing and loading took is still reachable from the tpl, and
\* nothing is reachable twice or after it was freed: at any point tpl_free gives back
\* all of them, and looks at no pointer behind those of a node.  This is for formats in
\* which the last '#' of a level is that of its strings, and without a 'B' at the root.
BlocksAreReachable == t.status = "ok" => tpl_free(t) = 0 /\ lost = 0 /\ ~ReadsBehind(t)

\* The comment in tpl_free: "free any packed (copied) string".  Every pointer that
\* packing has set is among those that tpl_free looks at, and nothing else is.
PackedStringsAreFreed ==
  ready => \A n \in Nodes(t, "s") :
             /\ \A i \in DOMAIN t.data[n] : t.data[n][i] # Null => i <= Freed(t, n)
             /\ Freed(t, n) <= Node(t, n).slots

\* The comment in tpl_load: "already packed or loaded, so reset it as if newly mapped".
\* Of what malloc gave the tpl, a tpl just loaded has its image and no more.
LoadedIsAsNewlyMapped ==
  "RDONLY" \in t.flags => t.live = IF HoldsImage(t) THEN 1 ELSE 0

\* Damaged images are refused and undamaged ones taken, whatever was done before.
OnlyGoodImagesAreTaken ==
  [][\A kind \in Damages \cup {"memory", "owned", "file", "foreign", "excess"} :
       Load(kind) => (tpl_load(t, Image(kind).image, Image(kind).mode).rc = 0
                        <=> Image(kind).good)]_vars
================================================================================
