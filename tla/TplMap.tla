-------------------------------- MODULE TplMap --------------------------------
(***************************************************************************)
(* tpl_map_va: the format string is read one item at a time, and the tree  *)
(* of nodes grows with it.  An item is a character with what it takes from *)
(* the argument list: an address for an atom, 'B' or 'S', and for a run of *)
(* contiguous '#' the list of their numbers.  A node's address is a        *)
(* variable of the caller and an offset into it.                           *)
(***************************************************************************)
EXTENDS TplFormat

NoAddr == <<"NULL", 0>>

RootNode == 1

tpl_node_new(type, addr, parent) ==
  [type |-> type, addr |-> addr, num |-> 1, parent |-> parent, kids |-> <<>>,
   datum |-> 0,           \* an A's: bytes of each backbone's datum
   first |-> 0, step |-> 0, \* a POUND's: where its loop starts, element length
   slots |-> 1]           \* values that fit the node's data

MapInit ==
  [nodes |-> <<tpl_node_new("r", NoAddr, 0)>>,
   parent |-> RootNode, level |-> 0, expect_lparen |-> FALSE,
   in_structure |-> 0, nested |-> 0, ordinal |-> 0, struct_addr |-> NoAddr,
   first |-> 0, widest |-> 0, step |-> 0, prev |-> "", fxlens |-> <<>>,
   fmt |-> <<>>, status |-> "ok"]

Fail(p) == [p EXCEPT !.status = "fail"]
\* A null or stale pointer is followed: the build may do anything.
Undefined(p) == [p EXCEPT !.status = "undefined"]

Kids(p, n) == p.nodes[n].kids

\* What a child takes in the datum of an A: a 'B' takes a tpl_bin there.
\* _NoInner: nothing for an inner A.
DatumSize_NoInner(type) == IF type = "B" THEN 16 ELSE tpl_types[type]
DatumSize(type) ==
  CASE type = "B" -> 16
    [] type = "A" -> 8
    [] OTHER -> tpl_types[type]

AddNode(p, type, addr) ==
  LET id == Len(p.nodes) + 1
      n == tpl_node_new(type, addr, p.parent)
      extra == IF p.nodes[p.parent].type = "A" THEN DatumSize(type) ELSE 0
  IN IF p.parent = 0 THEN Undefined(p) ELSE
     [p EXCEPT !.nodes = Append([@ EXCEPT ![p.parent].kids = Append(@, id),
                                          ![p.parent].datum = @ + extra], n)]

\* _Packed: without padding.
calc_field_addr_Packed(p, type) ==
  LET before == p.nodes[Kids(p, p.parent)[Len(Kids(p, p.parent))]]
  IN IF p.ordinal = 1 THEN p.struct_addr
     ELSE <<p.struct_addr[1], before.addr[2] + tpl_types[before.type] * before.num>>
\* The field's address by the size and number of the field before it.
calc_field_addr(p, type) ==
  LET before == p.nodes[Kids(p, p.parent)[Len(Kids(p, p.parent))]]
      end == before.addr[2] + tpl_types[before.type] * before.num
      align == tpl_types[type]
  IN IF p.ordinal = 1 THEN p.struct_addr
     ELSE <<p.struct_addr[1], ((end + align - 1) \div align) * align>>

\* There is no field before to count from, or it is a POUND and has no address.
NoFieldBefore(p) ==
  /\ p.in_structure > 0 /\ p.ordinal > 1
  /\ \/ p.parent = 0
     \/ Kids(p, p.parent) = <<>>
     \/ p.nodes[Kids(p, p.parent)[Len(Kids(p, p.parent))]].type = "#"

Wider(p, c) == p.ordinal = 1 \/ tpl_types[c] > tpl_types[p.nodes[p.widest].type]

MapAtom(p, it) ==
  LET id == Len(p.nodes) + 1
      q == AddNode(p, it.c, IF p.in_structure > 0 THEN calc_field_addr(p, it.c)
                            ELSE <<it.addr, 0>>)
  IN CASE p.expect_lparen -> Fail(p)
       [] ~p.expect_lparen /\ NoFieldBefore(p) -> Undefined(p)
       [] ~p.expect_lparen /\ ~NoFieldBefore(p) /\ p.in_structure = 0 -> q
       [] OTHER -> [q EXCEPT !.ordinal = @ + 1,
                             !.first = IF p.ordinal = 1 THEN id ELSE @,
                             !.widest = IF Wider(p, it.c) THEN id ELSE @]

MapBin(p, it) ==
  IF p.expect_lparen \/ p.in_structure > 0 THEN Fail(p)
  ELSE AddNode(p, "B", <<it.addr, 0>>)

MapArray(p) ==
  IF p.in_structure > 0 THEN Fail(p)
  ELSE [AddNode(p, "A", NoAddr) EXCEPT !.parent = Len(p.nodes) + 1,
                                       !.expect_lparen = TRUE]

MapStruct(p, it) ==
  IF p.in_structure > 0 THEN Fail(p)
  ELSE [p EXCEPT !.expect_lparen = TRUE, !.ordinal = 1,
                 !.in_structure = 1 + p.level, !.struct_addr = <<it.addr, 0>>]

MapNested(p) ==
  IF p.in_structure = 0 THEN Fail(p)
  ELSE [p EXCEPT !.expect_lparen = TRUE, !.nested = @ + 1]

MapOpen(p) ==
  IF ~p.expect_lparen THEN Fail(p)
  ELSE [p EXCEPT !.expect_lparen = FALSE, !.level = @ + 1]

EndStruct(p, step) == [p EXCEPT !.step = step, !.in_structure = 0, !.ordinal = @ + 1]

\* A ')' ends a nested structure, the structure (and gives the distance of two
\* of them in an array, through the field that would come next), or an A.
MapClose(p) ==
  LET q == [p EXCEPT !.level = @ - 1]
      next == calc_field_addr(q, q.nodes[q.widest].type)
  IN CASE q.level < 0 \/ p.prev = "(" -> Fail(q)
       [] q.level >= 0 /\ p.prev # "(" /\ p.nested > 0 -> [q EXCEPT !.nested = @ - 1]
       [] q.level >= 0 /\ p.prev # "(" /\ p.nested = 0 /\ p.in_structure = q.level + 1 ->
            IF q.widest = 0 \/ NoFieldBefore(q) THEN Undefined(q)
            ELSE EndStruct(q, next[2] - q.struct_addr[2])
       [] OTHER -> IF q.parent = 0 THEN Undefined(q)
                   ELSE [q EXCEPT !.parent = q.nodes[@].parent]

Product(nums) == FoldLeft(LAMBDA a, b : a * b, 1, nums)

\* '#' after an atom repeats the atom; after ')' it adds a node that repeats
\* everything from the structure's first field on.
MapPound(p, it) ==
  IF p.parent = 0 THEN Undefined(p) ELSE
  LET kids == Kids(p, p.parent)
      before == kids[Len(kids)]
      b == p.nodes[before]
      times == Product(it.nums)
      inA == p.nodes[p.parent].type = "A"
      atom == [p EXCEPT
                !.nodes[before].num = times, !.nodes[before].slots = times,
                !.nodes[p.parent].datum =
                   IF inA THEN @ + tpl_types[b.type] * (times - 1) ELSE @]
      loop == {i \in DOMAIN kids : kids[i] >= p.first}
      loopable == /\ p.first \in {kids[i] : i \in DOMAIN kids}
                  /\ \A i \in loop : p.nodes[kids[i]].type # "A"
      id == Len(p.nodes) + 1
      more(k) == tpl_types[p.nodes[k].type] * p.nodes[k].num * (times - 1)
      space == FoldLeft(LAMBDA a, i : IF i \in loop THEN a + more(kids[i]) ELSE a,
                        0, [i \in DOMAIN kids |-> i])
      q == AddNode(p, "#", NoAddr)
      struct == [q EXCEPT
        !.nodes = [i \in DOMAIN @ |->
           CASE i = id -> [@[i] EXCEPT !.num = times, !.first = p.first, !.step = p.step]
             [] i = p.parent /\ inA -> [@[i] EXCEPT !.datum = @ + space]
             [] \E j \in loop : kids[j] = i -> [@[i] EXCEPT !.slots = p.nodes[i].num * times]
             [] OTHER -> @[i]]]
      grown == IF p.prev = ")" THEN struct ELSE atom
  IN CASE kids = <<>> -> Fail(p)
       [] kids # <<>> /\ p.prev # ")" /\ b.type \notin Atoms -> Fail(p)
       [] kids # <<>> /\ p.prev = ")" /\ ~loopable -> Undefined(p)
       [] OTHER -> [grown EXCEPT !.fxlens = @ \o it.nums]

MapItem(p, it) ==
  LET q == CASE it.c \in Atoms -> MapAtom(p, it)
             [] it.c = "#" -> MapPound(p, it)
             [] it.c = "B" -> MapBin(p, it)
             [] it.c = "A" -> MapArray(p)
             [] it.c = "S" -> MapStruct(p, it)
             [] it.c = "$" -> MapNested(p)
             [] it.c = ")" -> MapClose(p)
             [] it.c = "(" -> MapOpen(p)
      codes == IF it.c = "#" THEN [i \in DOMAIN it.nums |-> Pound]
               ELSE <<FormatCodes[it.c]>>
  IN [q EXCEPT !.prev = it.c, !.fmt = @ \o codes]

Accepted(p) == p.status = "ok" /\ p.level = 0

tpl_map(format) == FoldLeft(MapItem, MapInit, format)

\* The length word, magic and flags, the format and the # numbers.
Overhead(p) == 4 + (Len(p.fmt) + 1) + 4 + 4 * Len(p.fxlens)

\* The i-th packable: the root, or the i-th A of the format.
Packables(p) ==
  <<RootNode>> \o SelectSeq([i \in DOMAIN p.nodes |-> i], LAMBDA n : p.nodes[n].type = "A")

tpl_find_i(p, i) == IF i + 1 \in DOMAIN Packables(p) THEN Packables(p)[i + 1] ELSE 0

\* The children that a POUND's loop goes back to, once more at distance off.
Round(loop, pass, off) ==
  [b \in DOMAIN loop |-> [kid |-> loop[b], pass |-> pass, off |-> off]]

\* From pound on, the i-th of kids: one round for each number it has left.
Rounds(pound, loop, left) ==
  FlattenSeq([j \in 1..left |-> Round(loop, j, j * pound.step)])

\* Every pass over a node's children visits them in this order; pass counts the
\* rounds of a POUND's loop, and off is how far the loop has moved the addresses.
\* iter holds the rounds that an earlier pass left behind.
VisitKid(p, iter, kids, i) ==
  IF p.nodes[kids[i]].type # "#" THEN <<[kid |-> kids[i], pass |-> 0, off |-> 0]>>
  ELSE Rounds(p.nodes[kids[i]],
              SelectSeq(SubSeq(kids, 1, i - 1), LAMBDA k : k >= p.nodes[kids[i]].first),
              p.nodes[kids[i]].num - iter[kids[i]] - 1)

Walk(p, n, iter) == FlattenSeq([i \in DOMAIN Kids(p, n) |-> VisitKid(p, iter, Kids(p, n), i)])

NoIter(p) == [n \in DOMAIN p.nodes |-> 0]

\* The POUNDs whose loop takes in node k.
LoopsOver(p, k) ==
  {n \in DOMAIN p.nodes : p.nodes[n].type = "#" /\ p.nodes[n].parent = p.nodes[k].parent
                          /\ p.nodes[n].first <= k /\ k < n}
================================================================================
