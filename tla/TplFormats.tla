------------------------------ MODULE TplFormats ------------------------------
(***************************************************************************)
(* Every format string up to a length, read by tpl_map, against what the   *)
(* formats mean: a grammar, the C layout of the structures they describe   *)
(* and the memory that the nodes get.                                      *)
(***************************************************************************)
EXTENDS TplMap, FiniteSets

CONSTANTS
  Alphabets, \* sets of the characters that a format is made of, "#" excepted
  Numbers,   \* what the argument list gives to a run of '#'
  Variables, \* the caller's variables, one for each item
  MaxItems   \* bound: items of a format

VARIABLES
  chars, \* the characters of this format
  items, \* the items read
  map    \* tpl_map_va's locals and the tree it has built

vars == <<chars, items, map>>

Item(c, nums) == [c |-> c, addr |-> Variables[Len(items) + 1], nums |-> nums]

Init == chars \in Alphabets /\ items = <<>> /\ map = MapInit

Read(it) ==
  /\ map.status = "ok" /\ Len(items) < MaxItems
  /\ items' = Append(items, it)
  /\ map' = MapItem(map, it)
  /\ UNCHANGED chars

Next ==
  \/ \E c \in chars : Read(Item(c, <<>>))
  \/ \E nums \in Numbers : map.prev # "#" /\ Read(Item("#", nums))

Spec == Init /\ [][Next]_vars

(***************************************************************************)
(* What a format means.                                                    *)
(***************************************************************************)
Openers == {"A", "S", "$"}

At(i) == items[i].c

\* What is open after the first i items, the innermost last.
Open ==
  LET step(acc, it) ==
        CASE it.c \in Openers -> Append(acc, Append(acc[Len(acc)], it.c))
          [] it.c = ")" /\ acc[Len(acc)] # <<>> -> Append(acc, Front(acc[Len(acc)]))
          [] OTHER -> Append(acc, acc[Len(acc)])
  IN FoldLeft(step, << <<>> >>, items)

InStruct(open) == \E i \in DOMAIN open : open[i] = "S"

WellFormed ==
  /\ items # <<>> /\ Open[Len(items) + 1] = <<>>
  /\ \A i \in DOMAIN items :
       LET c == At(i)
           prev == IF i = 1 THEN "" ELSE At(i - 1)
       IN /\ prev \in Openers <=> c = "("
          /\ c = ")" => prev # "(" /\ Open[i] # <<>>
          /\ c \in {"A", "B", "S"} => ~InStruct(Open[i])
          /\ c = "$" => InStruct(Open[i])
          /\ c = "#" => \/ prev \in Atoms
                        \/ prev = ")" /\ Open[i - 1][Len(Open[i - 1])] = "S"
          /\ i = Len(items) => c \notin Openers

Done == WellFormed /\ map.status = "ok"

\* The fields of the structure at variable v, in order.
Fields(v) == SelectSeq(map.nodes, LAMBDA n : n.addr[1] = v)

RoundUp(n, to) == ((n + to - 1) \div to) * to

\* The ')' of what item i opens, what the ')' at i closes, the atoms of a structure.
Closing(i) == Min({j \in i + 1 .. Len(items) : Len(Open[j + 1]) = Len(Open[i])})
Opening(i) == CHOOSE j \in 1..i : At(j) \in Openers /\ Closing(j) = i
Widths(i) == {tpl_types[At(j)] : j \in {k \in i..Closing(i) : At(k) \in Atoms}}
Alignment(i) == Max(Widths(i))

Elements(i) ==
  IF i < Len(items) /\ At(i + 1) = "#" THEN Product(items[i + 1].nums) ELSE 1

\* Where C puts the fields of the structure that item s opens, then its size: a field at
\* a multiple of its width, a nested structure at one of its alignment, and either
\* structure ends at such a multiple.
Layout(s) ==
  LET place(acc, i) ==
        LET at(align) == RoundUp(acc.end, align)
        IN CASE At(i) \in Atoms ->
                  [offsets |-> Append(acc.offsets, at(tpl_types[At(i)])),
                   end |-> at(tpl_types[At(i)]) + tpl_types[At(i)] * Elements(i)]
             [] At(i) = "$" -> [acc EXCEPT !.end = at(Alignment(i))]
             [] At(i) = ")" -> [acc EXCEPT !.end = at(Alignment(Opening(i)))]
             [] OTHER -> acc
  IN FoldLeft(place, [offsets |-> <<>>, end |-> 0], [k \in 1..Closing(s) - s |-> s + k])

Structs == {i \in DOMAIN items : At(i) = "S"}
Alike == \A i \in DOMAIN items : At(i) = "$" => Cardinality(Widths(i)) = 1

(***************************************************************************)
(* Properties.                                                             *)
(***************************************************************************)
\* The fields are read and written where the compiler put them, and a loop over an
\* array of structures starts at its first and goes on by the size of one.
FieldsLaidOut ==
  Done => \A s \in Structs :
    LET v == items[s].addr
        c == Layout(s)
    IN /\ [i \in DOMAIN Fields(v) |-> Fields(v)[i].addr[2]] = c.offsets
       /\ \A n \in DOMAIN map.nodes :
            map.nodes[n].type = "#" /\ map.nodes[map.nodes[n].first].addr[1] = v =>
              /\ map.nodes[map.nodes[n].first].addr[2] = 0
              /\ map.nodes[n].step = c.end
              /\ \A k \in (map.nodes[n].first)..(n - 1) : map.nodes[k].addr[1] = v

\* tpl_map takes every format of the grammar, and where no nested structure has fields
\* of several widths it lays them out as C does.
FieldsWhereCPutsThem ==
  /\ WellFormed => Accepted(map)
  /\ WellFormed /\ Alike => FieldsLaidOut

\* The datum allocated for one element of an A holds what tpl_pack puts there: the
\* values of every visit, and one pointer for a 'B', a string or an inner A.
DatumHoldsOneElement ==
  Done => \A n \in DOMAIN map.nodes : map.nodes[n].type = "A" =>
    LET need(v) == LET k == map.nodes[v.kid]
                   IN IF k.type \in Atoms THEN tpl_types[k.type] * k.num ELSE 8
    IN FoldLeft(LAMBDA a, v : a + need(v), 0, Walk(map, n, NoIter(map))) <= map.nodes[n].datum
================================================================================
