------------------------------- MODULE MpackTree -------------------------------
(***************************************************************************)
(* mpack's node API, the parser: messages become trees of nodes, one after *)
(* another, from data in memory or from a read function.  Parsing goes     *)
(* node by node, pauses when data is missing and goes on in a later call.  *)
(* With MPACK_STDLIB=0, as in the Makefile, there is no malloc: only data  *)
(* in memory and a pool of nodes are left, here "bare".  "pool", "data"    *)
(* and "stream" are the init functions of the other build.                 *)
(*                                                                         *)
(* A node's address is <<page, number>>; page 0 is the pool.  Lengths from *)
(* 2^24 on are all the same: no data is that long.                         *)
(***************************************************************************)
EXTENDS MpackFormat, SequencesExt, FiniteSetsExt

CONSTANTS
  Sources,       \* byte sequences: what is in memory or will be read
  Inits,         \* of "bare", "pool", "data" and "stream"
  Pools,         \* numbers of nodes that a pool may have
  Limits,        \* [size, nodes], for mpack_tree_set_limits
  STACK_DEPTH,   \* MPACK_NODE_MAX_DEPTH_WITHOUT_MALLOC or MPACK_NODE_INITIAL_DEPTH
  NODES_PER_PAGE,
  BUFFER_SIZE,
  MayFail        \* whether malloc and read functions do, in some of the behaviours

ASSUME SizesAssumption ==
  /\ Inits \subseteq {"bare", "pool", "data", "stream"} /\ MayFail \in BOOLEAN
  /\ Pools \subseteq Nat \ {0} /\ {STACK_DEPTH, NODES_PER_PAGE, BUFFER_SIZE} \subseteq Nat \ {0}
  /\ \A l \in Limits : {l.size, l.nodes} \subseteq Nat \ {0}
ASSUME SourcesAssumption == \A s \in Sources : s \in Seq(Byte)

VARIABLES
  source, how, pool_count, max,
  failing,     \* whether malloc and the read function may fail
  error,
  state,       \* "not_started", "in_progress" or "parsed"
  base, got,   \* data is what was got of the source, from base on
  capacity,    \* of the buffer
  size, node_count,
  left,        \* possible_nodes_left
  reserved,    \* current_node_reserved
  nodes,       \* the next node to be handed out
  nodes_left,
  stack, stack_capacity, stack_owned,
  node,        \* the nodes that were parsed, by address
  pages,       \* the list from tree->next on: sizes, the newest last
  blocks,      \* how much malloc gave and free did not take back
  call,        \* "none", "parse" or "try_parse"
  paused,      \* auxiliary: this message was left and gone on with
  pc           \* "idle", "head", "contents" or "destroyed"

given == <<source, how, pool_count, max, failing>>
read == <<got, capacity>>
here == <<given, base, call, paused>>
parser == <<nodes, nodes_left, stack, stack_capacity, stack_owned, node, pages, blocks>>
vars == <<given, read, parser, error, state, base, size, node_count, left, reserved, call, paused,
          pc>>

\* MPACK_MALLOC, and whether the nodes come from a pool.
HasMalloc == how # "bare"
Pooled == how \in {"bare", "pool"}

HUGE == 16777216
data_length == got - base
Load(p) == source[base + p + 1]
\* The children that the levels of s have left.
Pending(s) ==
  LET upto[i \in 0..Len(s)] == IF i = 0 THEN 0 ELSE upto[i - 1] + s[i].left IN upto[Len(s)]

Init ==
  /\ source \in Sources /\ how \in Inits /\ max \in Limits
  /\ failing \in {FALSE, MayFail} /\ paused = FALSE
  /\ pool_count \in IF Pooled THEN Pools ELSE {0}
  /\ error = "ok" /\ state = "not_started" /\ size = 0 /\ node_count = 0
  /\ base = 0 /\ got = (IF how = "stream" THEN 0 ELSE Len(source)) /\ capacity = 0
  /\ left = 0 /\ reserved = 0 /\ nodes = <<0, 0>> /\ nodes_left = 0
  /\ stack = <<>> /\ stack_capacity = 0 /\ stack_owned = FALSE /\ node = << >>
  /\ pages = <<>> /\ blocks = 0 /\ call = "none" /\ pc = "idle"

(***************************************************************************)
(* mpack_tree_reserve_bytes and mpack_tree_reserve_fill: what may come of  *)
(* asking for need bytes in all.                                           *)
(***************************************************************************)
Answer(ok, e, n, c) == [ok |-> ok, error |-> e, read |-> n, capacity |-> c]

\* The buffer is doubled until it is enough, but not beyond the limit.
Grown(need) ==
  LET start == IF capacity = 0 THEN BUFFER_SIZE ELSE capacity
      enough == {c \in need..max.size : c % start = 0 /\ c \div start \in {2 ^ k : k \in 0..30}}
  IN CASE need <= capacity -> capacity
       [] need > capacity /\ enough # {} -> Min(enough)
       [] OTHER -> max.size

\* have bytes are possible nodes, the buffer has length bytes.  A read function that
\* blocks returns 0 only at the end.
Reserves(have, length, need) ==
  IF need <= have THEN {Answer(TRUE, "ok", 0, capacity)}
  ELSE IF ~HasMalloc THEN {Answer(FALSE, "ok", 0, capacity)}
  ELSE IF length + need > max.size THEN {Answer(FALSE, "too_big", 0, capacity)}
  ELSE IF how # "stream" THEN {Answer(FALSE, "invalid", 0, capacity)}
  ELSE LET c == Grown(length + need)
           rest == Len(source) - base' - length
           enough == (need - have)..Min({c - length, rest})
           short == 0..Min({need - have - 1, rest})
       IN {Answer(TRUE, "ok", n, c) : n \in enough}
            \cup {Answer(FALSE, "ok", n, c) : n \in {k \in short : call' = "try_parse" \/ k = rest}}
            \cup (IF failing THEN {Answer(FALSE, "io", n, c) : n \in short} ELSE {})
            \cup (IF failing /\ c > capacity THEN {Answer(FALSE, "memory", 0, capacity)} ELSE {})

Got(a) == got' = got + a.read /\ capacity' = a.capacity

\* possible_nodes_left when the node is done.
Rest(n) == left + n - reserved'

\* mpack_tree_parse makes an error of a message that is not complete.
Incomplete(e) ==
  IF e # "ok" \/ call' = "try_parse" THEN e ELSE IF how = "stream" THEN "io" ELSE "invalid"

Fails(e) == pc' = "idle" /\ error' = Incomplete(e)
Goes(to) == pc' = to /\ UNCHANGED error

(***************************************************************************)
(* mpack_tree_parse_start and mpack_tree_cleanup.                          *)
(***************************************************************************)
\* _Stack: the pages are forgotten.
Freed_Stack == blocks - (IF stack_owned THEN 1 ELSE 0)
Freed == blocks - (IF stack_owned THEN 1 ELSE 0) - Len(pages)

NotStarted ==
  /\ state' = "not_started" /\ node_count' = (IF size > 0 THEN 0 ELSE node_count)
  /\ pages' = <<>> /\ blocks' = Freed /\ node' = << >> /\ stack' = <<>>
  /\ UNCHANGED <<nodes, nodes_left, stack_capacity>>

Started(page, count, allocated) ==
  /\ state' = "in_progress" /\ node_count' = 1
  /\ pages' = allocated /\ blocks' = Freed + Len(allocated)
  /\ stack_capacity' = STACK_DEPTH /\ node' = << >>
  /\ nodes' = <<page, 1>> /\ nodes_left' = count - 1
  /\ stack' = <<[child |-> <<page, 0>>, left |-> 1]>>
  /\ Goes("head")

NoPage ==
  /\ state' = "in_progress" /\ node_count' = 1
  /\ pages' = <<>> /\ blocks' = Freed /\ node' = << >> /\ stack' = <<>>
  /\ stack_capacity' = STACK_DEPTH /\ UNCHANGED <<nodes, nodes_left>>
  /\ pc' = "idle" /\ error' = "memory"

mpack_tree_parse_start(c) ==
  /\ pc = "idle" /\ error = "ok" /\ state # "in_progress" /\ call' = c
  /\ base' = base + size /\ size' = 0 /\ reserved' = 1 /\ stack_owned' = FALSE
  /\ paused' = FALSE
  /\ \E a \in Reserves(got - base', got - base', 1) :
       /\ Got(a)
       /\ \/ ~a.ok /\ left' = got' - base' /\ NotStarted /\ Fails(a.error)
          \/ /\ a.ok /\ left' = got' - base' - 1
             /\ \/ Pooled /\ Started(0, pool_count, <<>>)
                \/ ~Pooled /\ Started(1, NODES_PER_PAGE, <<NODES_PER_PAGE>>)
                \/ ~Pooled /\ failing /\ NoPage
  /\ UNCHANGED given

\* mpack_tree_try_parse where it stopped.
Resume ==
  /\ pc = "idle" /\ error = "ok" /\ state = "in_progress"
  /\ call' \in {"parse", "try_parse"} /\ paused' = TRUE /\ Goes("head")
  /\ UNCHANGED <<given, read, parser, state, base, size, node_count, left, reserved>>

(***************************************************************************)
(* mpack_tree_parse_node_contents: the first byte and what its type has    *)
(* behind it.                                                              *)
(***************************************************************************)
Kind(b) ==
  CASE b <= 127 \/ b \in 204..207 -> "uint"
    [] b \in 128..143 \cup {222, 223} -> "map"
    [] b \in 144..159 \cup {220, 221} -> "array"
    [] b \in 160..191 \cup 217..219 -> "str"
    [] b = 192 -> "nil"
    [] b \in {194, 195} -> "bool"
    [] b \in 196..198 -> "bin"
    [] b = 202 -> "float"
    [] b = 203 -> "double"
    [] b \in 208..211 \/ b >= 224 -> "int"

Compound == {"array", "map"}
Data == {"str", "bin"}

\* A length or count of one, two or four bytes.
Loaded(b) ==
  CASE Len(b) = 1 -> b[1]
    [] Len(b) = 2 -> mpack_load_u16(b[1], b[2])
    [] Len(b) = 4 -> IF b[1] > 0 THEN HUGE ELSE 65536 * b[2] + mpack_load_u16(b[3], b[4])

\* The len of a node whose first byte is b and whose header goes on with h.
Length(b, h) ==
  CASE Kind(b) \notin Compound \cup Data -> 0
    [] b \in 128..159 -> b % 16
    [] b \in 160..191 -> b % 32
    [] OTHER -> Loaded(h)

\* Numbers in 64 bits, from the highest byte on; floats as they are.
Widened(b, h) ==
  LET n == IF TagSize(b) = 1 THEN <<b>> ELSE h
      fill == IF Kind(b) = "int" /\ n[1] >= 128 THEN 255 ELSE 0
  IN [i \in 1..(8 - Len(n)) |-> fill] \o n
Value(b, h) ==
  CASE Kind(b) \in {"uint", "int"} -> Widened(b, h)
    [] Kind(b) \in {"float", "double"} -> h
    [] Kind(b) = "bool" -> <<b % 2>>
    [] OTHER -> <<>>

Here == Load(size)
Header == SubSeq(source, base + size + 2, base + size + TagSize(Here))
len == Length(Here, Header)
total == IF Kind(Here) = "map" THEN 2 * len ELSE len

\* What a node is: for str and bin where its bytes are, for array and map its children.
NodeOf(offset, children) ==
  [type |-> Kind(Here), len |-> len, v |-> Value(Here, Header), offset |-> offset,
   children |-> children]

\* The levels that have children left; none when the message is complete.
Popped(s) ==
  LET open == {i \in 1..Len(s) : s[i].left > 0}
  IN IF open = {} THEN <<>> ELSE SubSeq(s, 1, Max(open))

\* mpack_tree_parse_node and a turn of mpack_tree_continue_parsing: the node is done, and
\* a level for its children pushed.
Parsed(n, count, pushed) ==
  LET top == stack[Len(stack)]
      child == <<top.child[1], top.child[2] + 1>>
      s == Popped(SubSeq(stack, 1, Len(stack) - 1)
                    \o <<[child |-> child, left |-> top.left - 1]>> \o pushed)
  IN /\ node' = [a \in DOMAIN node \cup {top.child} |-> IF a = top.child THEN n ELSE node[a]]
     /\ size' = size + reserved' + 1 - count
     /\ stack' = s
     /\ IF s = <<>> THEN state' = "parsed" /\ Goes("idle") ELSE Goes("head") /\ UNCHANGED state

Unparsed == UNCHANGED <<node, size, stack, state>>

ParseHead ==
  /\ pc = "head"
  /\ UNCHANGED here
  /\ \/ /\ Reserved(Here) /\ reserved' = 0 /\ Fails("invalid")
        /\ Unparsed /\ UNCHANGED <<read, left>>
     \/ /\ Extension(Here) /\ reserved' = 0 /\ Fails("unsupported")
        /\ Unparsed /\ UNCHANGED <<read, left>>
     \/ /\ ~Reserved(Here) /\ ~Extension(Here) /\ reserved' = TagSize(Here) - 1
        /\ \E a \in Reserves(left, data_length, reserved') :
             /\ Got(a)
             /\ \/ ~a.ok /\ Fails(a.error) /\ Unparsed /\ left' = left + a.read
                \/ /\ a.ok /\ Kind(Here) \in Compound \cup Data
                   /\ Goes("contents") /\ Unparsed /\ left' = left + a.read
                \/ /\ a.ok /\ Kind(Here) \notin Compound \cup Data
                   /\ left' = Rest(a.read)
                   /\ Parsed(NodeOf(0, <<0, 0>>), 0, <<>>)
  /\ UNCHANGED <<node_count, nodes, nodes_left, stack_capacity, stack_owned, pages, blocks>>

\* Where the bytes are.  _Bare: as if their length were not before them.
Offset_Bare == size + 1
Offset == size + reserved + 1

\* mpack_tree_parse_bytes.
ParseBytes ==
  /\ pc = "contents" /\ Kind(Here) \in Data
  /\ UNCHANGED here
  /\ reserved' = reserved + len
  /\ \E a \in Reserves(left, data_length, reserved') :
       /\ Got(a)
       /\ \/ ~a.ok /\ Fails(a.error) /\ Unparsed /\ left' = left + a.read
          \/ /\ a.ok /\ left' = Rest(a.read)
             /\ Parsed(NodeOf(Offset, <<0, 0>>), 0, <<>>)
  /\ UNCHANGED <<node_count, nodes, nodes_left, stack_capacity, stack_owned, pages, blocks>>

(***************************************************************************)
(* mpack_tree_parse_children.                                              *)
(***************************************************************************)
\* Where the children go: [at, next, left, page], where page is the size of a new page or
\* 0.  They get a page of their own when much of the current one would be wasted.
\* _Small: a page of its own is one of the usual size.
Place(at, next, rest, page) == [at |-> at, next |-> next, left |-> rest, page |-> page]
Placed_Small ==
  LET fresh == Len(pages) + 1
  IN IF total <= nodes_left THEN Place(nodes, <<nodes[1], nodes[2] + total>>, nodes_left - total, 0)
     ELSE IF total > NODES_PER_PAGE \/ nodes_left > NODES_PER_PAGE \div 8
     THEN Place(<<fresh, 0>>, nodes, nodes_left, NODES_PER_PAGE)
     ELSE Place(<<fresh, 0>>, <<fresh, total>>, NODES_PER_PAGE - total, NODES_PER_PAGE)
Placed ==
  LET fresh == Len(pages) + 1
  IN IF total <= nodes_left THEN Place(nodes, <<nodes[1], nodes[2] + total>>, nodes_left - total, 0)
     ELSE IF total > NODES_PER_PAGE \/ nodes_left > NODES_PER_PAGE \div 8
     THEN Place(<<fresh, 0>>, nodes, nodes_left, total)
     ELSE Place(<<fresh, 0>>, <<fresh, total>>, NODES_PER_PAGE - total, NODES_PER_PAGE)

Unplaced == UNCHANGED <<nodes, nodes_left, pages>>
Taken(p) ==
  /\ nodes' = p.next /\ nodes_left' = p.left
  /\ pages' = IF p.page > 0 THEN Append(pages, p.page) ELSE pages

\* _Early: a level too early.
StackFull_Early == total > 0 /\ Len(stack) + 1 = stack_capacity
StackFull == total > 0 /\ Len(stack) = stack_capacity

\* mpack_tree_push_stack, which doubles a full stack, and what comes behind it.
Pushed(p, new) ==
  \/ /\ StackFull /\ (~HasMalloc \/ failing)
     /\ Fails(IF HasMalloc THEN "memory" ELSE "too_big") /\ Unparsed
     /\ left' = left + got' - got /\ blocks' = blocks + new
     /\ UNCHANGED <<stack_capacity, stack_owned>>
  \/ /\ ~StackFull \/ HasMalloc
     /\ stack_capacity' = (IF StackFull THEN 2 * stack_capacity ELSE stack_capacity)
     /\ stack_owned' = (stack_owned \/ StackFull)
     /\ blocks' = blocks + new + (IF StackFull /\ ~stack_owned THEN 1 ELSE 0)
     /\ left' = Rest(got' - got)
     /\ Parsed(NodeOf(0, p.at), total, IF total = 0 THEN <<>> ELSE <<[child |-> p.at, left |-> total]>>)

ParseChildren ==
  /\ pc = "contents" /\ Kind(Here) \in Compound
  /\ UNCHANGED here
  /\ node_count' = node_count + total
  /\ \/ /\ node_count' > max.nodes /\ Fails("too_big") /\ Unparsed /\ Unplaced
        /\ UNCHANGED <<read, left, reserved, stack_capacity, stack_owned, blocks>>
     \/ /\ node_count' <= max.nodes /\ reserved' = reserved + total
        /\ \E a \in Reserves(left, data_length, reserved') :
             /\ Got(a)
             /\ \/ /\ ~a.ok /\ Fails(a.error) /\ left' = left + a.read
                   /\ Unparsed /\ Unplaced /\ UNCHANGED <<stack_capacity, stack_owned, blocks>>
                \/ /\ a.ok /\ total > nodes_left /\ (Pooled \/ failing)
                   /\ Fails(IF Pooled THEN "too_big" ELSE "memory") /\ left' = left + a.read
                   /\ Unparsed /\ Unplaced /\ UNCHANGED <<stack_capacity, stack_owned, blocks>>
                \/ /\ a.ok /\ (total <= nodes_left \/ ~Pooled)
                   /\ Taken(Placed) /\ Pushed(Placed, IF Placed.page > 0 THEN 1 ELSE 0)

mpack_tree_destroy ==
  /\ pc = "idle" /\ pc' = "destroyed"
  /\ blocks' = Freed /\ pages' = <<>> /\ stack_owned' = FALSE /\ node' = << >>
  /\ UNCHANGED <<given, read, error, state, base, size, node_count, left, reserved, nodes,
                 nodes_left, stack, stack_capacity, call, paused>>

\* mpack_tree_try_parse is for read functions only.
ParseCalls == IF how = "stream" THEN {"parse", "try_parse"} ELSE {"parse"}

Node == ParseHead \/ ParseBytes \/ ParseChildren
Next ==
  \/ \E c \in ParseCalls : mpack_tree_parse_start(c)
  \/ Resume \/ Node \/ mpack_tree_destroy

Spec == Init /\ [][Next]_vars

(***************************************************************************)
(* The state.                                                              *)
(***************************************************************************)
Going == state = "in_progress" /\ error = "ok" /\ pc # "destroyed"
Good == state \in {"in_progress", "parsed"} /\ error = "ok" /\ pc # "destroyed"

\* mpack-node.h:208-213: the parser never has more nodes than there are bytes, however many
\* a message announces, and not more than the limit, and a stream's buffer keeps within
\* the other limit.  possible_nodes_left is what no node, read or announced, has taken.
NodesAreBacked ==
  Going =>
    /\ left = data_length - size - Pending(stack) /\ left >= 0
    /\ Cardinality(DOMAIN node) + Pending(stack) <= Min({data_length, max.nodes})
    /\ how = "stream" => data_length <= max.size

Root == IF Pooled THEN <<0, 0>> ELSE <<1, 0>>
\* The nodes from a on.
Block(a, n) == {<<a[1], a[2] + i>> : i \in 0..(n - 1)}
PageSize(k) == IF k = 0 THEN pool_count ELSE pages[k]
InPages(as) == \A a \in as : a[1] <= Len(pages) /\ a[2] < PageSize(a[1])
Children(n) ==
  Block(n.children, IF n.type = "map" THEN 2 * n.len ELSE IF n.type = "array" THEN n.len ELSE 0)

\* No node is outside of its page or pool, none has two parents or is handed out again, in
\* whatever order pages, own pages and pools were used (mpack_tree_parse_children).
NodesApart ==
  Good =>
    /\ NodesAreBacked
    /\ InPages(DOMAIN node) /\ \A i \in 1..Len(stack) : InPages(Block(stack[i].child, stack[i].left))
    /\ nodes[2] + nodes_left = PageSize(nodes[1])
    /\ \A a, b \in DOMAIN node : a # b => Children(node[a]) \cap Children(node[b]) = {}
    /\ \A a \in DOMAIN node :
         \A c \in Children(node[a]) : c # Root /\ (c[1] = nodes[1] => c[2] < nodes[2])

\* What was allocated is what the tree will free: the pages, and the stack when it outgrew
\* the one in the parser.  Nothing is left when the tree is destroyed, in whatever state.
NothingLeaks ==
  /\ blocks = Len(pages) + (IF stack_owned THEN 1 ELSE 0)
  /\ pc = "destroyed" => blocks = 0
================================================================================
