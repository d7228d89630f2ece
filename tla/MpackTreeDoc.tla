------------------------------ MODULE MpackTreeDoc ------------------------------
(***************************************************************************)
(* What a tree of mpack-node.c stands for: MessagePack read by recursion   *)
(* from a whole message, without pages, stacks or pauses.                  *)
(***************************************************************************)
EXTENDS MpackTree

\* A message that starts at p, or why there is none: [what, tree, end, nodes, depth].
Fault(what) == [what |-> what, tree |-> <<>>, end |-> 0, nodes |-> 0, depth |-> 0]
Tree(type, l, v, bytes, children) ==
  [type |-> type, len |-> l, v |-> v, bytes |-> bytes, children |-> children]

RECURSIVE Message(_), Elements(_, _)
Message(p) ==
  IF p >= Len(source) THEN Fault("cut")
  ELSE LET b == source[p + 1]
           body == p + TagSize(b)
           h == SubSeq(source, p + 2, body)
           l == Length(b, h)
       IN CASE Reserved(b) -> Fault("reserved")
            [] Extension(b) -> Fault("ext")
            [] ~Reserved(b) /\ ~Extension(b) /\ body > Len(source) -> Fault("cut")
            [] OTHER ->
                 CASE Kind(b) \in Data ->
                        IF body + l > Len(source) THEN Fault("cut")
                        ELSE [what |-> "ok", end |-> body + l, nodes |-> 1, depth |-> 0,
                              tree |-> Tree(Kind(b), l, <<>>, SubSeq(source, body + 1, body + l), <<>>)]
                   [] Kind(b) \in Compound ->
                        LET e == Elements(IF Kind(b) = "map" THEN 2 * l ELSE l, body)
                        IN [e EXCEPT !.tree = Tree(Kind(b), l, <<>>, <<>>, e.tree),
                                     !.nodes = 1 + e.nodes, !.depth = IF l = 0 THEN 0 ELSE 1 + e.depth]
                   [] OTHER -> [what |-> "ok", end |-> body, nodes |-> 1, depth |-> 0,
                                tree |-> Tree(Kind(b), 0, Value(b, h), <<>>, <<>>)]

\* n messages, one after the other.
Elements(n, p) ==
  IF n = 0 THEN [what |-> "ok", tree |-> <<>>, end |-> p, nodes |-> 0, depth |-> 0]
  ELSE LET first == Message(p)
       IN IF first.what # "ok" THEN Fault(first.what)
          ELSE LET others == Elements(n - 1, first.end)
               IN IF others.what # "ok" THEN others
                  ELSE [what |-> "ok", tree |-> <<first.tree>> \o others.tree, end |-> others.end,
                        nodes |-> first.nodes + others.nodes, depth |-> Max({first.depth, others.depth})]

\* The tree under the node at a.
RECURSIVE TreeAt(_)
TreeAt(a) ==
  LET n == node[a]
      count == Cardinality(Children(n))
      at(i) == <<n.children[1], n.children[2] + i - 1>>
      from == base + n.offset
  IN Tree(n.type, n.len, n.v, IF n.type \in Data THEN SubSeq(source, from + 1, from + n.len) ELSE <<>>,
          [i \in 1..count |-> TreeAt(at(i))])

\* A message has the tree that MessagePack gives it and the size it has, however its bytes
\* came in and wherever its nodes lie.
TreeIsMessage ==
  state = "parsed" /\ error = "ok" /\ pc # "destroyed" =>
    LET m == Message(base) IN m.what = "ok" /\ TreeAt(Root) = m.tree /\ base + size = m.end

\* Pool and stack are as large as they are.
Fits(m) == (~Pooled \/ m.nodes <= pool_count) /\ (HasMalloc \/ m.depth < STACK_DEPTH)

\* A whole message is refused only when malloc or the read function failed or when it is
\* too big: for a pool or a stack that cannot grow, for the limit of nodes, under which it
\* is refused only after a pause (mpack_tree_parse_children counts again what it counted
\* before), or for a stream's limit of bytes, of which up to half are always taken
\* (mpack_tree_reserve_fill counts up to twice).  Unsupported is an extension.
ErrorsDeserved ==
  error # "ok" =>
    LET m == Message(base)
    IN /\ error = "unsupported" => m.what = "ext"
       /\ m.what = "ok" => error = "too_big" \/ (failing /\ error \in {"io", "memory"})
       /\ m.what = "ok" /\ error = "too_big" =>
            \/ ~Fits(m)
            \/ node_count > max.nodes /\ (m.nodes > max.nodes \/ paused)
            \/ node_count <= max.nodes /\ how = "stream" /\ max.size < 2 * (m.end - base) - 2

\* The doc of mpack_tree_set_limits: "Sets the maximum byte size and maximum number of
\* nodes allowed per message."  A message within both is not too big.
TooBig(m) == m.what # "ok" \/ ~Fits(m) \/ m.nodes > max.nodes \/ m.end - base > max.size

\* When it is the number of nodes that was found to be too large.
NodesArePerMessage == error = "too_big" /\ node_count > max.nodes => TooBig(Message(base))

\* When it is the number of bytes.
BytesArePerMessage == error = "too_big" /\ node_count <= max.nodes => TooBig(Message(base))
================================================================================
