--------------------------------- MODULE MCTpl ---------------------------------
(***************************************************************************)
(* Streams of two or three images, one of the other byte order, one        *)
(* followed by bytes that are no tpl's; calls on a tpl of one of four      *)
(* formats; and every format of up to MaxItems items as tpl_map reads it.  *)
(* The three have nothing in common: each rests while another is explored. *)
(***************************************************************************)
EXTENDS TplGather, TplCalls

CONSTANTS
  Parts,    \* subset of "gather", "calls" and "formats"
  Formats, Contents, MaxCalls, Damages,
  Alphabets, Numbers, MaxItems

ASSUME CallsAssumption == MaxCalls \in Nat

VARIABLES part, t, ready, image, foreign, reply, doc, lost, calls, chars, items, map

call_vars == <<t, ready, image, foreign, reply, doc, lost, calls>>
map_vars == <<chars, items, map>>

(***************************************************************************)
(* Streams.                                                                *)
(***************************************************************************)
\* An image of len bytes, the last of them id.
Image(len, id) ==
  Magic \o <<Flags(FALSE)>> \o Word(len) \o [i \in 1..(len - 8) |-> id]
Foreign(len, id) ==
  Magic \o <<1 - Flags(FALSE)>> \o tpl_byteswap(Word(len)) \o [i \in 1..(len - 8) |-> id]

StreamOf(images, rest) ==
  LET ends == FoldLeft(LAMBDA e, i : Append(e, e[Len(e)] + Len(i)), <<0>>, images)
      all == FlattenSeq(images) \o rest
  IN [bytes |-> all, cuts |-> {ends[i] : i \in DOMAIN ends} \cup {Len(all)}]

Rubbish == [i \in 1..9 |-> 0]

MCStreams ==
  {StreamOf(<<Image(9, 1), Image(10, 2), Image(9, 3)>>, <<>>),
   StreamOf(<<Foreign(11, 1), Image(12, 2)>>, <<>>),
   StreamOf(<<Image(10, 1)>>, Rubbish)}
(***************************************************************************)
(* Formats.                                                                *)
(***************************************************************************)
It(c, addr) == [c |-> c, addr |-> addr, nums |-> <<>>]
Nums(ns) == [c |-> "#", addr |-> "", nums |-> ns]
P(c) == It(c, "")

\* iA(vA(c)), the inner arrays; A(S(cj)#), a loop in an array;
\* S(sj#)#A(c), a loop with strings and values of several elements; sA(sB)
Nested == <<It("i", "x"), P("A"), P("("), It("v", "y"), P("A"), P("("), It("c", "z"), P(")"), P(")")>>
LoopInArray == <<P("A"), P("("), It("S", "x"), P("("), P("c"), P("j"), P(")"), Nums(<<2>>), P(")")>>
RootLoop == <<It("S", "x"), P("("), P("s"), P("j"), Nums(<<2>>), P(")"), Nums(<<2>>),
              P("A"), P("("), It("c", "y"), P(")")>>
Strings == <<It("s", "x"), P("A"), P("("), It("s", "y"), It("B", "z"), P(")")>>

MCFormats == {Nested, LoopInArray, RootLoop, Strings}

\* S(s)#S(c)# and sS(c)#, strings that are not what the last '#' repeats; iB
Loop(type, v, times) == <<It("S", v), P("("), P(type), P(")"), Nums(<<times>>)>>
MCTwoLoops == {Loop("s", "x", 3) \o Loop("c", "y", 2), <<It("s", "x")>> \o Loop("c", "y", 2)}
MCRootBin == {<<It("i", "x"), It("B", "y")>>}

MCValue(c, type, a) ==
  CASE type = "s" -> IF c = 1 THEN Null ELSE IF c = 2 THEN <<>> ELSE <<65, 66>>
    [] type = "B" -> IF c = 1 THEN <<>> ELSE <<9, 0>>
    [] OTHER -> [b \in 1..tpl_types[type] |-> IF b = 1 THEN c ELSE (a[2] + b) % 256]

MCAlphabets == {{"c", "i", "S", "$", "(", ")"}, {"i", "B", "A", "S", "(", ")"}}
MCNesting == {{"c", "i", "S", "$", "(", ")"}}
MCNumbers == {<<2>>, <<3, 2>>}

Calls == INSTANCE Tpl WITH Value <- MCValue

Reading == INSTANCE TplFormats
          WITH Variables <- <<"v1", "v2", "v3", "v4", "v5", "v6", "v7", "v8", "v9">>

(***************************************************************************)
(* The three parts.                                                        *)
(***************************************************************************)
GatherRests ==
  /\ stream = [bytes |-> <<>>, cuts |-> {0}] /\ mode = "mem" /\ sink = "pipe"
  /\ written = 0 /\ base = 0 /\ open = FALSE
  /\ taken = 0 /\ pc = "closed" /\ gs = <<>> /\ img = <<>> /\ at = 0
  /\ got = <<>> /\ done = 0 /\ rc = 0

CallsRest == Calls!Init /\ t = Mapped(tpl_map(Nested))

MapRests == chars = {} /\ items = <<>> /\ map = MapInit

MCInit ==
  /\ part \in Parts
  /\ \/ part = "gather" /\ Init /\ CallsRest /\ MapRests
     \/ part = "calls" /\ GatherRests /\ Calls!Init /\ MapRests
     \/ part = "formats" /\ GatherRests /\ CallsRest /\ Reading!Init

MCNext ==
  \/ part = "gather" /\ Next /\ UNCHANGED <<part, call_vars, map_vars>>
  \/ part = "calls" /\ Calls!Next /\ UNCHANGED <<part, vars, map_vars>>
  \/ part = "formats" /\ Reading!Next /\ UNCHANGED <<part, vars, call_vars>>

\* At rest the writer and the reader have come to their end, and the fairness asks
\* nothing of them.
MCSpec ==
  MCInit /\ [][MCNext]_<<part, vars, call_vars, map_vars>> /\ Fairness

BlocksAreReachable == Calls!BlocksAreReachable
PackedStringsAreFreed == Calls!PackedStringsAreFreed
LoadedIsAsNewlyMapped == Calls!LoadedIsAsNewlyMapped
OnlyGoodImagesAreTaken == Calls!OnlyGoodImagesAreTaken
DocSpec == Calls!DocSpec

\* In every format of these alphabets whose nested structures have fields of one width
\* each, or that has none, the fields are where the compiler put them; and in every format
\* what is allocated for an element of an array holds what is packed there (calc_field_addr,
\* tpl_map_va).
MapFitsMemory == Reading!FieldsWhereCPutsThem /\ Reading!DatumHoldsOneElement

\* The comment of calc_field_addr: "We need to calculate field addresses manually taking
\* into account the size of the fields and intervening padding."  No format is excepted.
PaddingIsTakenIntoAccount == Reading!FieldsLaidOut
================================================================================
