------------------------------ MODULE MCMpack ----------------------------------
(***************************************************************************)
(* Write calls on either side of every bound at which mpack changes tags,  *)
(* on a buffer that fills up in the middle of the second or third call;    *)
(* the parser on every short sequence of bytes of all kinds and on messages*)
(* that come in pieces; and beside it the getters on trees of numbers      *)
(* around every limit, of maps whose keys are equal in several ways, and   *)
(* of strings of bytes at the borders of UTF-8.                            *)
(***************************************************************************)
EXTENDS MpackTreeDoc, MpackNode, MpackStream, Functions

VARIABLE part

(***************************************************************************)
(* The write calls.                                                        *)
(***************************************************************************)
NumberCalls(op, S) == {[op |-> op, v |-> v] : v \in S}

MCCalls ==
  NumberCalls("i32", {0, 127, 128, 255, 256, 65535, 65536, INT32_MAX,
                  -1, -32, -33, -128, -129, -32768, -32769, INT32_MIN})
    \cup NumberCalls("u8", {127, 128, 255}) \cup NumberCalls("u16", {127, 128, 255, 256, 65535})
    \cup NumberCalls("array", {0, 15, 16, 65535, 65536})
    \cup NumberCalls("bin", {<<>>, <<7>>, <<193, 199, 7>>})

\* Of these a stream may hold up to four; any others only two in all.
MCCallsFew ==
  NumberCalls("i32", {-1, 65536}) \cup NumberCalls("u16", {256})
    \cup NumberCalls("bin", {<<>>, <<7>>})

MCProgram == Len(accepted) <= 2 \/ Range(accepted) \subseteq MCCallsFew

(***************************************************************************)
(* The parser's inputs.                                                    *)
(***************************************************************************)
Some == {0, 192, 145, 146, 129, 161, 196, 204, 220, 193, 199}
Few == {0, 145, 146, 129, 161}
Short == SeqOf(Some, 3) \cup SeqOf(Few, 4) \cup {<<161, 97>>, <<196, 1, 5>>, <<145, 217, 2, 7, 8>>}

Deep ==
  {<<145, 145, 145, 145, 1>>, <<146, 145, 145, 2, 146, 3, 4>>, <<129, 161, 97, 147, 1, 2, 144>>,
   <<148, 1, 2, 3, 4, 255>>, <<145, 147, 1, 2, 3>>, <<160, 128, 195>>,
   <<210, 128, 0, 0, 1>>, <<208, 200, 203, 64, 0, 0, 0, 0, 0, 0, 0>>, <<223, 0, 0, 0, 1, 0, 221, 0, 0, 0, 0>>,
   <<217, 2, 97, 98, 198, 0, 0, 0, 1, 255>>, <<221, 1, 0, 0, 0, 1>>, <<197, 0, 2, 1, 2>>,
   <<218, 0, 1, 97>>, <<222, 0, 0>>, <<202, 63, 128, 0, 0>>, <<206, 1, 2, 3, 4>>, <<205, 1, 2>>}

MCSources == Short \cup Deep
Wide == [size |-> 50, nodes |-> 25]
MCFewNodes == {[size |-> 50, nodes |-> 3]}
MCFewBytes == {[size |-> 3, nodes |-> 25]}
MCLimits == {Wide, [size |-> 6, nodes |-> 5], [size |-> 3, nodes |-> 3]}

(***************************************************************************)
(* The getters' trees.                                                     *)
(***************************************************************************)
Leaf(type, v) == [type |-> type, len |-> 0, v |-> v, bytes |-> <<>>, children |-> <<>>]
DataNode(type, s) == [type |-> type, len |-> Len(s), v |-> <<>>, bytes |-> s, children |-> <<>>]
ListOf(c) == [type |-> "array", len |-> Len(c), v |-> <<>>, bytes |-> <<>>, children |-> c]
MapOf(c) == [type |-> "map", len |-> Len(c) \div 2, v |-> <<>>, bytes |-> <<>>, children |-> c]
N == Leaf("nil", <<>>)
U(v) == Leaf("uint", v)
I(v) == Leaf("int", v)
S(s) == DataNode("str", s)

Zero(n) == [i \in 1..n |-> 0]
Five == Zero(7) \o <<5>>
MinusOne == [i \in 1..8 |-> 255]
Highest == <<128>> \o Zero(7)

NumberDocs ==
  {Leaf(t, [i \in 1..8 |-> IF i < k THEN fill ELSE IF i = k THEN a ELSE rest]) :
     t \in {"uint", "int"}, k \in 1..8, fill \in {0, 255}, a \in {0, 1, 127, 128, 254, 255}, rest \in {0, 255}}

MapDocs ==
  {MapOf(<<I(Five), S(<<97>>), I(MinusOne), DataNode("bin", <<0, 1>>)>>),
   MapOf(<<U(MinusOne), N, U(Five), Leaf("bool", <<1>>)>>),
   MapOf(<<U(Five), N, I(Five), N>>),
   MapOf(<<I(MinusOne), N, U(MinusOne), Leaf("bool", <<0>>), U(Highest), N>>),
   MapOf(<<S(<<97>>), ListOf(<<Leaf("float", <<63, 128, 0, 0>>), Leaf("double", Five)>>),
           S(<<98>>), MapOf(<<S(<<>>), N>>)>>),
   MapOf(<<S(<<97>>), N, S(<<97>>), N, DataNode("bin", <<98>>), N>>),
   ListOf(<<>>), MapOf(<<>>), S(<<97, 0>>), S(<<97, 98>>), DataNode("bin", <<>>)}

TextDocs ==
  {S(s) : s \in {<<a>> : a \in {0, 127, 128, 194, 255}}
             \cup ({127, 128, 192, 193, 194, 223, 224, 237} \X {0, 127, 128, 191, 192})
             \cup ({224, 225, 237, 239} \X {127, 128, 159, 160, 191, 192} \X {127, 128, 191, 192})
             \cup ({240, 241, 244, 245} \X {128, 143, 144, 191} \X {128, 191, 192} \X {127, 128, 191})
             \cup {<<97>> \o s \o <<98>> : s \in {237} \X {128, 159, 160} \X {128, 191}}}

MCDocs == NumberDocs \cup MapDocs \cup TextDocs

\* No tree is deeper than two.
Under(docs) == UNION {Range(n.children) : n \in docs}
MCNodes == MCDocs \cup Under(MCDocs) \cup Under(Under(MCDocs))
MCNumbers == {Five, MinusOne, Highest}
MCStrings == {<<97>>, <<98>>, <<>>}
MCNames == <<<<97>>, <<98>>, <<97, 98>>>>

(***************************************************************************)
(* The three parts.  Each rests while another is explored.  A number or a  *)
(* string is asked once.                                                   *)
(***************************************************************************)
StreamRests == StreamInit
ParserRests ==
  /\ source = <<160, 128, 195>> /\ how = "bare" /\ max = Wide /\ pool_count = 1 /\ failing = FALSE
  /\ Init
GettersRest ==
  /\ flagged = "none" /\ root = 0 /\ held = 0 /\ from = 0
  /\ fn = "none" /\ arguments = 0 /\ out = 0

MCInit ==
  \/ part = "stream" /\ StreamInit /\ ParserRests /\ GettersRest
  \/ /\ part = "parser"
     /\ \/ source \in Short /\ how = "bare" /\ max = Wide
        \/ source \in Deep
     /\ Init /\ StreamRests /\ GettersRest
  \/ part = "getters" /\ ParserRests /\ GettersInit /\ StreamRests

MCNext ==
  \/ part = "stream" /\ StreamNext /\ UNCHANGED <<part, vars, getterVars>>
  \/ part = "parser" /\ Next /\ UNCHANGED <<part, stream_vars, getterVars>>
  \/ /\ part = "getters" /\ (fn = "none" \/ root \notin NumberDocs \cup TextDocs)
     /\ GettersNext /\ UNCHANGED <<part, stream_vars, vars>>

MCSpec == MCInit /\ [][MCNext]_<<part, stream_vars, vars, getterVars>>
================================================================================
