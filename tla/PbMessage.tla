------------------------------- MODULE PbMessage -------------------------------
(***************************************************************************)
(* nanopb's messages in memory.  A struct is the function from the offsets *)
(* of its members to what they hold; the members of a union share theirs.  *)
(* A number is the sequence of its bytes, a string one of its array's, a   *)
(* bytes member [size, bytes], an array the sequence of its elements, a    *)
(* pointer what it points to in a sequence, <<>> for NULL.                 *)
(*                                                                         *)
(* A callback member is [puts, takes, gets]: what its encode function      *)
(* writes, call by call, and how many bytes its decode function reads in a *)
(* call; <<>> and 0 where there is none.  gets is what was read.           *)
(* Extensions are the list of [type, m, dflt]: the one field, the struct   *)
(* it belongs to, found included, and its default.                         *)
(***************************************************************************)
EXTENDS PbField, PbWire

CONSTANT
  Descriptors  \* by message type, as for PB_BIND: also dflt, the encoded defaults, and
               \* cb, whether there is a field_callback

Fields(name) == ToSet(Descriptors[name].fields)
HasCallback(f) == f.at = "CALLBACK" /\ f.lt # "EXTENSION"

\* pSize.  Place -1 is no member: where the decoder counts a fixed array.
HasSize(f) == f.fixed \/ PB_SIZE_OFFSET(f) # 0
SizePlace(f) == IF f.fixed THEN -1 ELSE f.off - PB_SIZE_OFFSET(f)
SizeIn(f, m) == IF f.fixed THEN f.count ELSE m[SizePlace(f)]

\* A message's own callback lies before the count, has- or which-member.
HasOwnCallback(f) == f.lt = "SUBMSG_W_CB" /\ HasSize(f)
OwnCallback(f) == SizePlace(f) - 16

NoCallback == [puts |-> <<>>, takes |-> 0, gets |-> <<>>]

(***************************************************************************)
(* The zero initializers that are generated for every message type.        *)
(***************************************************************************)
RECURSIVE Zero(_)

ZeroDatum(f) ==
  CASE f.lt = "BYTES" -> [size |-> 0, bytes |-> Zeros(f.size - 2)]
    [] PB_LTYPE_IS_SUBMSG(f.lt) -> Zero(f.sub)
    [] OTHER -> Zeros(f.size)

ZeroData(f) ==
  CASE f.at = "POINTER" \/ f.lt = "EXTENSION" -> <<>>
    [] HasCallback(f) -> NoCallback
    [] f.ht = "REPEATED" /\ f.at = "STATIC" -> [i \in 1..f.count |-> ZeroDatum(f)]
    [] OTHER -> ZeroDatum(f)

ZeroStruct(fs) ==
  LET data == {f.off : f \in fs}
      sizes == {SizePlace(f) : f \in {g \in fs : HasSize(g)}}
      own == {OwnCallback(f) : f \in {g \in fs : HasOwnCallback(g)}}
      sized(p) == CHOOSE f \in fs : HasSize(f) /\ SizePlace(f) = p
  IN [p \in data |-> ZeroData(CHOOSE f \in fs : f.off = p)] @@ [p \in own |-> NoCallback]
       @@ [p \in sizes |-> IF sized(p).ht = "OPTIONAL" THEN FALSE ELSE 0]

Zero(name) == ZeroStruct(Fields(name))
================================================================================
