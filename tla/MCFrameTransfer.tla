---------------------------- MODULE MCFrameTransfer ----------------------------
(***************************************************************************)
(* Small instances of FrameTransfer: bytes of base 3, a two-byte length,   *)
(* payloads shorter than, equal to and longer than MaxBuffer.              *)
(***************************************************************************)
EXTENDS FrameTransfer, TLC

CONSTANTS a, b

MCByte == 0..2
MCPayload == a :> <<1, 2>> @@ b :> <<2, 2, 1>>
MCFaults == {{}, {"crash", "server"}, FaultKinds}
MCServerEnds == {{"server"}}

\* Base-3 big-endian numbers of two digits.
MCHtobe64 == [n \in Sizes |-> <<n \div 3, n % 3>>]
MCBe64toh == [d \in LenField |-> 3 * d[1] + d[2]]
=================================================================================
