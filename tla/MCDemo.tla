--------------------------------- MODULE MCDemo ---------------------------------
(***************************************************************************)
(* main, with every command, every number of arguments that makes a        *)
(* difference and benchmarks small enough for durations to take every      *)
(* order; and the functions that main calls.  Either rests while the other *)
(* is explored.                                                            *)
(***************************************************************************)
EXTENDS Main

VARIABLES part,
  library, upc, input, encoded, out_infos, out_count, uret, writer, reader, field,
  tn, tmp, elem, count, buffer, text

usage_vars == <<library, upc, input, encoded, out_infos, out_count, uret, writer, reader,
                field, tn, tmp, elem, count, buffer, text>>

MCArgcs == {3, 4, 5, 6}
MCNumbers == {-1, 0, 1, 2, 3, 20, 21}

\* Durations: up to three tests take every order of three, more take one of them.
MCTimes(n) == IF n <= 3 THEN {3, 4, 7} ELSE {4}

Functions == INSTANCE MCUsage WITH pc <- upc, ret <- uret

ASSUME UsageInputsOK == Functions!InputsOK

MainRests == Init /\ argc = 3 /\ command = "other" /\ number = 0

MCInit ==
  \/ part = "main" /\ Init /\ Functions!Rest
  \/ part = "functions" /\ MainRests /\ Functions!Init

MCNext ==
  \/ part = "main" /\ Next /\ UNCHANGED <<part, usage_vars>>
  \/ part = "functions" /\ Functions!Next /\ UNCHANGED <<part, vars>>

MCSpec == MCInit /\ [][MCNext]_<<part, vars, usage_vars>>

RoundTrip == Functions!RoundTrip
ForeignIsRefused == Functions!ForeignIsRefused
FitsOrFails == Functions!FitsOrFails
=============================================================================
