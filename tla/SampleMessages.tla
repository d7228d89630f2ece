----------------------------- MODULE SampleMessages -----------------------------
(***************************************************************************)
(* What nanopb's generator made of sample_structure.proto, with the        *)
(* offsets that the compiler gives the members.                            *)
(***************************************************************************)
EXTENDS PbField

Plainly(fields) == [width |-> AUTO, fields |-> fields, dflt |-> <<>>, cb |-> FALSE]

wifi_IPAddr ==
  Plainly(<< Field("STATIC", "SINGULAR", "BYTES", 1, 0, 6, 0, 1, ""),
             Field("STATIC", "SINGULAR", "BYTES", 2, 6, 18, 0, 1, "") >>)

wifi_WifiSoftAPInfo ==
  Plainly(<< Field("STATIC", "SINGULAR", "VARINT", 1, 0, 4, 0, 1, ""),
             Field("STATIC", "SINGULAR", "VARINT", 2, 4, 4, 0, 1, ""),
             Field("STATIC", "OPTIONAL", "SUBMESSAGE", 3, 10, 24, 2, 1, "IPAddr"),
             Field("STATIC", "SINGULAR", "BYTES", 4, 34, 36, 0, 1, ""),
             Field("STATIC", "SINGULAR", "BYTES", 5, 70, 8, 0, 1, ""),
             Field("STATIC", "SINGULAR", "VARINT", 6, 80, 4, 0, 1, ""),
             Field("STATIC", "SINGULAR", "UVARINT", 7, 84, 4, 0, 1, ""),
             Field("STATIC", "SINGULAR", "UVARINT", 8, 88, 4, 0, 1, "") >>)

\* n is the most that the .options file allows.
ListOf(n) ==
  [Plainly(<< Field("STATIC", "REPEATED", "SUBMESSAGE", 1, 4, 92, 4, n, "WifiSoftAPInfo") >>)
     EXCEPT !.width = 1]
wifi_WifiSoftAPList == ListOf(20)

Generated ==
  [IPAddr |-> wifi_IPAddr, WifiSoftAPInfo |-> wifi_WifiSoftAPInfo,
   WifiSoftAPList |-> wifi_WifiSoftAPList]
================================================================================
