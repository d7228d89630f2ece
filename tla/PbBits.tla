---------------------------------- MODULE PbBits ----------------------------------
(***************************************************************************)
(* Numbers and their bits, for nanopb's shifts and masks.  A word is the   *)
(* set of the numbers of its bits that are 1.                              *)
(***************************************************************************)
EXTENDS Integers

\* 1 << n.
Power[n \in 0..31] == IF n = 0 THEN 1 ELSE 2 * Power[n - 1]

\* (n >> b) & 1, n & ((1 << width) - 1), and the number whose bits below width are those
\* of w.
Bit(n, b) == n \div Power[b] % 2 = 1
BitsOf(n, width) == {b \in 0..(width - 1) : Bit(n, b)}
NumberOf(w, width) ==
  LET below[k \in 0..width] ==
        IF k = 0 THEN 0 ELSE below[k - 1] + (IF k - 1 \in w THEN Power[k - 1] ELSE 0)
  IN below[width]
================================================================================
