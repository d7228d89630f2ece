------------------------------- MODULE TplFormat -------------------------------
(***************************************************************************)
(* What tpl's other parts share: the types a format string names, the      *)
(* words and preamble of a serialized image, and the byte orders.  A value *)
(* in memory or in an image is the sequence of its bytes.                  *)
(***************************************************************************)
EXTENDS Integers, Sequences, SequencesExt

CONSTANT BigEndian  \* what tpl_cpu_bigendian finds

ASSUME BigEndianAssumption == BigEndian \in BOOLEAN

Atoms == {"c", "i", "u", "j", "v", "I", "U", "f", "s"}

\* The bytes of a C value of each type on the 64-bit builds; "s" is a pointer.
tpl_types ==
  [r |-> 0, i |-> 4, u |-> 4, c |-> 1, s |-> 8, A |-> 0, B |-> 0, f |-> 8,
   I |-> 8, U |-> 8, j |-> 2, v |-> 2] @@ ("#" :> 0)

\* The character codes that a format string may hold.
FormatCodes ==
  [A |-> 65, B |-> 66, I |-> 73, S |-> 83, U |-> 85, c |-> 99, f |-> 102,
   i |-> 105, j |-> 106, s |-> 115, u |-> 117, v |-> 118]
  @@ ("(" :> 40) @@ (")" :> 41) @@ ("$" :> 36) @@ ("#" :> 35)

Pound == 35

tpl_byteswap(word) == Reverse(word)

LittleWord(n) == [i \in 1..4 |-> (n \div 256 ^ (i - 1)) % 256]

\* A uint32_t as the machine stores it.
Word(n) == IF BigEndian THEN tpl_byteswap(LittleWord(n)) ELSE LittleWord(n)

Number(w) == w[1] + 256 * (w[2] + 256 * (w[3] + 256 * w[4]))

\* The word stored at position at, of a machine of the other order when swap.
WordAt(image, at, swap) ==
  Number(IF BigEndian # swap THEN tpl_byteswap(SubSeq(image, at, at + 3))
         ELSE SubSeq(image, at, at + 3))

Magic == <<116, 112, 108>>

FlagBigEndian(flags) == flags % 2 = 1
FlagNullStrings(flags) == (flags \div 2) % 2 = 1
FlagsSupported(flags) == flags < 4

Flags(strings) == (IF BigEndian THEN 1 ELSE 0) + (IF strings THEN 2 ELSE 0)

tpl_needs_endian_swap(image) == FlagBigEndian(image[4]) # BigEndian

\* The smallest image: magic, flags, length and an empty format.
MinImage == 9
================================================================================
