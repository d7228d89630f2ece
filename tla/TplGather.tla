------------------------------- MODULE TplGather -------------------------------
(***************************************************************************)
(* Images over a file descriptor: tpl_dump(TPL_FD) writes them one after   *)
(* another, piece by piece, and tpl_gather puts them together again, in    *)
(* one of its three modes.  A step is one write, one read or one turn of   *)
(* the loop that hands images to the callback; EINTR and EAGAIN change     *)
(* nothing and are steps that are not taken.                               *)
(***************************************************************************)
EXTENDS TplFormat

CONSTANTS
  Streams,   \* what is written: [bytes, cuts], the cuts where images start or end
  Modes,     \* subset of "blocking", "nonblocking" and "mem"
  Sinks,     \* subset of "pipe" and "file"
  GatherMax, \* tpl_hook.gather_max, 0 for none
  BufLen,    \* TPL_GATHER_BUFLEN
  Room,      \* bytes that the pipe holds
  Faults     \* whether reads and writes may fail and the callback may refuse

Byte == 0..255

Least(a, b) == IF a <= b THEN a ELSE b

PREAMBLE == 8

Prefixed(img, at) == SubSeq(img, at + 1, at + 3) = Magic
tpllen(img, at) ==
  WordAt(img, at + 5, tpl_needs_endian_swap(SubSeq(img, at + 1, at + PREAMBLE)))

\* A cut that is not the end starts an image that ends at another cut, or, in a
\* stream that is not all tpl's, something else.
IsStream(s) ==
  /\ s.bytes \in Seq(Byte) /\ s.cuts \subseteq 0..Len(s.bytes)
  /\ {0, Len(s.bytes)} \subseteq s.cuts
  /\ \A b \in s.cuts \ {Len(s.bytes)} :
       /\ b + PREAMBLE < Len(s.bytes)
       /\ Prefixed(s.bytes, b) =>
            tpllen(s.bytes, b) > PREAMBLE /\ b + tpllen(s.bytes, b) \in s.cuts

ASSUME StreamsAssumption == \A s \in Streams : IsStream(s)
ASSUME GatherMaxAssumption == GatherMax \in Nat
ASSUME BufLenAssumption == BufLen \in Nat \ {0}
ASSUME RoomAssumption == Room \in Nat \ {0}
ASSUME ModesAssumption ==
  Modes \subseteq {"blocking", "nonblocking", "mem"} /\ Sinks \subseteq {"pipe", "file"}
ASSUME FaultsAssumption == Faults \in BOOLEAN

VARIABLES
  stream, mode, sink,
  written, \* bytes that have reached the descriptor
  base,    \* the cut that the tpl_dump under way started from
  open,    \* whether more may be written
  taken,   \* bytes read from the descriptor
  pc,      \* "read", "isolate" (the loop over img) or "closed"
  gs,      \* the fragment kept between calls, <<>> when *gs is NULL
  img,     \* the bytes being worked on
  at,      \* tpl - img: how much of them has been handed over
  got,     \* the images handed over
  done,    \* auxiliary: their bytes
  rc       \* what tpl_gather returned last, 1 while it runs

writer == <<written, base, open>>
kept == <<gs, img, at>>
vars == <<stream, mode, sink, writer, taken, pc, kept, got, done, rc>>

Init ==
  /\ stream \in Streams /\ mode \in Modes /\ sink \in Sinks
  /\ written = 0 /\ base = 0 /\ open = TRUE
  /\ taken = 0 /\ pc = "read"
  /\ gs = <<>> /\ img = <<>> /\ at = 0
  /\ got = <<>> /\ done = 0 /\ rc = 1

bytes == stream.bytes

(***************************************************************************)
(* The writer.                                                             *)
(***************************************************************************)
\* Where the write that starts at a cut ends.
EndFrom(b) == IF b < Len(bytes) /\ Prefixed(bytes, b) THEN b + tpllen(bytes, b) ELSE Len(bytes)

\* write() takes some of what is left of the image; the next tpl_dump starts when
\* all of it is out.
Write(n) ==
  /\ open /\ written < Len(bytes)
  /\ n <= EndFrom(base) - written
  /\ sink = "pipe" => written + n - taken <= Room
  /\ written' = written + n
  /\ base' = IF written + n = EndFrom(base) THEN written + n ELSE base
  /\ UNCHANGED <<stream, mode, sink, open, taken, pc, kept, got, done, rc>>

\* write() fails: a partial image is taken back from a regular file.
\* _NoRewind: it is left there.
Rewound_NoRewind == written
Rewound == IF sink = "file" THEN base ELSE written

WriteFails ==
  /\ Faults /\ open /\ written < Len(bytes)
  /\ written' = Rewound /\ open' = FALSE
  /\ UNCHANGED <<stream, mode, sink, base, taken, pc, kept, got, done, rc>>

Close ==
  /\ open /\ written = Len(bytes)
  /\ open' = FALSE
  /\ UNCHANGED <<stream, mode, sink, written, base, taken, pc, kept, got, done, rc>>

(***************************************************************************)
(* The reader.  A file is read when its writer is done.                    *)
(***************************************************************************)
CanRead == pc = "read" /\ (sink = "file" => ~open)

Chunk(n) == SubSeq(bytes, taken + 1, taken + n)

\* The call returns an error and keeps nothing.
GiveUp(code) ==
  /\ pc' = "closed" /\ rc' = code
  /\ gs' = <<>> /\ img' = <<>> /\ at' = 0

TooLong(n) == gs # <<>> /\ GatherMax > 0 /\ Len(gs) + n > GatherMax

\* One read of tpl_gather_nonblocking, at most its buffer, or one call of tpl_gather_mem,
\* with whatever the caller has: behind the fragment, if any.
Joined(n) == gs \o Chunk(n)

tpl_gather_chunk(n) ==
  /\ CanRead /\ mode # "blocking"
  /\ n <= written - taken /\ (mode = "nonblocking" => n <= BufLen)
  /\ taken' = taken + n
  /\ IF TooLong(n) THEN GiveUp(-2)
     ELSE /\ pc' = "isolate" /\ img' = Joined(n) /\ gs' = <<>> /\ at' = 0
          /\ UNCHANGED rc
  /\ UNCHANGED <<stream, mode, sink, writer, got, done>>

\* More than a preamble is left in img, and it is a tpl's.
\* _Once: only the first image of a chunk is handed over.
MoreThanPreamble_Once == at = 0 /\ PREAMBLE < Len(img)
MoreThanPreamble == at + PREAMBLE < Len(img)
\* _Less: an image that ends with img is not handed over.
WholeImage_Less == at + tpllen(img, at) < Len(img)
WholeImage == at + tpllen(img, at) <= Len(img)

Callback ==
  /\ pc = "isolate" /\ MoreThanPreamble /\ Prefixed(img, at) /\ WholeImage
  /\ got' = Append(got, SubSeq(img, at + 1, at + tpllen(img, at)))
  /\ done' = done + tpllen(img, at)
  /\ \/ at' = at + tpllen(img, at) /\ UNCHANGED <<pc, rc, gs, img>>
     \/ Faults /\ GiveUp(-4)  \* the callback returns a negative number
  /\ UNCHANGED <<stream, mode, sink, writer, taken>>

NotTpl ==
  /\ pc = "isolate" /\ MoreThanPreamble /\ ~Prefixed(img, at)
  /\ GiveUp(-3)
  /\ UNCHANGED <<stream, mode, sink, writer, taken, got, done>>

\* The rest waits for the next chunk.
Leftover ==
  /\ pc = "isolate"
  /\ MoreThanPreamble => Prefixed(img, at) /\ ~WholeImage
  /\ gs' = SubSeq(img, at + 1, Len(img)) /\ img' = <<>> /\ at' = 0
  /\ pc' = "read"
  /\ UNCHANGED <<stream, mode, sink, writer, taken, got, done, rc>>

\* What tpl_gather_blocking asks for: the preamble, then the rest of the image.
\* _Body: the length word is taken for that of what follows the preamble.
Wanted_Body == PREAMBLE + (IF Len(img) < PREAMBLE THEN 0 ELSE tpllen(img, 0))
Wanted == IF Len(img) < PREAMBLE THEN PREAMBLE ELSE tpllen(img, 0)

\* One read of tpl_gather_blocking.
tpl_gather_blocking(n) ==
  LET all == img \o Chunk(n)
      head == Len(img) < PREAMBLE /\ Len(all) = PREAMBLE
  IN /\ CanRead /\ mode = "blocking"
     /\ n <= written - taken /\ n <= Wanted - Len(img)
     /\ taken' = taken + n
     /\ CASE head /\ ~Prefixed(all, 0) -> GiveUp(-1) /\ UNCHANGED <<got, done>>
          [] head /\ Prefixed(all, 0) /\ GatherMax > 0 /\ tpllen(all, 0) > GatherMax ->
               GiveUp(-2) /\ UNCHANGED <<got, done>>
          [] Len(img) >= PREAMBLE /\ Len(all) = Wanted ->
               /\ got' = Append(got, all) /\ done' = done + Len(all)
               /\ img' = <<>> /\ UNCHANGED <<pc, gs, at, rc>>
          [] OTHER -> img' = all /\ UNCHANGED <<pc, gs, at, rc, got, done>>
     /\ UNCHANGED <<stream, mode, sink, writer>>

\* read() returns 0, or fails.  A caller of tpl_gather_mem has no descriptor to read.
Eof ==
  /\ CanRead /\ mode # "mem" /\ ~open /\ taken = written
  /\ GiveUp(0)
  /\ UNCHANGED <<stream, mode, sink, writer, taken, got, done>>

ReadFails ==
  /\ Faults /\ CanRead /\ mode # "mem"
  /\ GiveUp(-1)
  /\ UNCHANGED <<stream, mode, sink, writer, taken, got, done>>

Read == \E n \in 1..(written - taken) : tpl_gather_chunk(n) \/ tpl_gather_blocking(n)

Reader == Read \/ Callback \/ NotTpl \/ Leftover \/ Eof

Sending == \E n \in 1..(Len(bytes) - written) : Write(n)

Next == Sending \/ WriteFails \/ Close \/ Reader \/ ReadFails

\* The writer's loop spins until everything is out; a reader calls tpl_gather as
\* long as its descriptor is readable.
Fairness == WF_vars(Sending \/ Close) /\ WF_vars(Reader)

Spec == Init /\ [][Next]_vars /\ Fairness

(***************************************************************************)
(* Properties.                                                             *)
(***************************************************************************)
TypeOK ==
  /\ stream \in Streams /\ mode \in Modes /\ sink \in Sinks
  /\ written \in 0..Len(bytes) /\ base \in stream.cuts /\ open \in BOOLEAN
  /\ taken \in 0..Len(bytes) /\ done \in 0..Len(bytes)
  /\ pc \in {"read", "isolate", "closed"} /\ rc \in {1, 0, -1, -2, -3, -4}
  /\ gs \in Seq(Byte) /\ img \in Seq(Byte) /\ at \in 0..Len(img)

\* Bytes that were read and not handed over.
Held == gs \o SubSeq(img, at + 1, Len(img))

\* However the stream is cut into writes and reads, what was read is what was handed
\* over and, right behind it, what is still held.
NothingLostOrTwice ==
  pc # "closed" => done + Len(Held) = taken /\ Held = SubSeq(bytes, done + 1, taken)

\* Each image is handed over whole, once, right after the one before it.
ImagesInOrder ==
  [][got' # got =>
       /\ done \in stream.cuts /\ done' \in stream.cuts /\ done < done'
       /\ got' = Append(got, SubSeq(bytes, done + 1, done'))]_vars

\* Between two calls no image is held back that has arrived whole, even when the
\* next one never comes.
NoneHeldBack ==
  pc = "read" /\ Len(Held) > PREAMBLE => Len(Held) < tpllen(Held, 0)

\* A reader that has given up holds nothing: an image that was cut short is dropped
\* as a whole, and none of it is handed over later.
NothingRetained == pc = "closed" => gs = <<>> /\ img = <<>>

\* A failed write leaves whole images in a regular file.
FileHoldsImages == sink = "file" /\ ~open => written \in stream.cuts

AllTpl == \A b \in stream.cuts \ {Len(bytes)} : Prefixed(bytes, b)

\* Unless something fails, every image that is dumped is handed over in the end,
\* with no more input needed after it.
AllHandedOver == <>(done = Len(bytes) \/ ~AllTpl \/ rc < 0 \/ (~open /\ written < Len(bytes)))
================================================================================
