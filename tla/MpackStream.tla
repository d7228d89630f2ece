------------------------------ MODULE MpackStream ------------------------------
(***************************************************************************)
(* A program that makes any sequence of write calls on one mpack writer,   *)
(* finishes it, and hands the bytes, or only the first of them, to a       *)
(* reader on which it makes any sequence of expect calls.  The usage file  *)
(* mpack_usage.h is one such program; here the library is checked under    *)
(* every order of calls.                                                   *)
(***************************************************************************)
EXTENDS MpackCalls

CONSTANTS
  Size,      \* bytes of the writer's buffer
  Calls,     \* the write calls: [op |-> ..., v |-> ...]
  MaxCalls,  \* bound: write calls on one writer
  BufSize    \* bytes of the buffer for expect_bin_buf

ASSUME SizeAssumption ==
  Size \in Nat /\ MaxCalls \in Nat /\ BufSize \in Nat /\ BufSize <= INT32_MAX
ASSUME CallsAssumption == \A c \in Calls : IsCall(c)

VARIABLES
  phase,     \* "write", then "refused" or "read", then "closed"
  writer,
  accepted,  \* the calls made before the first error of the writer
  stream,    \* the bytes those calls stand for
  reader,
  results,   \* what the expect calls returned before the reader's first error
  matched    \* each of those asked for the kind that was written

stream_vars == <<phase, writer, accepted, stream, reader, results, matched>>

StreamInit ==
  /\ phase = "write"
  /\ writer = mpack_writer_init(Size)
  /\ accepted = <<>> /\ stream = <<>>
  /\ reader = mpack_reader_init_data(<<>>)
  /\ results = <<>> /\ matched = TRUE

\* A call that meets an error, its own or an earlier one, is not accepted.
WriteOne(c) ==
  /\ phase = "write" /\ Len(accepted) < MaxCalls
  /\ writer' = WriteCall(writer, c)
  /\ accepted' = IF writer'.error = "ok" THEN Append(accepted, c) ELSE accepted
  /\ stream' = IF writer'.error = "ok" THEN stream \o Bytes(c) ELSE stream
  /\ UNCHANGED <<phase, reader, results, matched>>

\* The writer is destroyed.  Without an error n of the bytes reach a reader.
Finish(n) ==
  /\ phase = "write" /\ n <= mpack_writer_buffer_used(writer)
  /\ IF mpack_writer_destroy(writer) = "ok"
     THEN /\ phase' = "read"
          /\ reader' = mpack_reader_init_data(SubSeq(writer.buffer, 1, n))
     ELSE phase' = "refused" /\ UNCHANGED reader
  /\ UNCHANGED <<writer, accepted, stream, results, matched>>

Read(op) ==
  /\ phase = "read" /\ Len(results) < Len(accepted)
  /\ LET e == ExpectCall(reader, op, BufSize)
     IN /\ reader' = e.reader
        /\ results' = IF e.reader.error = "ok" THEN Append(results, e.value) ELSE results
        /\ matched' = (matched /\ op = accepted[Len(results) + 1].op)
  /\ UNCHANGED <<phase, writer, accepted, stream>>

Close ==
  /\ phase = "read"
  /\ phase' = "closed"
  /\ UNCHANGED <<writer, accepted, stream, reader, results, matched>>

StreamNext ==
  \/ \E c \in Calls : WriteOne(c)
  \/ \E n \in 0..Size : Finish(n)
  \/ \E op \in Ops : Read(op)
  \/ Close

StreamSpec == StreamInit /\ [][StreamNext]_stream_vars

(***************************************************************************)
(* Properties.                                                             *)
(***************************************************************************)
\* The writer's and the reader's positions stay inside their buffers.
TypeOK ==
  /\ phase \in {"write", "refused", "read", "closed"}
  /\ WriterOK(writer) /\ writer.size = Size
  /\ ReaderOK(reader)
  /\ accepted \in Seq(Calls) /\ stream \in Seq(Byte) /\ matched \in BOOLEAN

\* As long as the writer has no error, its buffer holds exactly the encodings of
\* the calls made so far, in order and without a gap; this is what
\* MPACK_WRITE_ENCODED and mpack_write_native have to agree on.
NoGap ==
  writer.error = "ok" => writer.buffer = stream

\* The first error of either side is final: nothing a program does afterwards
\* makes the stream look good again.
FirstErrorStays ==
  [][/\ writer.error # "ok" => writer'.error = writer.error
     /\ reader.error # "ok" /\ phase = "read" =>
          reader'.error = reader.error /\ reader'.pos = reader.pos]_stream_vars

\* What was written is read.  An expect call that succeeds returns the value that was
\* written in its place, whichever of the number kinds it asks for, and a bin its
\* bytes; and a reader that got every byte, asks for the kinds that were written and
\* has room for the bins meets no error and ends at the last byte.
ReadsWhatWasWritten ==
  /\ \A i \in DOMAIN results : results[i] = accepted[i].v
  /\ /\ phase = "closed" /\ matched /\ reader.data = stream
     /\ \A i \in DOMAIN accepted : accepted[i].op = "bin" => Len(accepted[i].v) <= BufSize
     => /\ reader.error = "ok"
        /\ Len(results) = Len(accepted) => reader.pos = Len(stream)

\* A stream that was cut short is never taken for a whole one, whatever is asked
\* of it: some call that was written is not read.
CutIsNoticed ==
  phase \in {"read", "closed"} /\ Len(reader.data) < Len(stream) =>
    Len(results) < Len(accepted)
=============================================================================
