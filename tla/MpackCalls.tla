------------------------------ MODULE MpackCalls -------------------------------
(***************************************************************************)
(* mpack's writer and reader, and the calls that the program makes on them. *)
(***************************************************************************)
EXTENDS MpackFormat

(***************************************************************************)
(* The writer on a buffer of fixed size: no flush function, no builder and *)
(* no tracking, as the program uses it.  A writer is a record of the bytes *)
(* before its position, the size of the buffer and the error; an operation *)
(* returns the next writer.  The first error stays, but a later write that *)
(* fits is still copied: after an error the buffer may hold a stream with  *)
(* a gap, and only the error tells.                                        *)
(***************************************************************************)
\* What a writer always is: its position is inside the buffer.
WriterOK(w) ==
  /\ w \in [buffer : Seq(Byte), size : Nat, error : {"ok", "too_big"}]
  /\ Len(w.buffer) <= w.size

mpack_writer_init(size) ==
  [buffer |-> <<>>, size |-> size, error |-> "ok"]

mpack_writer_buffer_used(w) == Len(w.buffer)
mpack_writer_buffer_left(w) == w.size - mpack_writer_buffer_used(w)

\* _Forget: the error is dropped.
mpack_writer_flag_error_Forget(w, e) == w
mpack_writer_flag_error(w, e) == IF w.error = "ok" THEN [w EXCEPT !.error = e] ELSE w

\* The bytes go to position, which moves behind them.
Put(w, bytes) == [w EXCEPT !.buffer = @ \o bytes]

\* MPACK_WRITE_ENCODED and mpack_write_native: without a flush function what does not fit is
\* left out whole.
Write(w, bytes) ==
  IF mpack_writer_buffer_left(w) >= Len(bytes) THEN Put(w, bytes)
  ELSE mpack_writer_flag_error(w, "too_big")

mpack_write_u8(w, v) == Write(w, U8Bytes(v))
mpack_write_u16(w, v) == Write(w, U16Bytes(v))
mpack_write_i32(w, v) == Write(w, I32Bytes(v))
mpack_start_array(w, count) == Write(w, ArrayBytes(count))
mpack_start_bin(w, count) == Write(w, BinBytes(count))
mpack_write_bin(w, data) == Write(mpack_start_bin(w, Len(data)), data)

mpack_writer_destroy(w) == w.error

(***************************************************************************)
(* The reader on bytes in memory and the mpack_expect functions.  A reader *)
(* is a record; an operation returns the next reader with what the call    *)
(* returned.  No fill function is set, so what is missing is an error, and *)
(* the first error closes the data.                                        *)
(***************************************************************************)
Errors == {"ok", "invalid", "unsupported", "type", "too_big", "data"}

\* What a reader always is: it has read nothing beyond its end, nor the data's.
ReaderOK(r) ==
  /\ r \in [data : Seq(Byte), pos : Nat, end : Nat, error : Errors]
  /\ r.pos <= r.end /\ r.end <= Len(r.data)

mpack_reader_init_data(data) ==
  [data |-> data, pos |-> 0, end |-> Len(data), error |-> "ok"]

\* _Last: a later error replaces the first.
mpack_reader_flag_error_Last(r, e) == [r EXCEPT !.error = e, !.end = r.pos]
mpack_reader_flag_error(r, e) ==
  IF r.error = "ok" THEN [r EXCEPT !.error = e, !.end = r.pos] ELSE r

Missing(r, count) == r.end - r.pos < count

\* mpack_parse_tag's refusals, in their order.
TagError(r) ==
  CASE Missing(r, 1) -> "invalid"
    [] ~Missing(r, 1) /\ Reserved(r.data[r.pos + 1]) -> "invalid"
    [] ~Missing(r, 1) /\ Extension(r.data[r.pos + 1]) -> "unsupported"
    [] ~Missing(r, 1) /\ Missing(r, TagSize(r.data[r.pos + 1])) -> "invalid"
    [] OTHER -> "ok"

mpack_read_tag(r) ==
  CASE r.error # "ok" -> [reader |-> r, tag |-> Other]
    [] r.error = "ok" /\ TagError(r) # "ok" ->
         [reader |-> mpack_reader_flag_error(r, TagError(r)), tag |-> Other]
    [] OTHER -> [reader |-> [r EXCEPT !.pos = @ + TagSize(r.data[r.pos + 1])],
                 tag |-> Tag(r.data, r.pos)]

\* The value when Accept, else 0 and a type error (kept only if it is the first).
Expect(t, Accept) ==
  IF Accept THEN [reader |-> t.reader, value |-> t.tag.v]
  ELSE [reader |-> mpack_reader_flag_error(t.reader, "type"), value |-> 0]

\* A uint or int tag whose value lies in lo..hi.
InRange(tag, lo, hi) ==
  /\ tag.type = "int" \/ (tag.type = "uint" /\ tag.v >= 0)
  /\ tag.v \in lo..hi

mpack_expect_u8(r) == LET t == mpack_read_tag(r) IN Expect(t, InRange(t.tag, 0, 255))
mpack_expect_u16(r) == LET t == mpack_read_tag(r) IN Expect(t, InRange(t.tag, 0, 65535))
mpack_expect_i32(r) ==
  LET t == mpack_read_tag(r) IN Expect(t, InRange(t.tag, INT32_MIN, INT32_MAX))
mpack_expect_array(r) == LET t == mpack_read_tag(r) IN Expect(t, t.tag.type = "array")
mpack_expect_bin(r) == LET t == mpack_read_tag(r) IN Expect(t, t.tag.type = "bin")

mpack_expect_array_match(r, count) ==
  LET e == mpack_expect_array(r)
  IN IF e.value = count THEN e.reader ELSE mpack_reader_flag_error(e.reader, "type")

\* The bytes of a bin of at most bufsize; none after an error.
\* _Short: what is left is taken for the whole.
mpack_expect_bin_buf_Short(r, bufsize) ==
  LET e == mpack_expect_bin(r)
      q == e.reader
      n == IF Missing(q, e.value) THEN q.end - q.pos ELSE e.value
      Refuse(error) == [reader |-> mpack_reader_flag_error(q, error), value |-> <<>>]
  IN CASE q.error # "ok" -> [reader |-> q, value |-> <<>>]
       [] q.error = "ok" /\ e.value \notin 0..bufsize -> Refuse("too_big")
       [] OTHER -> [reader |-> [q EXCEPT !.pos = @ + n],
                    value |-> SubSeq(q.data, q.pos + 1, q.pos + n)]
mpack_expect_bin_buf(r, bufsize) ==
  LET e == mpack_expect_bin(r)
      q == e.reader
      Refuse(error) == [reader |-> mpack_reader_flag_error(q, error), value |-> <<>>]
  IN CASE q.error # "ok" -> [reader |-> q, value |-> <<>>]
       [] q.error = "ok" /\ e.value \notin 0..bufsize -> Refuse("too_big")
       [] q.error = "ok" /\ e.value \in 0..bufsize /\ Missing(q, e.value) -> Refuse("invalid")
       [] OTHER -> [reader |-> [q EXCEPT !.pos = @ + e.value],
                    value |-> SubSeq(q.data, q.pos + 1, q.pos + e.value)]

mpack_reader_destroy(r) == r.error

(***************************************************************************)
(* A call as a record: a write call and its value, an expect call by kind. *)
(***************************************************************************)
Ops == {"u8", "u16", "i32", "array", "bin"}

IsCall(c) ==
  \/ c.op = "u8" /\ c.v \in Byte
  \/ c.op = "u16" /\ c.v \in UInt16
  \/ c.op = "i32" /\ c.v \in Int32
  \/ c.op = "array" /\ c.v \in Int32
  \/ c.op = "bin" /\ c.v \in Seq(Byte) /\ UInt32(Len(c.v))

WriteCall(w, c) ==
  CASE c.op = "u8" -> mpack_write_u8(w, c.v)
    [] c.op = "u16" -> mpack_write_u16(w, c.v)
    [] c.op = "i32" -> mpack_write_i32(w, c.v)
    [] c.op = "array" -> mpack_start_array(w, c.v)
    [] c.op = "bin" -> mpack_write_bin(w, c.v)

Bytes(c) ==
  CASE c.op = "u8" -> U8Bytes(c.v)
    [] c.op = "u16" -> U16Bytes(c.v)
    [] c.op = "i32" -> I32Bytes(c.v)
    [] c.op = "array" -> ArrayBytes(c.v)
    [] c.op = "bin" -> BinBytes(Len(c.v)) \o c.v

ExpectCall(r, op, bufsize) ==
  CASE op = "u8" -> mpack_expect_u8(r)
    [] op = "u16" -> mpack_expect_u16(r)
    [] op = "i32" -> mpack_expect_i32(r)
    [] op = "array" -> mpack_expect_array(r)
    [] op = "bin" -> mpack_expect_bin_buf(r, bufsize)
=============================================================================
