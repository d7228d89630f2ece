------------------------------ MODULE MpackProofs ------------------------------
(***************************************************************************)
(* What holds of mpack's writer and reader for every sequence of calls,    *)
(* every size of the buffers and every cut of the bytes between them.      *)
(***************************************************************************)
EXTENDS MpackStream, MpackCallProofs

(***************************************************************************)
(* The program of calls.                                                   *)
(***************************************************************************)
\* With NoGap this is inductive: every accepted call extended both the buffer and
\* the stream by the same bytes.
Inv == TypeOK /\ NoGap

LEMMA InitInv == StreamInit => Inv
<1> SUFFICES ASSUME StreamInit PROVE Inv
  OBVIOUS
<1>1. WriterOK(writer) /\ writer.size = Size /\ writer.buffer = <<>>
  BY SizeAssumption, SMT DEF StreamInit, mpack_writer_init, WriterOK
<1>2. ReaderOK(reader)
  <2>1. <<>> \in Seq(Byte)
    BY SMT
  <2> QED
    BY <2>1, StartReader, Zenon DEF StreamInit
<1>3. accepted \in Seq(Calls) /\ stream \in Seq(Byte) /\ stream = <<>>
  BY SMT DEF StreamInit
<1> QED
  BY <1>1, <1>2, <1>3, Zenon DEF StreamInit, Inv, TypeOK, NoGap

LEMMA WriteInv ==
  ASSUME Inv, NEW c \in Calls, WriteOne(c)
  PROVE  Inv'
<1>1. /\ WriterOK(writer) /\ writer.size = Size /\ ReaderOK(reader)
      /\ accepted \in Seq(Calls) /\ stream \in Seq(Byte) /\ matched \in BOOLEAN
      /\ writer.error = "ok" => writer.buffer = stream
  BY Zenon DEF Inv, TypeOK, NoGap
<1>2. /\ WriterOK(writer') /\ writer'.size = Size
      /\ writer'.error = "ok" => writer.error = "ok" /\ writer'.buffer = writer.buffer \o Bytes(c)
  BY <1>1, CallKeeps, CallsAssumption, Zenon DEF WriteOne
<1>3. accepted' \in Seq(Calls)
  <2>1. Append(accepted, c) \in Seq(Calls)
    BY <1>1, SMT
  <2> QED
    BY <2>1, <1>1, Zenon DEF WriteOne
<1>4. stream' \in Seq(Byte)
  <2>1. Bytes(c) \in Seq(Byte)
    BY CallBytes, CallsAssumption, Zenon
  <2>2. stream \o Bytes(c) \in Seq(Byte)
    BY <2>1, <1>1, SMT
  <2> QED
    BY <2>2, <1>1, Zenon DEF WriteOne
<1>5. NoGap'
  BY <1>1, <1>2, Zenon DEF WriteOne, NoGap
<1> QED
  BY <1>1, <1>2, <1>3, <1>4, <1>5, Zenon DEF WriteOne, Inv, TypeOK

LEMMA FinishInv ==
  ASSUME Inv, NEW n \in 0..Size, Finish(n)
  PROVE  Inv'
<1>1. /\ writer.buffer \in Seq(Byte) /\ n \in Nat /\ n <= Len(writer.buffer)
  BY WriterFields, SizeAssumption, SMT
     DEF Inv, TypeOK, Finish, mpack_writer_buffer_used
<1>2. SubSeq(writer.buffer, 1, n) \in Seq(Byte)
  BY <1>1, SMT
<1>3. ReaderOK(reader')
  BY <1>2, StartReader, Zenon DEF Finish, Inv, TypeOK
<1>4. phase' \in {"write", "refused", "read", "closed"}
  BY Zenon DEF Finish
<1> QED
  BY <1>3, <1>4, Zenon DEF Finish, Inv, TypeOK, NoGap

LEMMA ReadInv ==
  ASSUME Inv, NEW op \in Ops, Read(op)
  PROVE  Inv'
<1>1. ReaderOK(reader')
  BY CallGoes, SizeAssumption, Zenon DEF Inv, TypeOK, Read, Goes
<1>2. matched' \in BOOLEAN
  BY Zenon DEF Read
<1> QED
  BY <1>1, <1>2, Zenon DEF Read, Inv, TypeOK, NoGap

LEMMA StepInv == Inv /\ [StreamNext]_stream_vars => Inv'
<1> SUFFICES ASSUME Inv, [StreamNext]_stream_vars PROVE Inv'
  OBVIOUS
<1>1. ASSUME NEW c \in Calls, WriteOne(c) PROVE Inv'
  BY <1>1, WriteInv, Zenon
<1>2. ASSUME NEW n \in 0..Size, Finish(n) PROVE Inv'
  BY <1>2, FinishInv, Zenon
<1>3. ASSUME NEW op \in Ops, Read(op) PROVE Inv'
  BY <1>3, ReadInv, Zenon
<1>4. CASE Close
  BY <1>4, Zenon DEF Close, Inv, TypeOK, NoGap
<1>5. CASE UNCHANGED stream_vars
  BY <1>5, Zenon DEF stream_vars, Inv, TypeOK, NoGap
<1> QED
  BY <1>1, <1>2, <1>3, <1>4, <1>5, Zenon DEF StreamNext

\* Whatever calls a program makes on a buffer of whatever size, neither the writer
\* nor the reader leaves its buffer (mpack_writer_ensure, mpack_reader_ensure).
THEOREM PositionsInBounds == StreamSpec => []TypeOK
<1>1. Inv => TypeOK
  BY Zenon DEF Inv
<1> QED
  BY InitInv, StepInv, <1>1, PTL DEF StreamSpec

\* As long as mpack reports no error, the buffer is the concatenation of the
\* encodings of the calls made: no write is lost or cut without mpack_writer_error
\* telling (MPACK_WRITE_ENCODED, mpack_write_native).
THEOREM StreamIntact == StreamSpec => []NoGap
<1>1. Inv => NoGap
  BY Zenon DEF Inv
<1> QED
  BY InitInv, StepInv, <1>1, PTL DEF StreamSpec

(***************************************************************************)
(* Errors.                                                                 *)
(***************************************************************************)
Final ==
  /\ writer.error # "ok" => writer'.error = writer.error
  /\ reader.error # "ok" /\ phase = "read" =>
       reader'.error = reader.error /\ reader'.pos = reader.pos

LEMMA StepFinal == Inv /\ [StreamNext]_stream_vars => [Final]_stream_vars
<1> SUFFICES ASSUME Inv, StreamNext PROVE Final
  BY Zenon
<1>1. ASSUME NEW c \in Calls, WriteOne(c) PROVE Final
  BY <1>1, CallKeeps, CallsAssumption, Zenon DEF WriteOne, Inv, TypeOK, Final
<1>2. ASSUME NEW n \in 0..Size, Finish(n) PROVE Final
  <2>1. phase # "read"
    BY <1>2, Zenon DEF Finish
  <2> QED
    BY <2>1, <1>2, Zenon DEF Finish, Final
<1>3. ASSUME NEW op \in Ops, Read(op) PROVE Final
  BY <1>3, CallGoes, SizeAssumption, Zenon DEF Read, Inv, TypeOK, Goes, Final
<1>4. CASE Close
  BY <1>4, Zenon DEF Close, Final
<1> QED
  BY <1>1, <1>2, <1>3, <1>4, Zenon DEF StreamNext

\* mpack_writer_flag_error and mpack_reader_flag_error keep the first error, and
\* no later call on a reader with an error moves it.
THEOREM ErrorsAreFinal == StreamSpec => FirstErrorStays
<1>1. StreamSpec => [][Final]_stream_vars
  BY InitInv, StepInv, StepFinal, PTL DEF StreamSpec
<1> QED
  BY <1>1, PTL DEF FirstErrorStays, Final

(***************************************************************************)
(* The reader walks over the calls: behind the last one it read while it   *)
(* has no error, and never back before that.                               *)
(***************************************************************************)
Values == {c.v : c \in Calls}
Room == \A i \in DOMAIN accepted : accepted[i].op = "bin" => Len(accepted[i].v) <= BufSize

\* The calls read so far returned what was written.
ReadSoFar ==
  /\ results \in Seq(Values) /\ Len(results) <= Len(accepted)
  /\ \A i \in DOMAIN results : results[i] = accepted[i].v

\* What the reader was given is the beginning of the stream, or all of it.
Beginning ==
  /\ Len(reader.data) <= Len(stream)
  /\ \A i \in 1..Len(reader.data) : reader.data[i] = stream[i]

Walked(off) ==
  /\ off[Len(results)] <= reader.pos
  /\ reader.error = "ok" => reader.pos = off[Len(results)] /\ reader.end = Len(reader.data)

Fresh ==
  /\ results = <<>> /\ reader.data = <<>>
  /\ reader.pos = 0 /\ reader.end = 0 /\ reader.error = "ok"

Progress ==
  /\ Inv /\ ReadSoFar /\ Beginning
  /\ \E off : LaidOut(off, accepted, stream) /\ Walked(off)
  /\ phase = "write" => Fresh
  /\ matched /\ Room /\ Len(reader.data) = Len(stream) => reader.error = "ok"

LEMMA InvFields ==
  ASSUME Inv
  PROVE  /\ WriterOK(writer) /\ writer.size = Size /\ ReaderOK(reader)
         /\ accepted \in Seq(Calls) /\ stream \in Seq(Byte)
         /\ Len(accepted) \in Nat /\ Len(stream) \in Nat
         /\ reader.data \in Seq(Byte) /\ reader.pos \in Nat /\ reader.pos <= Len(reader.data)
         /\ Len(reader.data) \in Nat
<1>1. /\ WriterOK(writer) /\ writer.size = Size /\ ReaderOK(reader)
      /\ accepted \in Seq(Calls) /\ stream \in Seq(Byte)
  BY Zenon DEF Inv, TypeOK
<1>2. /\ reader.data \in Seq(Byte) /\ reader.pos \in Nat /\ reader.end \in Nat
      /\ reader.pos <= reader.end /\ reader.end <= Len(reader.data)
  BY <1>1, ReaderFields, Zenon
<1>3. Len(accepted) \in Nat /\ Len(stream) \in Nat /\ Len(reader.data) \in Nat
  BY <1>1, <1>2, SMT
<1>4. reader.pos <= Len(reader.data)
  BY <1>2, <1>3, SMT
<1> QED
  BY <1>1, <1>2, <1>3, <1>4, Zenon

LEMMA InitProgress == StreamInit => Progress
<1> SUFFICES ASSUME StreamInit PROVE Progress
  OBVIOUS
<1>1. Inv
  BY InitInv, Zenon
<1>2. Fresh /\ accepted = <<>> /\ stream = <<>>
  <2>1. Len(<<>>) = 0
    BY SMT
  <2>2. reader = [data |-> <<>>, pos |-> 0, end |-> 0, error |-> "ok"]
    BY <2>1, Zenon DEF StreamInit, mpack_reader_init_data
  <2>3. reader.pos = 0 /\ reader.data = <<>> /\ reader.end = 0 /\ reader.error = "ok"
    BY <2>2, SMT
  <2> QED
    BY <2>3, Zenon DEF Fresh, StreamInit
<1>3. Len(<<>>) = 0 /\ <<>> \in Seq(Values) /\ \A i \in 1..0 : FALSE
  BY SMT
<1>4. DOMAIN <<>> = 1..0
  BY SMT
<1>5. ReadSoFar
  BY <1>2, <1>3, <1>4, SMT DEF ReadSoFar, Fresh
<1>6. Beginning
  BY <1>2, <1>3, SMT DEF Beginning, Fresh
<1>7. \E off : LaidOut(off, accepted, stream) /\ Walked(off)
  <2>1. PICK off : LaidOut(off, <<>>, <<>>)
    BY Nothing, Zenon
  <2>2. off[0] = 0
    BY <2>1, Zenon DEF LaidOut
  <2>3. Walked(off)
    <3>1. 0 <= 0
      BY SMT
    <3> QED
      BY <1>2, <1>3, <2>2, <3>1, Zenon DEF Walked, Fresh
  <2> QED
    BY <1>2, <2>1, <2>3, Zenon
<1> QED
  BY <1>1, <1>2, <1>5, <1>6, <1>7, Zenon DEF Progress, Fresh

LEMMA WriteProgress ==
  ASSUME Progress, NEW c \in Calls, WriteOne(c)
  PROVE  Progress'
<1>1. /\ Fresh /\ Inv /\ Inv' /\ ReadSoFar
      /\ phase' = phase /\ reader' = reader /\ results' = results /\ matched' = matched
  BY WriteInv, Zenon DEF Progress, WriteOne
<1>2. Fresh'
  BY <1>1, Zenon DEF Fresh
<1>3. Len(<<>>) = 0 /\ \A i \in 1..0 : FALSE
  BY SMT
<1>4. DOMAIN <<>> = 1..0
  BY SMT
<1>5. /\ accepted' \in Seq(Calls) /\ stream' \in Seq(Byte)
      /\ Len(accepted') \in Nat /\ Len(stream') \in Nat
  <2>1. accepted' \in Seq(Calls) /\ stream' \in Seq(Byte)
    BY <1>1, Zenon DEF Inv, TypeOK
  <2> QED
    BY <2>1, SMT
<1>6. ReadSoFar'
  BY <1>1, <1>2, <1>3, <1>4, <1>5, SMT DEF ReadSoFar, Fresh
<1>7. Beginning'
  BY <1>2, <1>3, <1>5, SMT DEF Beginning, Fresh
<1>8. \E off : LaidOut(off, accepted', stream') /\ off[0] = 0
  <2>1. PICK off : LaidOut(off, accepted, stream)
    BY Zenon DEF Progress
  <2>2. accepted \in Seq(Calls) /\ stream \in Seq(Byte)
    BY <1>1, InvFields, Zenon
  <2>3. CASE writer'.error = "ok"
    <3>1. accepted' = Append(accepted, c) /\ stream' = stream \o Bytes(c)
      BY <2>3, Zenon DEF WriteOne
    <3>2. PICK o : LaidOut(o, Append(accepted, c), stream \o Bytes(c)) /\ o[0] = 0
      BY <2>1, <2>2, OneMore, CallsAssumption, Zenon
    <3> QED
      BY <3>1, <3>2, Zenon
  <2>4. CASE writer'.error # "ok"
    <3>1. accepted' = accepted /\ stream' = stream
      BY <2>4, Zenon DEF WriteOne
    <3> QED
      BY <2>1, <3>1, Zenon DEF LaidOut
  <2> QED
    BY <2>3, <2>4, Zenon
<1>9. \A off : off[0] = 0 => Walked(off)'
  <2>1. 0 <= 0
    BY SMT
  <2> QED
    BY <1>2, <1>3, <2>1, Zenon DEF Walked, Fresh
<1>10. (\E off : LaidOut(off, accepted, stream) /\ Walked(off))'
  BY <1>8, <1>9, Zenon
<1> QED
  BY <1>1, <1>2, <1>6, <1>7, <1>10, Zenon DEF Progress, Fresh

LEMMA FinishProgress ==
  ASSUME Progress, NEW n \in 0..Size, Finish(n)
  PROVE  Progress'
<1>1. /\ Fresh /\ Inv /\ Inv' /\ ReadSoFar
      /\ accepted' = accepted /\ stream' = stream /\ results' = results /\ matched' = matched
      /\ phase' # "write"
  BY FinishInv, Zenon DEF Progress, Finish
<1>2. ReadSoFar'
  BY <1>1, Zenon DEF ReadSoFar
<1>3. PICK off : LaidOut(off, accepted, stream)
  BY Zenon DEF Progress
<1>4. off[0] = 0 /\ Len(<<>>) = 0
  BY <1>3, SMT DEF LaidOut
<1>5. CASE mpack_writer_destroy(writer) = "ok"
  <2> DEFINE d == SubSeq(writer.buffer, 1, n)
  <2>1. writer.error = "ok" /\ writer.buffer = stream
    BY <1>1, <1>5, Zenon DEF mpack_writer_destroy, Inv, NoGap
  <2>2. stream \in Seq(Byte) /\ n \in Nat /\ n <= Len(stream) /\ Len(stream) \in Nat
    BY <1>1, <2>1, InvFields, SizeAssumption, SMT DEF Finish, mpack_writer_buffer_used
  <2>3. /\ d \in Seq(Byte) /\ Len(d) = n
        /\ \A i \in 1..n : d[i] = stream[i]
    <3>1. 0 + 1 = 1 /\ 0 + n = n /\ 0 + n <= Len(stream) /\ \A i \in 1..n : 0 + i = i
      BY <2>2, SMT
    <3>2. 0 \in Nat
      BY SMT
    <3>3. /\ SubSeq(stream, 0 + 1, 0 + n) \in Seq(Byte) /\ Len(SubSeq(stream, 0 + 1, 0 + n)) = n
          /\ \A i \in 1..n : SubSeq(stream, 0 + 1, 0 + n)[i] = stream[0 + i]
      BY <2>2, <3>1, <3>2, Slice, Zenon
    <3> QED
      BY <2>1, <3>1, <3>3, SMT
  <2>4. reader' = mpack_reader_init_data(d)
    BY <1>5, Zenon DEF Finish
  <2> HIDE DEF d
  <2>5. reader'.data = d /\ reader'.pos = 0 /\ reader'.end = Len(d) /\ reader'.error = "ok"
    BY <2>4, SMT DEF mpack_reader_init_data
  <2>6. Beginning'
    BY <1>1, <2>2, <2>3, <2>5, Zenon DEF Beginning
  <2>7. Walked(off)'
    <3>1. 0 <= 0
      BY SMT
    <3> QED
      BY <1>1, <1>4, <2>5, <3>1, Zenon DEF Walked, Fresh
  <2>8. (\E o : LaidOut(o, accepted, stream) /\ Walked(o))'
    BY <1>1, <1>3, <2>7, Zenon
  <2> QED
    BY <1>1, <1>2, <2>5, <2>6, <2>8, Zenon DEF Progress
<1>6. CASE mpack_writer_destroy(writer) # "ok"
  <2>1. reader' = reader
    BY <1>6, Zenon DEF Finish
  <2>2. (\E o : LaidOut(o, accepted, stream) /\ Walked(o))'
    BY <1>1, <2>1, Zenon DEF Progress, Walked
  <2> QED
    BY <1>1, <1>2, <2>1, <2>2, Zenon DEF Progress, Beginning, Fresh
<1> QED
  BY <1>5, <1>6, Zenon

\* Behind the calls that were read stands the next one, as far as the data reach.
LEMMA NextIsThere ==
  ASSUME Progress, Len(results) < Len(accepted), reader.error = "ok",
         NEW off, LaidOut(off, accepted, stream), Walked(off)
  PROVE  LET k == Len(results)
             c == accepted[k + 1]
         IN /\ c \in Calls /\ Open(reader) /\ There(reader, Bytes(c))
            /\ off[k + 1] = reader.pos + Len(Bytes(c))
            /\ off[k + 1] <= Len(stream)
<1> DEFINE k == Len(results)
           c == accepted[k + 1]
<1>1. /\ ReaderOK(reader) /\ accepted \in Seq(Calls) /\ Len(accepted) \in Nat /\ Len(stream) \in Nat
      /\ reader.pos \in Nat /\ Len(reader.data) \in Nat
  BY InvFields, Zenon DEF Progress
<1>2. k \in Nat /\ k + 1 \in 1..Len(accepted) /\ (k + 1) - 1 = k
  <2>1. k \in Nat
    BY SMT DEF Progress, ReadSoFar
  <2> HIDE DEF k
  <2>2. k < Len(accepted)
    BY Zenon DEF k
  <2> QED
    BY <2>1, <2>2, <1>1, SMT
<1>3. c \in Calls
  BY <1>1, <1>2, SMT
<1>4. Open(reader) /\ reader.pos = off[k]
  BY <1>1, Zenon DEF Open, Walked
<1>5. Lies(off, accepted, stream, k + 1)
  BY <1>2, Zenon DEF LaidOut
<1> HIDE DEF k
<1>6. /\ off[k + 1] = reader.pos + Len(Bytes(c)) /\ off[k + 1] <= Len(stream)
      /\ At(stream, reader.pos, Bytes(c))
  BY <1>2, <1>4, <1>5, SMT DEF Lies
<1>7. There(reader, Bytes(c))
  <2>1. Len(Bytes(c)) \in Nat
    BY <1>3, CallBytes, SMT
  <2> HIDE DEF c
  <2>2. ASSUME NEW i \in 1..Len(Bytes(c)), reader.pos + i <= Len(reader.data)
        PROVE  reader.data[reader.pos + i] = Bytes(c)[i]
    <3>1. reader.pos + i \in 1..Len(reader.data)
      BY <1>1, <2>1, <2>2, SMT
    <3>2. reader.data[reader.pos + i] = stream[reader.pos + i]
      BY <3>1, Zenon DEF Progress, Beginning
    <3> QED
      BY <3>2, <1>6, Zenon DEF At
  <2> QED
    BY <2>2, Zenon DEF There
<1> QED
  BY <1>3, <1>4, <1>6, <1>7, Zenon DEF k

LEMMA ReadProgress ==
  ASSUME Progress, NEW op \in Ops, Read(op)
  PROVE  Progress'
<1> DEFINE k == Len(results)
           c == accepted[k + 1]
           e == ExpectCall(reader, op, BufSize)
<1>1. /\ Inv /\ Inv' /\ ReadSoFar /\ Beginning /\ k < Len(accepted) /\ phase' # "write"
      /\ accepted' = accepted /\ stream' = stream /\ reader' = e.reader
      /\ results' = IF reader'.error = "ok" THEN Append(results, e.value) ELSE results
      /\ matched' = (matched /\ op = c.op)
  <2>1. Inv'
    BY ReadInv, Zenon DEF Progress
  <2> QED
    BY <2>1, Zenon DEF Progress, Read
<1>2. Goes(reader, reader') /\ reader'.data = reader.data
  <2>1. ReaderOK(reader) /\ BufSize \in Nat
    BY <1>1, InvFields, SizeAssumption, Zenon
  <2>2. Goes(reader, e.reader)
    BY <2>1, CallGoes, Zenon
  <2> QED
    BY <1>1, <2>2, Zenon DEF Goes
<1>3. PICK off : LaidOut(off, accepted, stream) /\ Walked(off)
  BY Zenon DEF Progress
<1>4. /\ k \in Nat /\ Len(accepted) \in Nat /\ Len(stream) \in Nat /\ reader.pos \in Nat
      /\ reader'.pos \in Nat /\ reader.pos <= reader'.pos /\ ReaderOK(reader')
      /\ off[k] <= reader.pos /\ off \in [0..Len(accepted) -> Nat]
  <2>1. k \in Nat
    BY <1>1, SMT DEF ReadSoFar
  <2>2. reader'.pos \in Nat /\ reader.pos <= reader'.pos /\ ReaderOK(reader')
    BY <1>2, ReaderFields, Zenon DEF Goes
  <2> QED
    BY <1>1, <1>3, <2>1, <2>2, InvFields, Zenon DEF Walked, LaidOut
<1>5. Beginning'
  BY <1>1, <1>2, Zenon DEF Beginning
<1>6. ASSUME reader.error = "ok"
      PROVE  /\ c \in Calls /\ off[k + 1] = reader.pos + Len(Bytes(c)) /\ off[k + 1] <= Len(stream)
             /\ reader'.error = "ok" => e.value = c.v /\ reader'.pos = off[k + 1]
             /\ /\ op = c.op /\ off[k + 1] <= Len(reader.data)
                /\ c.op = "bin" => Len(c.v) <= BufSize
                => reader'.error = "ok"
             /\ reader'.error = "ok" => reader'.end = Len(reader'.data)
  <2>1. /\ c \in Calls /\ Open(reader) /\ There(reader, Bytes(c))
        /\ off[k + 1] = reader.pos + Len(Bytes(c)) /\ off[k + 1] <= Len(stream)
    BY <1>1, <1>3, <1>6, NextIsThere, Zenon
  <2> HIDE DEF c, k
  <2>2. /\ e.reader.error = "ok" => e.value = c.v /\ e.reader.pos = reader.pos + Len(Bytes(c))
        /\ /\ op = c.op /\ reader.pos + Len(Bytes(c)) <= Len(reader.data)
           /\ c.op = "bin" => Len(c.v) <= BufSize
           => e.reader.error = "ok"
    BY <2>1, CallReads, CallsAssumption, SizeAssumption, Zenon
  <2> HIDE DEF e
  <2>3. reader'.error = "ok" => reader'.end = Len(reader'.data)
    BY <1>2, <2>1, Zenon DEF Goes, Open
  <2> QED
    BY <1>1, <2>1, <2>2, <2>3, Zenon
<1>7. reader'.error = "ok" => reader.error = "ok"
  BY <1>2, Zenon DEF Goes
<1>8. k + 1 \in 0..Len(accepted) /\ k + 1 <= Len(accepted) /\ k + 1 \in 1..Len(accepted)
  <2> HIDE DEF k
  <2> QED
    BY <1>1, <1>4, SMT
<1> HIDE DEF e, c
<1>9. CASE reader'.error = "ok"
  <2>1. /\ results' = Append(results, e.value) /\ e.value = c.v /\ c \in Calls
        /\ reader'.pos = off[k + 1] /\ reader'.end = Len(reader'.data)
    BY <1>1, <1>6, <1>7, <1>9, Zenon
  <2>2. c.v \in Values
    BY <2>1, Zenon DEF Values
  <2>3. results \in Seq(Values) /\ \A i \in DOMAIN results : results[i] = accepted[i].v
    BY <1>1, Zenon DEF ReadSoFar
  <2> DEFINE v == c.v
             x == Append(results, v)
  <2>4. x \in Seq(Values) /\ Len(x) = k + 1 /\ x[k + 1] = v /\ DOMAIN x = 1..(k + 1)
    <3> HIDE DEF v
    <3>1. v \in Values
      BY <2>2, Zenon DEF v
    <3> QED
      BY <2>3, <3>1, SMT
  <2>5. \A i \in 1..k : x[i] = results[i] /\ i \in DOMAIN results
    <3> HIDE DEF v
    <3>1. v \in Values
      BY <2>2, Zenon DEF v
    <3> QED
      BY <2>3, <3>1, SMT
  <2>6. results' = x
    BY <2>1, Zenon
  <2> HIDE DEF x, k
  <2>7. \A i \in DOMAIN x : x[i] = accepted[i].v
    <3> TAKE i \in DOMAIN x
    <3>1. i \in 1..k \/ i = k + 1
      BY <2>4, <1>4, SMT
    <3>2. CASE i \in 1..k
      BY <3>2, <2>3, <2>5, Zenon
    <3>3. CASE i = k + 1
      BY <3>3, <2>4, Zenon DEF c, k, v
    <3> QED
      BY <3>1, <3>2, <3>3, Zenon
  <2>8. ReadSoFar'
    BY <1>1, <1>8, <2>4, <2>6, <2>7, Zenon DEF ReadSoFar
  <2>9. Walked(off)'
    <3>1. off[k + 1] \in Nat
      BY <1>4, <1>8, SMT
    <3>2. off[k + 1] <= off[k + 1]
      BY <3>1, SMT
    <3> QED
      BY <2>1, <2>4, <2>6, <3>2, Zenon DEF Walked
  <2>10. (\E o : LaidOut(o, accepted, stream) /\ Walked(o))'
    BY <1>1, <1>3, <2>9, Zenon
  <2> QED
    BY <1>1, <1>5, <1>9, <2>8, <2>10, Zenon DEF Progress
<1>10. CASE reader'.error # "ok"
  <2>1. results' = results
    BY <1>1, <1>10, Zenon
  <2>2. ReadSoFar'
    BY <1>1, <2>1, Zenon DEF ReadSoFar
  <2>3. Walked(off)'
    <3>1. off[k] \in Nat
      BY <1>1, <1>4, SMT
    <3>2. off[k] <= reader'.pos
      <4> HIDE DEF k
      <4> QED
        BY <1>4, <3>1, SMT
    <3> QED
      BY <1>10, <2>1, <3>2, Zenon DEF Walked
  <2>4. (\E o : LaidOut(o, accepted, stream) /\ Walked(o))'
    BY <1>1, <1>3, <2>3, Zenon
  <2>5. ASSUME matched', Room', Len(reader'.data) = Len(stream')
        PROVE  FALSE
    <3>1. matched /\ Room /\ Len(reader.data) = Len(stream) /\ op = c.op
      BY <1>1, <1>2, <2>5, Zenon DEF Room
    <3>2. reader.error = "ok"
      BY <3>1, Zenon DEF Progress
    <3>3. c.op = "bin" => Len(c.v) <= BufSize
      <4>1. k + 1 \in DOMAIN accepted
        BY <1>1, <1>8, InvFields, SMT
      <4> QED
        BY <4>1, <3>1, Zenon DEF Room, c
    <3>4. off[k + 1] <= Len(reader.data)
      BY <1>6, <3>1, <3>2, Zenon
    <3> QED
      BY <1>6, <1>10, <3>1, <3>2, <3>3, <3>4, Zenon
  <2> QED
    BY <1>1, <1>5, <2>2, <2>4, <2>5, Zenon DEF Progress
<1> QED
  BY <1>9, <1>10, Zenon

LEMMA StepProgress == Progress /\ [StreamNext]_stream_vars => Progress'
<1> SUFFICES ASSUME Progress, [StreamNext]_stream_vars PROVE Progress'
  OBVIOUS
<1>1. ASSUME NEW c \in Calls, WriteOne(c) PROVE Progress'
  BY <1>1, WriteProgress, Zenon
<1>2. ASSUME NEW n \in 0..Size, Finish(n) PROVE Progress'
  BY <1>2, FinishProgress, Zenon
<1>3. ASSUME NEW op \in Ops, Read(op) PROVE Progress'
  BY <1>3, ReadProgress, Zenon
<1>4. ASSUME UNCHANGED <<accepted, stream, reader, results, matched>>,
             phase' = "write" => phase = "write"
      PROVE  Progress'
  <2>1. Inv'
    BY StepInv, Zenon DEF Progress
  <2> QED
    BY <1>4, <2>1, Zenon DEF Progress, ReadSoFar, Beginning, Walked, Fresh, Room
<1>5. CASE Close
  <2>1. phase' # "write"
    BY <1>5, Zenon DEF Close
  <2> QED
    BY <1>4, <1>5, <2>1, Zenon DEF Close
<1>6. CASE UNCHANGED stream_vars
  BY <1>4, <1>6, Zenon DEF stream_vars
<1> QED
  BY <1>1, <1>2, <1>3, <1>5, <1>6, Zenon DEF StreamNext

\* Whatever a program writes and whatever it then asks for, an expect call that
\* succeeds returns what was written in its place; and a reader with every byte that
\* asks for the kinds written, and has room, reads them all to the last byte.
THEOREM WrittenIsRead == StreamSpec => []ReadsWhatWasWritten
<1>1. Progress => ReadsWhatWasWritten
  <2> SUFFICES ASSUME Progress PROVE ReadsWhatWasWritten
    OBVIOUS
  <2>1. \A i \in DOMAIN results : results[i] = accepted[i].v
    BY Zenon DEF Progress, ReadSoFar
  <2>2. ASSUME matched, reader.data = stream, Room
        PROVE  /\ reader.error = "ok"
               /\ Len(results) = Len(accepted) => reader.pos = Len(stream)
    <3>1. reader.error = "ok"
      BY <2>2, Zenon DEF Progress
    <3>2. PICK off : LaidOut(off, accepted, stream) /\ Walked(off)
      BY Zenon DEF Progress
    <3> QED
      BY <3>1, <3>2, Zenon DEF LaidOut, Walked
  <2> QED
    BY <2>1, <2>2, Zenon DEF ReadsWhatWasWritten, Room
<1> QED
  BY InitProgress, StepProgress, <1>1, PTL DEF StreamSpec

\* No cut of the bytes, at any place, lets every call be read.
THEOREM CutIsAlwaysNoticed == StreamSpec => []CutIsNoticed
<1>1. Progress => CutIsNoticed
  <2> SUFFICES ASSUME Progress, Len(reader.data) < Len(stream)
               PROVE  Len(results) < Len(accepted)
    BY Zenon DEF CutIsNoticed
  <2>1. PICK off : LaidOut(off, accepted, stream) /\ Walked(off)
    BY Zenon DEF Progress
  <2>2. /\ Len(results) \in Nat /\ Len(results) <= Len(accepted)
        /\ Len(accepted) \in Nat /\ Len(stream) \in Nat
        /\ reader.pos \in Nat /\ reader.pos <= Len(reader.data) /\ Len(reader.data) \in Nat
    <3>1. Len(results) \in Nat
      BY SMT DEF Progress, ReadSoFar
    <3> QED
      BY <3>1, InvFields, Zenon DEF Progress, ReadSoFar
  <2>3. Len(results) # Len(accepted)
    <3> SUFFICES ASSUME Len(results) = Len(accepted) PROVE FALSE
      OBVIOUS
    <3>1. Len(stream) <= reader.pos
      BY <2>1, Zenon DEF LaidOut, Walked
    <3> QED
      BY <3>1, <2>2, SMT
  <2> QED
    BY <2>2, <2>3, SMT
<1> QED
  BY InitProgress, StepProgress, <1>1, PTL DEF StreamSpec
=============================================================================
