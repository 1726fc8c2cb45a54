------------------------------ MODULE PerlIOBuf ------------------------------
(***************************************************************************)
(* The buffer of a file handle, perlio.c: the :perlio layer over :unix.    *)
(* One buffer serves reads and writes.  posn is the offset in the file of  *)
(* its start, the kernel has an offset of its own, and a handle that turns *)
(* from reads to writes has to bring the two together.                     *)
(*                                                                         *)
(* The file is a regular one that nobody else writes; write(2) and         *)
(* lseek(2) fail only as shown.  The EOF flags are left out, the :pending  *)
(* layer, where ungetc() goes if the buffer has no room, and the hole that *)
(* is written past the end of the file (a seek of a handle whose buffer    *)
(* cannot be flushed may lead there: with UngetcAtStart only).             *)
(***************************************************************************)
EXTENDS Integers, Sequences, FiniteSetsExt

CONSTANTS
  Byte,
  UNINIT,       \* what new memory holds
  bufsiz,
  MaxLen,       \* bound: bytes of the file
  MaxRead,      \* bound: bytes of one read
  Data,         \* bound: what is written
  AppendSeeks,  \* a handle opened with ">>" is moved
  UngetcAtStart \* ungetc() is called at the start of the file

ASSUME PerlIOAssumption ==
  /\ UNINIT \notin Byte
  /\ bufsiz \in Nat \ {0} /\ MaxLen \in Nat /\ MaxRead \in Nat
  /\ Data \subseteq Seq(Byte)
  /\ {AppendSeeks, UngetcAtStart} \subseteq BOOLEAN

\* file and offset are the kernel's; buf, ptr, end, posn are PerlIOBuf's, with
\* RDBUF and WRBUF of its flags; append is O_APPEND.
VARIABLE io

FileTypeOK ==
  /\ io.file \in Seq(Byte) /\ Len(io.file) <= MaxLen
  /\ io.offset \in 0 .. MaxLen
  /\ io.buf \in [0 .. bufsiz - 1 -> Byte \cup {UNINIT}]
  /\ {io.ptr, io.end} \subseteq 0 .. bufsiz
  /\ "RDBUF" \in io.flags => io.ptr <= io.end
  /\ io.posn \in Int
  /\ io.flags \in {{}, {"RDBUF"}, {"WRBUF"}}
  /\ io.append \in BOOLEAN

Opened(file, append) ==
  LET start == IF append THEN Len(file) ELSE 0
  IN  [file |-> file, offset |-> start, buf |-> [i \in 0 .. bufsiz - 1 |-> UNINIT],
       ptr |-> 0, end |-> 0, posn |-> start, flags |-> {}, append |-> append]

FileInit == \E append \in BOOLEAN : io = Opened(<<>>, append)

-----------------------------------------------------------------------------
(* The functions of the layer: the handle that they leave.                 *)

Slice(s, from, to) == [i \in 1 .. to - from |-> s.buf[from + i - 1]]

\* What write(2) makes of the file.
Over(file, at, data) ==
  SubSeq(file, 1, at) \o data \o SubSeq(file, at + Len(data) + 1, Len(file))

WriteOut(s) ==
  LET at == IF s.append THEN Len(s.file) ELSE s.offset
      data == Slice(s, 0, s.ptr)
  IN  [s EXCEPT !.file = Over(@, at, data), !.offset = at + Len(data)]

Emptied(s) == [s EXCEPT !.ptr = 0, !.end = 0, !.flags = {}]

\* Mutant: the kernel is left where it has read to.
FlushNoSeek(s) ==
  IF "WRBUF" \in s.flags
    THEN Emptied([WriteOut(s) EXCEPT !.posn = @ + s.ptr])
    ELSE IF "RDBUF" \in s.flags THEN Emptied([s EXCEPT !.posn = @ + s.ptr]) ELSE Emptied(s)

\* PerlIOBuf_flush().  Of a read buffer that is not read to its end the rest
\* is dropped, and the kernel moved back; if it cannot be, nothing is done, and
\* the callers go on as if it were: the buffer may then be of both kinds.
Flush(s) ==
  LET here == s.posn + s.ptr
  IN  CASE "WRBUF" \in s.flags -> Emptied([WriteOut(s) EXCEPT !.posn = here])
        [] s.flags = {"RDBUF"} /\ s.ptr >= s.end -> Emptied([s EXCEPT !.posn = here])
        [] s.flags = {"RDBUF"} /\ s.ptr < s.end /\ here >= 0 ->
             Emptied([s EXCEPT !.offset = here, !.posn = here])
        [] s.flags = {"RDBUF"} /\ s.ptr < s.end /\ here < 0 -> s
        [] s.flags = {} -> Emptied(s)

\* PerlIOBuf_fill()
BufFill(s) ==
  LET f == Flush(s)
      avail == Min({bufsiz, Len(f.file) - f.offset})
  IN  IF avail <= 0 THEN [f EXCEPT !.ptr = 0, !.end = 0]
      ELSE [f EXCEPT !.buf = [i \in DOMAIN @ |->
                                IF i < avail THEN f.file[f.offset + i + 1] ELSE @[i]],
                     !.offset = @ + avail, !.ptr = 0, !.end = avail, !.flags = {"RDBUF"}]

Count(s) == IF "RDBUF" \in s.flags THEN s.end - s.ptr ELSE 0

\* Bytes move one by one here, as many as the buffer allows at once there: what
\* is left in between is the same.  The next one is taken from this buffer, or
\* from the next.
ReadByte(s) ==
  LET f == IF Count(s) > 0 THEN s ELSE BufFill(s)
  IN  IF Count(f) > 0 THEN [f EXCEPT !.ptr = @ + 1] ELSE f

\* PerlIOBase_read(): n bytes, or those that there are.
ReadFrom(s, n) ==
  LET read[k \in Nat] == IF k = 0 THEN s ELSE ReadByte(read[k - 1])
  IN  read[n]

\* A byte is put in the buffer; a full one is written out.
WriteByte(s, byte) ==
  LET t == [s EXCEPT !.buf[s.ptr] = byte, !.ptr = @ + 1, !.flags = @ \cup {"WRBUF"}]
  IN  IF t.ptr >= bufsiz THEN Flush(t) ELSE t

\* PerlIOBuf_write(), after what was read has been flushed or kept.
WriteTo(s, data) ==
  LET written[k \in 0 .. Len(data)] == IF k = 0 THEN s ELSE WriteByte(written[k - 1], data[k])
  IN  written[Len(data)]

\* PerlIOBuf_unread() of one byte.  An idle buffer becomes one that has been
\* read to its end: it reaches back from the position.
Unread(s, byte) ==
  LET f == IF "WRBUF" \in s.flags THEN Flush(s) ELSE s
      b == IF "RDBUF" \in f.flags THEN f
           ELSE [f EXCEPT !.end = bufsiz, !.ptr = bufsiz, !.flags = {"RDBUF"},
                          !.posn = @ - bufsiz]
  IN  [b EXCEPT !.ptr = @ - 1, !.buf[b.ptr - 1] = byte]

\* PerlIOBuf_tell() writes an appending handle's buffer out to find its end.
AfterTell(s) ==
  IF s.append /\ "WRBUF" \in s.flags
    THEN LET f == Flush(s) IN [f EXCEPT !.posn = f.offset]
    ELSE s

-----------------------------------------------------------------------------
(* The actions: calls of perl code.                                        *)

MayMove == io.append => AppendSeeks

FileRead(n) == MayMove /\ io' = ReadFrom(io, n)

Write(data) ==
  /\ Len(io.file) + io.ptr + Len(data) <= MaxLen
  /\ LET f == IF "RDBUF" \in io.flags THEN Flush(io) ELSE io
     IN  io' = WriteTo(f, data)

\* PerlIOBuf_seek()
Seek(p) ==
  /\ MayMove
  /\ p <= Len(Flush(io).file)
  /\ io' = [Flush(io) EXCEPT !.offset = p, !.posn = p]

Ungetc(byte) ==
  /\ MayMove
  /\ "RDBUF" \in io.flags => io.ptr > 0
  /\ UngetcAtStart \/ io.posn + io.ptr > 0
  /\ io' = Unread(io, byte)

Tell == io' = AfterTell(io)

\* $fh->flush, or any statement that forks
FlushHandle == io' = Flush(io)

Reopen == \E append \in BOOLEAN : io' = Opened(Flush(io).file, append)

FileNext ==
  \/ \E n \in 1 .. MaxRead : FileRead(n)
  \/ \E data \in Data : Write(data)
  \/ \E p \in 0 .. MaxLen : Seek(p)
  \/ \E byte \in Byte : Ungetc(byte)
  \/ Tell \/ FlushHandle \/ Reopen

FileSpec == FileInit /\ [][FileNext]_io

-----------------------------------------------------------------------------
(* Properties.                                                             *)

\* The kernel is where the buffer ends: what is read into the buffer, or
\* written from it, is what belongs at its position.
OffsetIsBufferEnd ==
  io.offset = io.posn + (IF "RDBUF" \in io.flags THEN io.end ELSE 0)

\* What a handle stands for: the file, the position in it, and what the next
\* reads return.
ContentOf(s) == IF "WRBUF" \in s.flags THEN WriteOut(s).file ELSE s.file

PositionOf(s) ==
  IF s.append /\ "WRBUF" \in s.flags THEN Len(ContentOf(s)) ELSE s.posn + s.ptr

AheadOf(s) ==
  IF "RDBUF" \in s.flags
    THEN Slice(s, s.ptr, s.end) \o SubSeq(s.file, s.offset + 1, Len(s.file))
    ELSE SubSeq(ContentOf(s), PositionOf(s) + 1, Len(ContentOf(s)))

AFile == INSTANCE PerlFile WITH
  content <- ContentOf(io),
  pos <- PositionOf(io),
  append <- io.append,
  ahead <- AheadOf(io)

\* Whatever is buffered, reads, writes, seeks and ungetc() in any order are
\* those of a file with one position.
IsAFile == AFile!Spec

=============================================================================
