------------------------------- MODULE PerlFile -------------------------------
(* What a file handle promises (perlfunc: print, read, seek, tell; IO::Handle: *)
(* ungetc): there is a file and one position in it, for reads and for writes.  *)
EXTENDS Integers, Sequences

CONSTANTS
  Byte,
  MaxRead,  \* bound: bytes of one read
  Data      \* bound: what is written

VARIABLES
  content,  \* the file, as reads of this handle see it
  pos,      \* tell()
  ahead,    \* what the next reads return
  append    \* the handle writes at the end of the file

Over(file, at, data) ==
  SubSeq(file, 1, at) \o data \o SubSeq(file, at + Len(data) + 1, Len(file))

From(file, at) == SubSeq(file, at + 1, Len(file))

Read(n) ==
  LET k == IF n < Len(ahead) THEN n ELSE Len(ahead)
  IN  ahead' = From(ahead, k) /\ pos' = pos + k /\ UNCHANGED <<content, append>>

Write(data) ==
  LET at == IF append THEN Len(content) ELSE pos
  IN  /\ content' = Over(content, at, data)
      /\ pos' = at + Len(data)
      /\ ahead' = From(content', pos')
      /\ UNCHANGED append

Seek(p) ==
  /\ pos' = p
  /\ ahead' = From(content, p)
  /\ UNCHANGED <<content, append>>

\* The byte comes first in what is read, whatever the file holds there.
Ungetc(byte) ==
  /\ pos' = pos - 1
  /\ ahead' = <<byte>> \o ahead
  /\ UNCHANGED <<content, append>>

Reopen ==
  /\ append' \in BOOLEAN
  /\ pos' = IF append' THEN Len(content) ELSE 0
  /\ ahead' = From(content, pos')
  /\ UNCHANGED content

file_vars == <<content, pos, ahead, append>>

Operation ==
  \/ \E n \in 1 .. MaxRead : Read(n)
  \/ \E data \in Data : Write(data)
  \/ \E p \in 0 .. Len(content) : Seek(p)
  \/ \E byte \in Byte : Ungetc(byte)
  \/ Reopen

Next == file_vars' # file_vars /\ Operation

Spec ==
  /\ content = <<>> /\ pos = 0 /\ ahead = <<>> /\ append \in BOOLEAN
  /\ [][Next]_file_vars

=============================================================================
