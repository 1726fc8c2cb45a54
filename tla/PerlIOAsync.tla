------------------------------ MODULE PerlIOAsync ------------------------------
(***************************************************************************)
(* The layers of a file handle while a signal handler runs inside a system *)
(* call on it, perlio.c.  A read or a write that EINTR interrupts calls    *)
(* the handler and is tried again; the handler may close the handle, so    *)
(* layers in use are cleared, and freed when the call is back.             *)
(*                                                                         *)
(* The handle is a :perlio layer over :unix, on a pipe or a terminal, for  *)
(* reading or for writing.  Of characters only the number counts.          *)
(* close(2) itself is not interrupted.                                     *)
(***************************************************************************)
EXTENDS Integers

CONSTANTS
  BufSize,
  MaxCount,      \* bound: characters of one print or read
  LineBuffered,  \* the handle is a terminal's
  HandlerPops    \* the handler also does binmode($fh, ":pop")

ASSUME AsyncAssumption ==
  /\ BufSize \in Nat \ {0} /\ MaxCount \in Nat
  /\ {LineBuffered, HandlerPops} \subseteq BOOLEAN

VARIABLES
  f,   \* the PerlIO: its layers, PerlIO_lockcnt(f), its buffer and how much
       \* is in it, and whether the Perl handle still refers to it (IoIFP)
  op   \* the C functions that are active: count characters are left to copy,
       \* line of them up to flushptr; p are written by the flush, and the
       \* system call is for asked; unchecked is a flush nobody looks at

async_vars == <<f, op>>

Layers == {"on", "cleared", "gone"}

Handles ==
  [mode : {"r", "w"}, top : Layers, unix : Layers, lockcnt : Nat,
   isOpen : BOOLEAN, buf : BOOLEAN, n : 0 .. BufSize, ifp : BOOLEAN]

Calls ==
  [at : {"idle", "write", "flush", "read", "syscall", "handler"},
   name : {"", "print", "read", "close"}, count : 0 .. MaxCount,
   line : 0 .. MaxCount, p : 0 .. BufSize, asked : 0 .. BufSize,
   unchecked : BOOLEAN]

AsyncTypeOK ==
  /\ f \in Handles
  /\ ~f.buf => f.n = 0
  /\ op \in Calls

NoOp == [at |-> "idle", name |-> "", count |-> 0, line |-> 0,
         p |-> 0, asked |-> 0, unchecked |-> FALSE]

Fresh(mode) ==
  [mode |-> mode, top |-> "on", unix |-> "on", lockcnt |-> 0,
   isOpen |-> TRUE, buf |-> FALSE, n |-> 0, ifp |-> TRUE]

AsyncInit == op = NoOp /\ \E mode \in {"r", "w"} : f = Fresh(mode)

-----------------------------------------------------------------------------
(* The functions of the layers.                                            *)

\* PerlIOBuf_popped(), and the end of PerlIOBuf_close()
BufReleased(h) == [h EXCEPT !.buf = FALSE, !.n = 0]

\* PerlIO_pop(): a layer in use is cleared.
Popped(h, layer) == [h EXCEPT ![layer] = IF h.lockcnt > 0 THEN "cleared" ELSE "gone"]

\* PerlIOBuf_flush() of a handle in use: nothing can be written, and the
\* buffer is emptied; what has been read cannot be given back, and stays.
FlushedInUse(h) == IF h.mode = "w" THEN [h EXCEPT !.n = 0] ELSE h

\* PerlIO_close() after its flush: PerlIOBase_close() has PerlIOUnix_close()
\* close the file, if that layer is still there, and every layer is popped.
Closed(h) ==
  LET u == IF h.unix = "on" THEN Popped([h EXCEPT !.isOpen = FALSE], "unix") ELSE h
  IN  [Popped(BufReleased(u), "top") EXCEPT !.ifp = FALSE]

\* Mutant: the handler has left the layer as it was.
async_runTrusting(h) == h

\* S_perlio_async_run(): a layer that the handler cleared is freed.
perlio_async_run(h) == IF h.unix = "cleared" THEN [h EXCEPT !.unix = "gone"] ELSE h

-----------------------------------------------------------------------------
(* The program's calls.                                                    *)

Usable == op.at = "idle" /\ f.ifp /\ f.top = "on"

\* PerlIOBuf_write()
AsyncWrite(count, line) ==
  /\ Usable /\ f.mode = "w"
  /\ op' = [NoOp EXCEPT !.at = "write", !.name = "print", !.count = count, !.line = line]
  /\ f' = [f EXCEPT !.buf = TRUE]

\* PerlIOBase_read()
AsyncRead(count) ==
  /\ Usable /\ f.mode = "r"
  /\ op' = [NoOp EXCEPT !.at = "read", !.name = "read", !.count = count]
  /\ f' = [f EXCEPT !.buf = TRUE]

Close ==
  /\ Usable
  /\ op' = [NoOp EXCEPT !.at = "flush", !.name = "close"]
  /\ UNCHANGED f

Open ==
  /\ op.at = "idle" /\ ~f.ifp
  /\ \E mode \in {"r", "w"} : f' = Fresh(mode)
  /\ UNCHANGED op

-----------------------------------------------------------------------------
(* The loops of the layers.                                                *)

Least(i, j) == IF i < j THEN i ELSE j

WriteEnds == op.at = "write" /\ op.count = 0 /\ op' = NoOp /\ UNCHANGED f

\* A full buffer is flushed, and a line that ends: that flush may fail.
WriteTurn ==
  LET avail == Least(op.count, BufSize - f.n)
      eol == op.line > 0 /\ op.line <= avail
      take == IF eol THEN op.line ELSE avail
      full == f.n + take = BufSize
  IN  /\ op.at = "write" /\ op.count > 0
      /\ f' = [f EXCEPT !.n = @ + take]
      /\ op' = [op EXCEPT !.count = @ - take,
                          !.line = IF @ = 0 THEN 0 ELSE @ - take,
                          !.at = IF eol \/ full THEN "flush" ELSE "write",
                          !.unchecked = eol, !.p = 0]

ReadTurn ==
  LET take == Least(op.count, f.n)
  IN  /\ op.at = "read"
      /\ f' = [f EXCEPT !.n = @ - take]
      /\ op' = IF take = op.count THEN NoOp
               ELSE [op EXCEPT !.count = @ - take, !.at = "syscall", !.asked = BufSize]

FlushTurn ==
  /\ op.at = "flush" /\ f.mode = "w" /\ op.p < f.n
  /\ op' = [op EXCEPT !.at = "syscall", !.asked = f.n - op.p]
  /\ UNCHANGED f

\* What the caller of a flush does with its result.
Back(h, ok) ==
  IF op.name = "close"
    THEN f' = Closed(h) /\ op' = NoOp
    ELSE /\ f' = h
         /\ op' = IF ok \/ op.unchecked THEN [op EXCEPT !.at = "write"] ELSE NoOp

FlushEnds ==
  /\ op.at = "flush" /\ (f.mode = "w" => op.p >= f.n)
  /\ Back(FlushedInUse(f), TRUE)

-----------------------------------------------------------------------------
(* PerlIOUnix_read() and PerlIOUnix_write().                               *)

Transferred(k) ==
  /\ op.at = "syscall" /\ k <= op.asked
  /\ IF f.mode = "w"
       THEN /\ op' = [op EXCEPT !.at = "flush", !.p = Least(BufSize, @ + k), !.asked = 0]
            /\ UNCHANGED f
       ELSE /\ op' = [op EXCEPT !.at = "read", !.asked = 0]
            /\ f' = [f EXCEPT !.n = k]

\* The call returns an error, or the end of the file.
Fails(h) ==
  IF h.mode = "w" THEN Back(FlushedInUse(h), FALSE) ELSE f' = h /\ op' = NoOp

SyscallFails == op.at = "syscall" /\ Fails(f)

Interrupted ==
  /\ op.at = "syscall"
  /\ f' = [f EXCEPT !.lockcnt = @ + 1]
  /\ op' = [op EXCEPT !.at = "handler"]

InHandler == op.at = "handler" /\ f.ifp /\ f.top = "on"

\* close($fh), or binmode($fh, ":pop"): the upper layer alone
HandlerRemoves(how) ==
  LET h == FlushedInUse(f)
  IN  /\ InHandler
      /\ f' = IF how = "close" THEN Closed(h) ELSE Popped(BufReleased(h), "top")
      /\ UNCHANGED op

HandlerFlush == InHandler /\ f' = FlushedInUse(f) /\ UNCHANGED op

\* A print that fills the buffer has to flush it, and fails.
HandlerWrites(count) ==
  /\ InHandler /\ f.mode = "w"
  /\ f' = [f EXCEPT !.n = IF @ + count < BufSize THEN @ + count ELSE 0]
  /\ UNCHANGED op

\* The system call is made again with the buffer it had.
HandlerReturn ==
  LET h == [perlio_async_run(f) EXCEPT !.lockcnt = @ - 1]
  IN  /\ op.at = "handler"
      /\ IF h.unix = "gone" THEN Fails(h)
         ELSE f' = h /\ op' = [op EXCEPT !.at = "syscall"]

\* The C functions are left; the savestack has S_lockcnt_dec().
HandlerDies ==
  /\ op.at = "handler"
  /\ f' = [f EXCEPT !.lockcnt = @ - 1]
  /\ op' = NoOp

Handler ==
  \/ \E how \in {"close"} \cup IF HandlerPops THEN {"pop"} ELSE {} : HandlerRemoves(how)
  \/ HandlerFlush
  \/ \E count \in 1 .. MaxCount : HandlerWrites(count)
  \/ HandlerReturn \/ HandlerDies

AsyncNext ==
  \/ \E count \in 1 .. MaxCount :
       \/ \E line \in 0 .. IF LineBuffered THEN count ELSE 0 : AsyncWrite(count, line)
       \/ AsyncRead(count)
  \/ Close \/ Open
  \/ WriteTurn \/ WriteEnds \/ ReadTurn \/ FlushTurn \/ FlushEnds
  \/ \E k \in 1 .. BufSize : Transferred(k)
  \/ SyscallFails \/ Interrupted \/ Handler

AsyncSpec == AsyncInit /\ [][AsyncNext]_async_vars

-----------------------------------------------------------------------------
(* Properties.                                                             *)

\* "If the handler does something nasty like close the handle or pop layers,
\* make sure that the read/write handles this gracefully (... principally,
\* don't segfault)", t/io/eintr.t: what the interrupted functions use when the
\* handler is back has not been freed.
UsesLiveMemory ==
  /\ op.at = "write" /\ op.count > 0 => f.buf
  /\ op.at = "syscall" => f.buf /\ f.unix = "on"
  /\ op.at # "idle" => f.top # "gone"

\* Once the calls are over, however they ended, the handle is free to be used
\* and whole, or closed with its file and its buffer.
IdleIsWhole ==
  op.at = "idle" =>
    /\ f.lockcnt = 0
    /\ f.ifp => f.isOpen /\ f.top = "on" /\ f.unix = "on"
    /\ ~f.ifp => ~f.isOpen /\ ~f.buf /\ f.unix # "on" /\ f.top # "on"

\* A signal handler may do anything to the handle whose read, write or close
\* it interrupts: nothing freed is used, and nothing is left half done.
HandlersAreHarmless == UsesLiveMemory /\ IdleIsWhole

=============================================================================
