------------------------------ MODULE SafeSignals ------------------------------
(***************************************************************************)
(* Deferred ("safe") signals, mg.c.  The C-level handler csighandler3()    *)
(* may run between any two steps of the interpreter; it only counts the    *)
(* signal.  At an opcode boundary PERL_ASYNC_CHECK() looks at the one      *)
(* counter PL_sig_pending and calls despatch_signals(), which runs the     *)
(* Perl-level handlers of %SIG in signal order.  A handler is Perl code:   *)
(* it reaches opcode boundaries of its own, assigns to %SIG, forks, dies.  *)
(*                                                                         *)
(* The C stack is a sequence of frames: a despatch_signals() loop or a     *)
(* magic_setsig() in progress.  Perl code runs when the stack is empty     *)
(* (the main program) or when its top is a loop that has called a handler. *)
(*                                                                         *)
(* One interpreter, default build: PERL_SIGNALS is not "unsafe", the       *)
(* signals are not SIGILL, SIGBUS, SIGSEGV or SIGFPE (those bypass the     *)
(* deferral), sigprocmask() and sigaction() exist.  A C-level handler that *)
(* another signal interrupts resumes after it and only adds to counters,   *)
(* so each runs in one step.                                               *)
(***************************************************************************)
EXTENDS Integers, Sequences, SequencesExt

CONSTANTS
  LastSig,   \* SIG_SIZE - 1
  DieCount,  \* SIG_PENDING_DIE_COUNT, 120 in mg.c
  MaxKills,  \* bound: signals the outside world sends
  MaxDepth   \* bound: frames on the C stack

ASSUME SignalsAssumption ==
  /\ LastSig \in Nat \ {0}
  /\ DieCount \in Nat \ {0}
  /\ MaxKills \in Nat
  /\ MaxDepth \in Nat

Sigs == 1 .. LastSig

\* What $SIG{X} can hold, apart from nothing at all: a handler, or one of the
\* two strings that magic_setsig() knows.
Settings == {"handler", "IGNORE", "DEFAULT"}

VARIABLES
  action,      \* the disposition sigaction(2) holds for each signal
  kpending,    \* signals the kernel has raised and not yet delivered
  blocked,     \* the signal mask of the process
  psig_ptr,    \* PL_psig_ptr: the cached $SIG{X}, or "NULL"
  psig_pend,   \* PL_psig_pend: signals caught and awaiting despatch
  sig_pending, \* PL_sig_pending: looked at by PERL_ASYNC_CHECK()
  frames,      \* the C stack, bottom first
  dying,       \* an exception is unwinding the stack
  status,      \* "running", or how the process ended
  kills        \* signals sent so far (bounded by MaxKills)

kernel == <<action, kpending, blocked>>
tables == <<psig_ptr, psig_pend, sig_pending>>
sig_vars ==
  <<action, kpending, blocked, psig_ptr, psig_pend, sig_pending,
    frames, dying, status, kills>>

\* A despatch_signals() frame: the loop variable, where it is, was_blocked.
Loops ==
  [fn : {"despatch"}, sig : Sigs,
   at : {"test", "block", "call", "handler"}, was_blocked : BOOLEAN]
\* A magic_setsig() frame: the signal, the new value ("NULL" when called by
\* magic_clearsig()), the mask to restore, and where it is.
Setsigs ==
  [fn : {"setsig"}, sig : Sigs, to : Settings \cup {"NULL"},
   save : SUBSET Sigs, at : {"check", "change"}]

SigTypeOK ==
  /\ action \in [Sigs -> {"csighandler", "SIG_IGN", "SIG_DFL"}]
  /\ kpending \subseteq Sigs
  /\ blocked \subseteq Sigs
  /\ psig_ptr \in [Sigs -> Settings \cup {"NULL"}]
  /\ psig_pend \in [Sigs -> Nat]
  /\ sig_pending \in Nat
  /\ frames \in Seq(Loops \cup Setsigs)
  /\ dying \in BOOLEAN
  /\ status \in {"running", "killed", "died", "exit(sig)", "destructed"}
  /\ kills \in Nat

\* %SIG has a handler for every signal; the program assigns to it later.
SigInit ==
  /\ action = [s \in Sigs |-> "csighandler"]
  /\ kpending = {}
  /\ blocked = {}
  /\ psig_ptr = [s \in Sigs |-> "handler"]
  /\ psig_pend = [s \in Sigs |-> 0]
  /\ sig_pending = 0
  /\ frames = <<>>
  /\ dying = FALSE
  /\ status = "running"
  /\ kills = 0

-----------------------------------------------------------------------------
(* The stack.                                                              *)

Top == frames[Len(frames)]

\* The function on top of the stack is fn, and it has got to place at.
TopIs(fn, at) == frames # <<>> /\ Top.fn = fn /\ Top.at = at

Pop == frames' = Front(frames)
SetTop(f) == frames' = [frames EXCEPT ![Len(frames)] = f]

\* Perl code is running: the main program, or a handler.
InPerl ==
  /\ status = "running"
  /\ ~dying
  /\ frames = <<>> \/ TopIs("despatch", "handler")

\* Interpreter C code of the frame on top is running.
InC(fn, at) ==
  /\ status = "running"
  /\ ~dying
  /\ TopIs(fn, at)

-----------------------------------------------------------------------------
(* The outside world and the C-level handler.                              *)

Kill(s) ==
  /\ status \in {"running", "destructed"}
  /\ kills < MaxKills
  /\ kills' = kills + 1
  /\ kpending' = kpending \cup {s}
  /\ UNCHANGED <<action, blocked, tables, frames, dying, status>>

\* csighandler3() in the kernel's signal frame.  The kernel blocks s while it
\* runs and unblocks it when it returns; Perl_croak() leaves it by longjmp(),
\* which does not (SCOPE_SAVES_SIGNAL_MASK is 0).
Catch(s) ==
  /\ psig_pend' = [psig_pend EXCEPT ![s] = @ + 1]
  /\ sig_pending' = sig_pending + 1
  /\ IF sig_pending + 1 >= DieCount
       THEN dying' = TRUE /\ blocked' = blocked \cup {s}
       ELSE UNCHANGED <<dying, blocked>>

\* The kernel acts on a signal that is not blocked.  A destructed interpreter
\* has no PL_psig_pend, and csighandler3() returns.
Deliver(s) ==
  /\ status \in {"running", "destructed"}
  /\ s \in kpending \ blocked
  /\ kpending' = kpending \ {s}
  /\ \/ /\ action[s] = "SIG_DFL"
        /\ status' = "killed"
        /\ UNCHANGED <<psig_pend, sig_pending, dying, blocked>>
     \/ /\ action[s] = "csighandler" /\ status = "running"
        /\ Catch(s)
        /\ UNCHANGED status
     \/ /\ action[s] # "SIG_DFL"
        /\ action[s] = "SIG_IGN" \/ status = "destructed"
        /\ UNCHANGED <<psig_pend, sig_pending, dying, blocked, status>>
  /\ UNCHANGED <<action, psig_ptr, frames, kills>>

-----------------------------------------------------------------------------
(* PERL_ASYNC_CHECK() and despatch_signals().                              *)

NewLoop == [fn |-> "despatch", sig |-> 1, at |-> "test", was_blocked |-> FALSE]

\* An opcode boundary with something pending.
AsyncCheck ==
  /\ InPerl
  /\ sig_pending > 0
  /\ Len(frames) < MaxDepth
  /\ sig_pending' = 0
  /\ frames' = Append(frames, NewLoop)
  /\ UNCHANGED <<kernel, psig_ptr, psig_pend, dying, status, kills>>

\* Mutant: the loop runs one signal too far.
NextSigPastEnd ==
  IF Top.sig <= LastSig
    THEN SetTop([Top EXCEPT !.sig = @ + 1, !.at = "test"])
    ELSE Pop

\* The loop goes on to the next signal, or the function returns.
NextSig ==
  IF Top.sig < LastSig
    THEN SetTop([Top EXCEPT !.sig = @ + 1, !.at = "test"])
    ELSE Pop

DespatchTest ==
  /\ InC("despatch", "test")
  /\ IF psig_pend[Top.sig] > 0 THEN SetTop([Top EXCEPT !.at = "block"])
                               ELSE NextSig
  /\ UNCHANGED <<kernel, tables, dying, status, kills>>

\* Mutant: the signal stays open while its handler runs.
DespatchNoBlock ==
  /\ InC("despatch", "block")
  /\ SetTop([Top EXCEPT !.at = "call", !.was_blocked = Top.sig \in blocked])
  /\ UNCHANGED <<kernel, tables, dying, status, kills>>

DespatchBlock ==
  /\ InC("despatch", "block")
  /\ blocked' = blocked \cup {Top.sig}
  /\ SetTop([Top EXCEPT !.at = "call", !.was_blocked = Top.sig \in blocked])
  /\ UNCHANGED <<action, kpending, tables, dying, status, kills>>

\* Mutant: the signal stays blocked when the frame that blocked it is left.
UnblockedNot(f) == IF f.was_blocked THEN blocked \ {f.sig} ELSE blocked

\* LEAVE: unblock_sigmask() runs if this frame was the one that blocked.
Unblocked(f) == IF f.was_blocked THEN blocked ELSE blocked \ {f.sig}

\* perly_sighandler(): with no $SIG{X} the process exits; a value that names
\* no subroutine gets a warning; otherwise the handler is called.
DespatchCall ==
  /\ InC("despatch", "call")
  /\ psig_pend' = [psig_pend EXCEPT ![Top.sig] = 0]
  /\ CASE psig_ptr[Top.sig] = "handler" ->
            /\ SetTop([Top EXCEPT !.at = "handler"])
            /\ UNCHANGED <<blocked, status>>
       [] psig_ptr[Top.sig] = "NULL" ->
            /\ status' = "exit(sig)"
            /\ UNCHANGED <<blocked, frames>>
       [] OTHER ->
            /\ blocked' = Unblocked(Top)
            /\ NextSig
            /\ UNCHANGED status
  /\ UNCHANGED <<action, kpending, psig_ptr, sig_pending, dying, kills>>

\* Mutant: despatch_signals() returns after the first handler it has called.
HandlerReturnStops ==
  /\ InPerl /\ frames # <<>>
  /\ blocked' = Unblocked(Top)
  /\ Pop
  /\ UNCHANGED <<action, kpending, tables, dying, status, kills>>

HandlerReturn ==
  /\ InPerl /\ frames # <<>>
  /\ blocked' = Unblocked(Top)
  /\ NextSig
  /\ UNCHANGED <<action, kpending, tables, dying, status, kills>>

-----------------------------------------------------------------------------
(* Exceptions.                                                             *)

Die ==
  /\ InPerl
  /\ dying' = TRUE
  /\ UNCHANGED <<kernel, tables, frames, status, kills>>

\* The Perl code on top of the stack has an eval around it.
Eval ==
  /\ status = "running" /\ dying
  /\ frames = <<>> \/ TopIs("despatch", "handler")
  /\ dying' = FALSE
  /\ UNCHANGED <<kernel, tables, frames, status, kills>>

\* It has none: perly_sighandler() catches the exception (G_EVAL) and throws
\* it again, and the frame's savestack entries run: unblock_sigmask() of a
\* loop that has blocked, restore_sigmask() of a magic_setsig().
Unwind ==
  /\ status = "running" /\ dying
  /\ frames # <<>>
  /\ blocked' = CASE Top.fn = "setsig" -> Top.save
                  [] TopIs("despatch", "call") -> Unblocked(Top)
                  [] TopIs("despatch", "handler") -> Unblocked(Top)
                  [] OTHER -> blocked
  /\ Pop
  /\ UNCHANGED <<action, kpending, tables, dying, status, kills>>

\* The main program has none either.
DieUncaught ==
  /\ status = "running" /\ dying
  /\ frames = <<>>
  /\ status' = "died"
  /\ UNCHANGED <<kernel, tables, frames, dying, kills>>

-----------------------------------------------------------------------------
(* Assignment to %SIG: magic_setsig(), magic_clearsig().                   *)

SetSigEnter(s, new) ==
  /\ InPerl
  /\ Len(frames) + 1 < MaxDepth   \* room for the loop of SetSigCheck
  /\ blocked' = blocked \cup {s}
  /\ frames' = Append(frames, [fn |-> "setsig", sig |-> s, to |-> new,
                               save |-> blocked, at |-> "check"])
  /\ UNCHANGED <<action, kpending, tables, dying, status, kills>>

\* PERL_ASYNC_CHECK() with the signal blocked.
SetSigCheck ==
  /\ InC("setsig", "check")
  /\ IF sig_pending > 0
       THEN /\ sig_pending' = 0
            /\ frames' = Append(Front(frames), [Top EXCEPT !.at = "change"])
                           \o <<NewLoop>>
       ELSE /\ SetTop([Top EXCEPT !.at = "change"])
            /\ UNCHANGED sig_pending
  /\ UNCHANGED <<kernel, psig_ptr, psig_pend, dying, status, kills>>

Disposition(to) ==
  CASE to = "handler" -> "csighandler"
    [] to = "IGNORE"  -> "SIG_IGN"
    [] OTHER          -> "SIG_DFL"

\* rsignal() and restore_sigmask().  SIG_IGN discards what is pending.
SetSigChange ==
  /\ InC("setsig", "change")
  /\ psig_ptr' = [psig_ptr EXCEPT ![Top.sig] = Top.to]
  /\ action' = [action EXCEPT ![Top.sig] = Disposition(Top.to)]
  /\ kpending' = IF Top.to = "IGNORE" THEN kpending \ {Top.sig} ELSE kpending
  /\ blocked' = Top.save
  /\ Pop
  /\ UNCHANGED <<psig_pend, sig_pending, dying, status, kills>>

-----------------------------------------------------------------------------
(* fork() and the end of the interpreter.                                  *)

\* Mutant: the child resets the flag and keeps the records.
ForkKeepsRecords ==
  /\ InPerl
  /\ kpending' = {}
  /\ sig_pending' = 0
  /\ UNCHANGED <<action, blocked, psig_ptr, psig_pend, frames, dying, status, kills>>

\* The process is from here on the child of the one it was: pp_fork() blocks
\* every signal around fork() and empties the counters in the child, and the
\* kernel starts a child with nothing pending.
Fork ==
  /\ InPerl
  /\ kpending' = {}
  /\ psig_pend' = [s \in Sigs |-> 0]
  /\ sig_pending' = 0
  /\ UNCHANGED <<action, blocked, psig_ptr, frames, dying, status, kills>>

\* perl_destruct(): PL_psig_ptr and PL_psig_pend are gone.
Destruct ==
  /\ InPerl
  /\ frames = <<>>
  /\ status' = "destructed"
  /\ psig_ptr' = [s \in Sigs |-> "NULL"]
  /\ psig_pend' = [s \in Sigs |-> 0]
  /\ UNCHANGED <<kernel, sig_pending, frames, dying, kills>>

-----------------------------------------------------------------------------

Despatch == DespatchTest \/ DespatchBlock \/ DespatchCall
SetSig == SetSigCheck \/ SetSigChange

SigNext ==
  \/ \E s \in Sigs : Kill(s) \/ Deliver(s)
  \/ AsyncCheck \/ Despatch \/ HandlerReturn
  \/ Die \/ Eval \/ Unwind \/ DieUncaught
  \/ \E s \in Sigs, new \in Settings \cup {"NULL"} : SetSigEnter(s, new)
  \/ SetSig
  \/ Fork \/ Destruct

SigSpec == SigInit /\ [][SigNext]_sig_vars

\* Opcode boundaries keep coming, C code runs on, and a handler that is
\* reached again and again comes to its end at some time.  Nothing is assumed
\* of the outside world, of assignments to %SIG or of exceptions.
SigFairness ==
  /\ SF_sig_vars(AsyncCheck)
  /\ WF_sig_vars(Despatch)
  /\ SF_sig_vars(HandlerReturn)
  /\ WF_sig_vars(SetSig)

SigFairSpec == SigSpec /\ SigFairness

-----------------------------------------------------------------------------
(* Properties.                                                             *)

Recorded(s) == psig_pend[s] > 0

\* Something will still look at PL_psig_pend[s]: PERL_ASYNC_CHECK(), or a loop
\* that has not come past s.
Ahead(f, s) ==
  /\ f.fn = "despatch"
  /\ f.sig < s \/ (f.sig = s /\ f.at # "handler")
Noticed(s) == sig_pending > 0 \/ \E k \in DOMAIN frames : Ahead(frames[k], s)

\* pod/perlipc.pod, "Long-running opcodes": the handler of a signal that
\* fires during an opcode is called after the opcode completes.  So a signal
\* recorded in PL_psig_pend is always one that something will look at.
RecordedIsNoticed == status = "running" => \A s \in Sigs : Recorded(s) => Noticed(s)

\* Only an exception that unwinds a despatch_signals() loop can make the
\* interpreter overlook a signal it has recorded.
OnlyADieStrands ==
  [][~dying => \A s \in Sigs :
       Recorded(s) /\ Noticed(s) =>
         (Recorded(s) /\ status = "running" => Noticed(s))']_sig_vars

HandlerOf(f, s) == f.fn = "despatch" /\ f.at = "handler" /\ f.sig = s

\* While a handler runs its own signal is blocked, whatever other handlers
\* and assignments to %SIG run inside it (the comment in despatch_signals()).
HandlerBlocksItsSignal ==
  \A k \in DOMAIN frames :
    frames[k].fn = "despatch" /\ frames[k].at = "handler" => frames[k].sig \in blocked

\* So a handler is never entered again before it has returned.
NoReentrance ==
  \A s \in Sigs, j, k \in DOMAIN frames :
    HandlerOf(frames[j], s) /\ HandlerOf(frames[k], s) => j = k

\* The main program runs with the signal mask it started with: no handler,
\* no assignment to %SIG and no exception that leaves one of them behind
\* leaves a signal blocked (t/op/sigdispatch.t tests it after a die), as long
\* as fewer signals come than the limit on pending ones.
MaskRestored ==
  status = "running" /\ frames = <<>> /\ ~dying /\ kills < DieCount => blocked = {}

\* As long as nothing dies, a signal that was caught under one setting of
\* $SIG{X} is not left to be handled under the next: the main program's
\* assignment takes effect with nothing recorded for the signal.
AssignedWhenDrained ==
  [](~dying) =>
    [](TopIs("setsig", "change") /\ Len(frames) = 1 => ~Recorded(Top.sig))

\* As long as nothing dies, every signal that is recorded is given to its
\* handler, or the process ends.
CaughtIsHandled ==
  [](~dying) => \A s \in Sigs : Recorded(s) ~> (~Recorded(s) \/ status # "running")

\* What is caught is handled, and by the handler it was caught for.
RecordsAreHandled == CaughtIsHandled /\ AssignedWhenDrained

=============================================================================
