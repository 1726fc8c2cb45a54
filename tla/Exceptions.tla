------------------------------- MODULE Exceptions -------------------------------
(***************************************************************************)
(* die, eval and exit: the two stacks that have to agree.                  *)
(*                                                                         *)
(* Subs, evals and what is to be done when they are left are on a stack of *)
(* Perl's; the loops that run their ops are C functions on the C stack.  A *)
(* function that calls CALLRUNOPS() either catches with JMPENV_PUSH() or   *)
(* says with CATCH_SET() that it does not, and then an eval brings its own *)
(* catcher and loop, docatch().  die_unwind() pops Perl's stack to the     *)
(* innermost eval, and longjmp()s to the innermost catcher, which takes    *)
(* the error or passes it on.                                              *)
(***************************************************************************)
EXTENDS Integers, Sequences, SequencesExt

CONSTANTS
  MaxDepth_c,    \* bound: active C functions
  MaxDepth_cx,   \* bound: entries of Perl's stack
  Errors,        \* what is died with
  Stringifies,   \* "..." of an error runs Perl code, which may die
  ExitsOverTied  \* exit is called although a tied variable is localized

ASSUME ExceptionsAssumption ==
  /\ MaxDepth_c \in Nat \ {0} /\ MaxDepth_cx \in Nat
  /\ Errors \subseteq Nat \ {0} /\ {Stringifies, ExitsOverTied} \subseteq BOOLEAN

VARIABLES
  cstack,   \* C functions, innermost last; in base, how much of Perl's stack
            \* there was before (for leave, will be after); catch is je_mustcatch
            \* of a catcher, oldcatch of call_sv(); err is what die_unwind() has
  cxstack,  \* subs, evals, and the bounds of stackinfos, innermost last
  ctl,      \* what the innermost function is at; for run, the function whose
            \* loop the next op belongs to
  errsv,    \* $@, or 0
  restart   \* PL_restartjmpenv; and for PL_restartop the function whose loop it
            \* belongs to, or 0

exception_vars == <<cstack, cxstack, ctl, errsv, restart>>

Envs  == {"perl_run", "docatch", "call_sv_eval", "yyparse", "call_list"}
Loops == {"perl_run", "docatch", "call_sv_eval", "call_sv"}
Unwinders == {"leave", "die_unwind", "my_exit"}

ExceptionTypeOK ==
  /\ cstack \in Seq([fn : Envs \cup Loops \cup Unwinders, catch : BOOLEAN,
                     base : 0 .. MaxDepth_cx, err : {0} \cup Errors])
  /\ cxstack \in Seq([type : {"sub", "eval", "stackinfo"}, retop : BOOLEAN, keeperr : BOOLEAN,
                      env : 0 .. MaxDepth_c, loop : 0 .. MaxDepth_c,
                      onleave : {"", "DESTROY", "STORE"}])
  /\ ctl \in [at : {"run", "work", "null", "jump2", "jump3", "exited"}, loop : 0 .. MaxDepth_c]
  /\ errsv \in {0} \cup Errors
  /\ restart \in [env : 0 .. MaxDepth_c, loop : 0 .. MaxDepth_c]

-----------------------------------------------------------------------------
(* The stacks.                                                             *)

Entered(fn) == [fn |-> fn, catch |-> FALSE, base |-> Len(cxstack), err |-> 0]
Cx(type, retop) ==
  [type |-> type, retop |-> retop, keeperr |-> FALSE, env |-> 0, loop |-> 0, onleave |-> ""]

Inner == Last(cstack)
Innermost(fns) == ctl.at = "work" /\ Inner.fn \in fns
InLoop == ctl.at = "run"

Run(n) == ctl' = [at |-> "run", loop |-> n]
Goto(at) == ctl' = [at |-> at, loop |-> 0]

\* The caller of a function goes on: an op of its loop, or C code.
GoesOn(fs) == IF Last(fs).fn \in Loops THEN Run(Len(fs)) ELSE Goto("work")

RoomFor(functions, entries) ==
  Len(cstack) + functions <= MaxDepth_c /\ Len(cxstack) + entries <= MaxDepth_cx

\* PL_top_env
TopEnv(fs) == CHOOSE e \in DOMAIN fs : /\ fs[e].fn \in Envs
                                       /\ \A i \in e + 1 .. Len(fs) : fs[i].fn \notin Envs

ExceptionInit ==
  /\ cxstack = <<>> /\ errsv = 0
  /\ cstack = <<[fn |-> "perl_run", catch |-> FALSE, base |-> 0, err |-> 0]>>
  /\ ctl = [at |-> "run", loop |-> 1]
  /\ restart = [env |-> 0, loop |-> 0]

\* Mutant: CATCH_SET() is not called.
CallPlainSilently(cxs) ==
  /\ cstack' = Append(cstack, [Entered("call_sv") EXCEPT !.catch = cstack[TopEnv(cstack)].catch])
  /\ cxstack' = cxs \o <<Cx("stackinfo", FALSE), Cx("sub", FALSE)>>
  /\ Run(Len(cstack'))

\* call_sv() without G_EVAL, in a stackinfo of its own: a method of a tied
\* variable, a sub of overload, the block of a sort.
CallPlain(cxs) ==
  LET e == TopEnv(cstack)
  IN  /\ cstack' = Append([cstack EXCEPT ![e].catch = TRUE],
                          [Entered("call_sv") EXCEPT !.catch = cstack[e].catch])
      /\ cxstack' = cxs \o <<Cx("stackinfo", FALSE), Cx("sub", FALSE)>>
      /\ Run(Len(cstack'))

\* call_sv() with G_EVAL: create_eval_scope() before JMPENV_PUSH().
CallEval(fs, cxs, keeperr) ==
  /\ cxstack' = cxs \o <<[Cx("eval", FALSE) EXCEPT !.keeperr = keeperr, !.env = TopEnv(fs)],
                         Cx("sub", FALSE)>>
  /\ cstack' = Append(fs, [Entered("call_sv_eval") EXCEPT !.base = Len(cxs)])
  /\ errsv' = IF keeperr THEN errsv ELSE 0
  /\ Run(Len(cstack'))

-----------------------------------------------------------------------------
(* Ops.                                                                    *)

EnterSub ==
  /\ InLoop /\ RoomFor(0, 1)
  /\ cxstack' = Append(cxstack, Cx("sub", TRUE))
  /\ UNCHANGED <<cstack, ctl, errsv, restart>>

\* The block gets an object to destroy, or a tied variable to restore.
AtLeave(what) ==
  /\ InLoop /\ cxstack # <<>> /\ Last(cxstack).onleave = ""
  /\ cxstack' = [cxstack EXCEPT ![Len(cxstack)].onleave = what]
  /\ UNCHANGED <<cstack, ctl, errsv, restart>>

\* Mutant: an eval is always in the loop that is there.
NeverCatches == cstack

\* docatch() if the catcher does not catch for this loop
Catching == IF cstack[TopEnv(cstack)].catch THEN Append(cstack, Entered("docatch")) ELSE cstack

PushEval(fs) ==
  /\ cxstack' = Append(cxstack, [Cx("eval", TRUE) EXCEPT !.env = TopEnv(fs), !.loop = Len(fs)])
  /\ errsv' = 0

\* pp_entertry()
EnterTry ==
  /\ InLoop /\ RoomFor(1, 1)
  /\ cstack' = Catching
  /\ PushEval(Catching)
  /\ Run(Len(Catching))
  /\ UNCHANGED restart

\* pp_entereval(): the string is compiled by try_yyparse().
EnterEval ==
  /\ InLoop /\ RoomFor(2, 1)
  /\ PushEval(Catching)
  /\ cstack' = Append(Catching, [Entered("yyparse") EXCEPT !.base = Len(cxstack) + 1])
  /\ Goto("work")
  /\ UNCHANGED restart

CallTied ==
  /\ InLoop /\ RoomFor(1, 2)
  /\ CallPlain(cxstack)
  /\ UNCHANGED <<errsv, restart>>

Unwind(fs, fn, err) ==
  /\ cstack' = Append(fs, [Entered(fn) EXCEPT !.err = err])
  /\ Goto("work")

\* die_unwind() sets $@ for destructors to look at.
DieWith(fs, err) ==
  LET evals == {k \in DOMAIN cxstack : cxstack[k].type = "eval"}
  IN  /\ Unwind(fs, IF evals = {} THEN "my_exit" ELSE "die_unwind", IF evals = {} THEN 0 ELSE err)
      /\ errsv' = IF evals # {} /\ ~cxstack[CHOOSE k \in evals : \A i \in evals : i <= k].keeperr
                    THEN err ELSE errsv
      /\ UNCHANGED <<cxstack, restart>>

Die(err) == InLoop /\ RoomFor(1, 0) /\ DieWith(cstack, err)

CallExit ==
  /\ InLoop /\ RoomFor(1, 0)
  /\ ExitsOverTied \/ \A k \in DOMAIN cxstack : cxstack[k].onleave # "STORE"
  /\ Unwind(cstack, "my_exit", 0)
  /\ UNCHANGED <<cxstack, errsv, restart>>

\* The sub or eval ends, or last leaves a block around it as well: the
\* blocks of this stackinfo can be left.
LeaveTo(base) ==
  /\ InLoop /\ RoomFor(1, 0)
  /\ \/ base = Len(cxstack) - 1
     \/ /\ \A k \in base + 1 .. Len(cxstack) : cxstack[k].type # "stackinfo" /\ cxstack[k].retop
        /\ cxstack[base + 1].type = "sub"
  /\ cstack' = Append(cstack, [Entered("leave") EXCEPT !.base = base])
  /\ Goto("work")
  /\ UNCHANGED <<cxstack, errsv, restart>>

\* The end of the main program.
MainEnds ==
  /\ InLoop /\ cxstack = <<>>
  /\ Goto("null")
  /\ UNCHANGED <<cstack, cxstack, errsv, restart>>

-----------------------------------------------------------------------------
(* Leaving.                                                                *)

\* LEAVE_SCOPE(): what is done is taken off first, and runs Perl code.
LeaveScope ==
  LET cxs == [cxstack EXCEPT ![Len(cxstack)].onleave = ""]
  IN  /\ Innermost(Unwinders) /\ cxstack # <<>> /\ RoomFor(1, 3)
      /\ \/ /\ Last(cxstack).onleave = "DESTROY"
            /\ CallEval(cstack, Append(cxs, Cx("stackinfo", FALSE)), TRUE)
         \/ Last(cxstack).onleave = "STORE" /\ CallPlain(cxs) /\ UNCHANGED errsv
      /\ UNCHANGED restart

Leaves(fn) == Innermost({fn}) /\ cxstack # <<>> /\ Last(cxstack).onleave = ""

\* pp_leavesub(), pp_leavetry(); a sub that C has called ends the loop.
Leave1 ==
  LET cx == Last(cxstack)
  IN  /\ Leaves("leave")
      /\ cxstack' = Front(cxstack)
      /\ IF Len(cxstack') > Inner.base
           THEN UNCHANGED <<cstack, ctl, errsv>>
           ELSE /\ cstack' = Front(cstack)
                /\ errsv' = IF cx.type = "eval" THEN 0 ELSE errsv
                /\ IF cx.retop THEN GoesOn(cstack') ELSE Goto("null")
      /\ UNCHANGED restart

\* Mutant: $@ is set before the unwinding only.
Unwind1Early ==
  LET cx == Last(cxstack)
  IN  /\ Leaves("die_unwind")
      /\ cxstack' = Front(cxstack)
      /\ IF cx.type = "eval"
           THEN restart' = [env |-> cx.env, loop |-> cx.loop] /\ Goto("jump3")
           ELSE UNCHANGED <<ctl, restart>>
      /\ UNCHANGED <<cstack, errsv>>

\* die_unwind(): stackinfos are left, too; $@ is set when the eval is popped.
Unwind1 ==
  LET cx == Last(cxstack)
  IN  /\ Leaves("die_unwind")
      /\ cxstack' = Front(cxstack)
      /\ IF cx.type = "eval"
           THEN /\ errsv' = IF cx.keeperr THEN errsv ELSE Inner.err
                /\ restart' = [env |-> cx.env, loop |-> cx.loop]
                /\ Goto("jump3")
           ELSE UNCHANGED <<ctl, errsv, restart>>
      /\ UNCHANGED cstack

\* my_exit_jump()
Exit1 ==
  /\ IF cxstack = <<>> THEN /\ Innermost({"my_exit"})
                            /\ Goto("jump2") /\ UNCHANGED cxstack
                       ELSE /\ Leaves("my_exit")
                            /\ cxstack' = Front(cxstack) /\ UNCHANGED ctl
  /\ UNCHANGED <<cstack, errsv, restart>>

-----------------------------------------------------------------------------
(* A loop has ended: there is no next op.                                  *)

LoopEnds ==
  LET out == Front(cstack)
      back == SubSeq(cxstack, 1, Inner.base)
  IN  /\ ctl.at = "null"
      /\ \/ Inner.fn = "docatch" /\ cstack' = out /\ UNCHANGED <<cxstack, ctl, errsv>>
         \/ /\ Inner.fn = "call_sv"
            /\ cstack' = [out EXCEPT ![TopEnv(out)].catch = Inner.catch]
            /\ cxstack' = back /\ GoesOn(out) /\ UNCHANGED errsv
         \/ /\ Inner.fn = "call_sv_eval"
            /\ cstack' = out /\ cxstack' = back /\ GoesOn(out)
            /\ errsv' = IF Last(cxstack).keeperr THEN errsv ELSE 0
         \/ Inner.fn = "perl_run" /\ Unwind(cstack, "my_exit", 0) /\ UNCHANGED <<cxstack, errsv>>
      /\ UNCHANGED restart

-----------------------------------------------------------------------------
(* The catchers.                                                           *)

\* longjmp() to PL_top_env: the functions above it are gone, and the rest
\* of JMPENV_PUSH() is run.
Landed == [SubSeq(cstack, 1, TopEnv(cstack)) EXCEPT ![TopEnv(cstack)].catch = FALSE]

Jumps(level) == ctl.at = (IF level = 2 THEN "jump2" ELSE "jump3")
Catches(fn, level) == Jumps(level) /\ Last(Landed).fn = fn

Resume ==
  /\ cstack' = Landed /\ Run(restart.loop)
  /\ restart' = [env |-> 0, loop |-> 0]
  /\ UNCHANGED <<cxstack, errsv>>

\* Mutant: docatch() does not compare PL_restartjmpenv.
TakenByAny == restart.loop # 0

\* docatch() takes the errors of evals that were entered under it.
TakenByDocatch == restart.env = Len(Landed)

DocatchCatches ==
  /\ \E level \in {2, 3} : Catches("docatch", level)
  /\ \/ /\ Jumps(3) /\ TakenByDocatch
        /\ IF restart.loop # 0
             THEN Resume
             ELSE /\ cstack' = Front(Landed) /\ Goto("null")
                  /\ UNCHANGED <<cxstack, errsv, restart>>
     \/ /\ Jumps(2) \/ ~TakenByDocatch
        /\ cstack' = Front(Landed) /\ UNCHANGED <<cxstack, ctl, errsv, restart>>

\* call_sv() with G_EVAL; an eval of its own has no op to restart.
CallCatches ==
  \/ Catches("call_sv_eval", 3) /\ restart.loop # 0 /\ Resume
  \/ /\ Catches("call_sv_eval", 3) /\ restart.loop = 0
     /\ cstack' = Front(Landed) /\ cxstack' = SubSeq(cxstack, 1, Last(Landed).base)
     /\ GoesOn(cstack') /\ UNCHANGED <<errsv, restart>>
  \/ /\ Catches("call_sv_eval", 2)
     /\ Unwind(Front(Landed), "my_exit", 0) /\ UNCHANGED <<cxstack, errsv, restart>>

RunCatches ==
  \/ Catches("perl_run", 3) /\ restart.loop # 0 /\ Resume
  \/ /\ Catches("perl_run", 2) \/ (Catches("perl_run", 3) /\ restart.loop = 0)
     /\ cstack' = Landed /\ Goto("exited") /\ UNCHANGED <<cxstack, errsv, restart>>

\* try_yyparse(): the eval is popped, and what follows it is run.
ParseCatches ==
  \/ /\ Catches("yyparse", 3)
     /\ cstack' = Front(Landed) /\ Run(Len(cstack'))
     /\ restart' = [env |-> 0, loop |-> 0] /\ UNCHANGED <<cxstack, errsv>>
  \/ Catches("yyparse", 2) /\ cstack' = Front(Landed) /\ UNCHANGED <<cxstack, ctl, errsv, restart>>

\* call_list() jumps again, without JMPENV_POP().
ListCatches ==
  \/ /\ Catches("call_list", 3) /\ restart.loop # 0
     /\ cstack' = Landed /\ UNCHANGED <<cxstack, ctl, errsv, restart>>
  \/ /\ Catches("call_list", 2)
     /\ Unwind(Front(Landed), "my_exit", 0) /\ UNCHANGED <<cxstack, errsv, restart>>

-----------------------------------------------------------------------------
(* Compiling.                                                              *)

\* BEGIN { }, with a stackinfo of its own, by call_list().
Begin ==
  /\ Innermost({"yyparse"}) /\ RoomFor(2, 3)
  /\ CallEval(Append(cstack, Entered("call_list")),
              Append(cxstack, Cx("stackinfo", FALSE)), FALSE)
  /\ UNCHANGED restart

\* BEGIN has returned, or left an error: compilation is aborted.
ListGoesOn ==
  /\ Innermost({"call_list"})
  /\ \/ /\ errsv = 0
        /\ cstack' = Front(cstack) /\ cxstack' = Front(cxstack)
        /\ UNCHANGED <<ctl, errsv, restart>>
     \/ errsv # 0 /\ DieWith(Front(cstack), errsv)
     \/ /\ errsv # 0 /\ Stringifies /\ RoomFor(1, 2)
        /\ CallPlain(cxstack) /\ UNCHANGED <<errsv, restart>>

Parsed ==
  /\ Innermost({"yyparse"})
  /\ cstack' = Front(cstack) /\ GoesOn(cstack')
  /\ UNCHANGED <<cxstack, errsv, restart>>

-----------------------------------------------------------------------------

Lands == DocatchCatches \/ CallCatches \/ RunCatches \/ ParseCatches \/ ListCatches

ExceptionNext ==
  \/ EnterSub \/ EnterTry \/ EnterEval \/ CallTied \/ CallExit \/ MainEnds
  \/ \E what \in {"DESTROY", "STORE"} : AtLeave(what)
  \/ \E err \in Errors : Die(err)
  \/ \E base \in 0 .. Len(cxstack) - 1 : LeaveTo(base)
  \/ LeaveScope \/ Leave1 \/ Unwind1 \/ Exit1 \/ LoopEnds
  \/ Begin \/ ListGoesOn \/ Parsed \/ Lands

ExceptionSpec == ExceptionInit /\ [][ExceptionNext]_exception_vars
FairExceptionSpec == ExceptionSpec /\ WF_exception_vars(Lands)

-----------------------------------------------------------------------------
(* Properties.                                                             *)

\* "If an exception occurs, control passes back to the caller of the loop,
\* which just immediately restarts a new loop" (perlinterp.pod): an op runs in
\* the loop of the function that has run the eval around it.
RestartsInItsLoop == InLoop => ctl.loop = Len(cstack)

\* A catcher's flag is up exactly while a loop that it does not restart runs
\* under it: an eval that trusts the flag is caught in the right place.
FlagsAreRight ==
  ctl.at \in {"run", "work", "null"} =>
    \A e \in DOMAIN cstack : cstack[e].fn \in Envs =>
      (cstack[e].catch <=>
         \E j \in e + 1 .. Len(cstack) : /\ cstack[j].fn = "call_sv"
                                         /\ \A i \in e + 1 .. j : cstack[i].fn \notin Envs)

\* When C code has called Perl code and goes on, Perl's stack is what it was,
\* whatever evals and errors there were in between.
StacksAgree ==
  /\ ctl.at = "null" =>
       /\ Inner.fn = "call_sv" => Len(cxstack) = Inner.base + 1
       /\ Inner.fn = "call_sv_eval" => /\ Len(cxstack) = Inner.base + 1
                                       /\ Last(cxstack).type = "eval"
       /\ Inner.fn = "perl_run" => cxstack = <<>>
  /\ Jumps(3) /\ restart.loop = 0 /\ Last(Landed).fn = "call_sv_eval" =>
       Len(cxstack) = Last(Landed).base

\* The eval is left with the error in $@, although destructors that run
\* during the unwinding use eval themselves.
ErrorArrives ==
  Jumps(3) /\ Inner.fn = "die_unwind" /\ restart.loop # 0 => errsv = Inner.err

\* die takes a program to the end of the innermost eval and nowhere else.
EvalsAreCaught ==
  RestartsInItsLoop /\ FlagsAreRight /\ StacksAgree /\ ErrorArrives

\* "in the case of a 3, start a new runops loop to execute PL_restartop and
\* all remaining ops" (perlinterp.pod): a jump comes to an end.
JumpLands == Jumps(3) ~> ~Jumps(3)

=============================================================================
