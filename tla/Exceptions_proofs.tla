---------------------------- MODULE Exceptions_proofs ----------------------------
(***************************************************************************)
(* What TLAPS proves of Exceptions: for any depth of either stack and any  *)
(* nesting of evals, destructors, tied variables, compilation and exit,    *)
(* die takes a program to the end of the innermost eval.                   *)
(*                                                                         *)
(* fs and cxs stand for the stack of C functions and for Perl's, before or *)
(* after a step.                                                           *)
(***************************************************************************)
EXTENDS MCThreads, Threads_proofs, CodeTable_proofs, SequenceTheorems, WellFoundedInduction, TLAPS

-----------------------------------------------------------------------------
(* The invariant: the stack of C functions by itself.                      *)

CallFns == {"call_sv", "call_sv_eval"}
Fns == Envs \cup Loops \cup Unwinders

CFrames == [fn : Fns, catch : BOOLEAN, base : 0 .. MaxDepth_cx, err : {0} \cup Errors]
Entries == [type : {"sub", "eval", "stackinfo"}, retop : BOOLEAN, keeperr : BOOLEAN,
            env : 0 .. MaxDepth_c, loop : 0 .. MaxDepth_c, onleave : {"", "DESTROY", "STORE"}]

Bottom(fs) ==
  /\ Len(fs) > 0 /\ fs[1].fn = "perl_run" /\ fs[1].base = 0
  /\ \A i \in 2 .. Len(fs) : fs[i].fn # "perl_run"

\* A catcher's flag is up while a call_sv() waits under it, and that call_sv()
\* has kept the flag that there was.
Waits(fs, e, n) ==
  \E j \in e + 1 .. n : fs[j].fn = "call_sv" /\ \A i \in e + 1 .. j : fs[i].fn \notin Envs
CatchFlags(fs) ==
  \A e \in 1 .. Len(fs) : fs[e].fn \in Envs => (fs[e].catch <=> Waits(fs, e, Len(fs)))
CallOver(fs, m) ==
  \E i \in 1 .. m : fs[i].fn = "call_sv" /\ \A q \in i .. m : fs[q].fn \notin Envs
OldFlags(fs) ==
  \A j \in 1 .. Len(fs) : fs[j].fn = "call_sv" => (fs[j].catch <=> CallOver(fs, j - 1))

\* Which function is above which.
Callers(fn) ==
  CASE fn \in {"docatch", "leave", "yyparse"} -> Loops
    [] fn \in {"die_unwind", "my_exit"} -> Loops \cup {"yyparse"}
    [] fn = "call_list" -> {"yyparse"}
    [] fn = "call_sv" -> Loops \cup Unwinders \cup {"call_list"}
    [] fn = "call_sv_eval" -> Unwinders \cup {"call_list"}
    [] fn = "perl_run" -> {}
Under(fs) == \A j \in 2 .. Len(fs) : fs[j - 1].fn \in Callers(fs[j].fn)

\* The function whose sub the loop of i runs is below the docatch()es; it needs
\* n entries to have its own there, and leaves all but one of them when it ends.
LoopFor(fs, r, i) ==
  /\ r \in 1 .. i /\ fs[r].fn \in {"perl_run"} \cup CallFns
  /\ \A q \in r + 1 .. i : fs[q].fn = "docatch"
MayRun(fs, i, n) ==
  \A r \in 1 .. i : LoopFor(fs, r, i) => fs[r].fn = "perl_run" \/ n >= fs[r].base + 2
HasEnded(fs, i, n) ==
  \A r \in 1 .. i : LoopFor(fs, r, i) =>
    n = IF fs[r].fn = "perl_run" THEN 0 ELSE fs[r].base + 1

\* The entries that a function will not touch.
Low(f) == IF f.fn = "call_sv_eval" THEN f.base - 1 ELSE f.base

Heights(fs) ==
  \A j \in 2 .. Len(fs) :
    /\ fs[j - 1].fn \in Loops =>
         \/ MayRun(fs, j - 1, fs[j].base)
         \/ fs[j].fn = "leave" /\ HasEnded(fs, j - 1, fs[j].base)
    /\ fs[j].fn = "call_list" => fs[j].base = fs[j - 1].base
    /\ fs[j - 1].fn = "call_list" => fs[j].base = fs[j - 1].base + 1
    /\ fs[j - 1].fn = "leave" => Low(fs[j]) >= fs[j - 1].base + 1
    /\ fs[j].fn \in {"yyparse", "call_sv_eval"} => fs[j].base > 0

\* Functions whose first entry stays until they are left, unless by exit.
NoExit(fs, a, b) == \A i \in a .. b : fs[i].fn # "my_exit"
Guarded(fs, i) ==
  \/ fs[i].fn \in {"call_sv_eval", "yyparse"}
  \/ fs[i].fn = "call_sv" /\ i > 1 /\ fs[i - 1].fn = "my_exit"
Guard(f) == IF f.fn = "yyparse" THEN f.base ELSE f.base + 1
Above(fs) ==
  \A i, j \in 1 .. Len(fs) :
    i < j /\ Guarded(fs, i) /\ NoExit(fs, i + 1, j - 1) => Low(fs[j]) >= Guard(fs[i])

Static(fs) == Bottom(fs) /\ Under(fs) /\ Heights(fs) /\ Above(fs)

-----------------------------------------------------------------------------
(* The invariant: both stacks.                                             *)

\* The entries of a function are those between its base and the next one's.
Expected(f, p, cx) ==
  /\ f.fn = "perl_run" => cx.retop
  /\ f.fn \in CallFns /\ p > f.base + 1 => (cx.retop <=> p > f.base + 2)
Zones(fs, cxs, n) ==
  \A i \in 1 .. Len(fs), p \in 1 .. n :
    /\ fs[i].fn \in {"perl_run"} \cup CallFns /\ p > fs[i].base
    /\ \A j \in i + 1 .. Len(fs) : fs[j].fn \notin {"docatch", "leave"} => p <= Low(fs[j])
    => Expected(fs[i], p, cxs[p])

Kept(fs, cxs, i) ==
  /\ Len(cxs) >= Guard(fs[i])
  /\ fs[i].fn = "call_sv_eval" =>
       /\ cxs[fs[i].base].type = "stackinfo" /\ cxs[fs[i].base].onleave = ""
       /\ cxs[Guard(fs[i])].type = "eval" /\ cxs[Guard(fs[i])].loop = 0
  /\ fs[i].fn = "yyparse" => cxs[Guard(fs[i])].type = "eval" /\ cxs[Guard(fs[i])].loop = i - 1
  /\ fs[i].fn = "call_sv" => cxs[Guard(fs[i])].type # "eval"
Guards(fs, cxs, u) ==
  \A i \in 1 .. u : Guarded(fs, i) /\ NoExit(fs, i + 1, Len(fs)) => Kept(fs, cxs, i)

\* Each eval belongs to the function in whose loop it is, or which has made it.
Owner(fs, k, cx, n) ==
  /\ n \in 1 .. Len(fs)
  /\ \A i \in n + 1 .. Len(fs) : fs[i].fn # "leave" => fs[i].base >= k
  /\ IF cx.loop = 0
       THEN fs[n].fn = "call_sv_eval" /\ fs[n].base + 1 = k /\ cx.env < n
       ELSE /\ cx.loop = n /\ cx.env = n /\ ~cx.keeperr
            /\ fs[n].fn \in {"perl_run", "docatch", "call_sv_eval"} /\ MayRun(fs, n, k - 1)
Evals(fs, cxs) ==
  \A k \in 1 .. Len(cxs) : cxs[k].type = "eval" => \E n \in 1 .. Len(fs) : Owner(fs, k, cxs[k], n)
Ordered(fs, cxs) ==
  \A k, l \in 1 .. Len(cxs), m, n \in 1 .. Len(fs) :
    /\ k < l /\ cxs[k].type = "eval" /\ Owner(fs, k, cxs[k], m)
    /\ cxs[l].type = "eval" /\ Owner(fs, l, cxs[l], n)
    => m <= n /\ (cxs[l].loop = 0 => m < n)

\* die_unwind() has an eval to go to, also when what it calls has returned.
Dies(fs, cxs, u) ==
  \A d \in 1 .. u : fs[d].fn = "die_unwind" /\ NoExit(fs, d + 1, Len(fs)) =>
    \E p \in 1 .. Len(cxs) :
      /\ d < Len(fs) => p <= Low(fs[d + 1])
      /\ cxs[p].type = "eval" /\ \E n \in 1 .. d - 1 : Owner(fs, p, cxs[p], n)

\* What exit has still to leave has no eval, or nothing that may die.
NoEval(cxs, n) == \A p \in 1 .. Len(cxs) : p <= n => cxs[p].type # "eval"
NoStore(cxs, n) == \A p \in 1 .. Len(cxs) : p <= n => cxs[p].onleave # "STORE"
ExitsClean(fs, cxs) ==
  \A x \in 1 .. Len(fs) : fs[x].fn = "my_exit" /\ NoExit(fs, x + 1, Len(fs)) =>
    /\ x = Len(fs) => NoEval(cxs, Len(cxs)) \/ NoStore(cxs, Len(cxs))
    /\ x < Len(fs) /\ fs[x + 1].fn = "call_sv" => NoEval(cxs, fs[x + 1].base)
    /\ x < Len(fs) /\ fs[x + 1].fn = "call_sv_eval" =>
         NoEval(cxs, fs[x + 1].base) \/ NoStore(cxs, fs[x + 1].base)

Core(fs, cxs, n) ==
  /\ Static(fs) /\ Zones(fs, cxs, n) /\ Evals(fs, cxs) /\ Ordered(fs, cxs)
  /\ ExitsClean(fs, cxs)
Held(fs, cxs) == Guards(fs, cxs, Len(fs)) /\ Dies(fs, cxs, Len(fs))

-----------------------------------------------------------------------------
(* The invariant: where the program is.                                    *)

\* A jump passes what it must and comes to n.
JumpsTo(fs, cxs, rs, n) ==
  /\ n \in 1 .. Len(fs)
  /\ \A i \in n + 1 .. Len(fs) : /\ fs[i].fn \notin {"call_sv_eval", "my_exit"}
                                 /\ fs[i].fn # "leave" => fs[i].base > Len(cxs)
  /\ \A k \in 1 .. Len(cxs), m \in 1 .. Len(fs) :
       cxs[k].type = "eval" /\ Owner(fs, k, cxs[k], m) => m <= n /\ (rs.loop = 0 => m < n)
  /\ Dies(fs, cxs, n - 1)
  /\ IF rs.loop = 0
       THEN /\ fs[n].fn = "call_sv_eval" /\ fs[n].base = Len(cxs) /\ rs.env < n
            /\ fs[n].base > 0 /\ cxs[fs[n].base].onleave = ""
            /\ \A i \in n + 1 .. Len(fs) : fs[i].fn # "yyparse"
            /\ Guards(fs, cxs, n - 1)
       ELSE /\ rs.loop = n /\ rs.env = n /\ fs[n].fn \in {"perl_run", "docatch", "call_sv_eval"}
            /\ MayRun(fs, n, Len(cxs))
            /\ \A i \in n + 2 .. Len(fs) : fs[i].fn # "yyparse"
            /\ Guards(fs, cxs, n)

AtRun(fs, cxs, c) ==
  fs[Len(fs)].fn \in Loops /\ c.loop = Len(fs) /\ MayRun(fs, Len(fs), Len(cxs)) /\ Held(fs, cxs)
AtNull(fs, cxs) ==
  fs[Len(fs)].fn \in Loops /\ HasEnded(fs, Len(fs), Len(cxs)) /\ Held(fs, cxs)
AtWork(fs, cxs) ==
  /\ fs[Len(fs)].fn \in Unwinders \cup {"yyparse", "call_list"}
  /\ fs[Len(fs)].fn = "yyparse" => Len(cxs) = fs[Len(fs)].base
  /\ fs[Len(fs)].fn = "call_list" => Len(cxs) = fs[Len(fs)].base + 1
  /\ fs[Len(fs)].fn = "leave" => Len(cxs) >= fs[Len(fs)].base + 1
  /\ Held(fs, cxs)
AtJump(fs, cxs, rs) == \E t \in 1 .. Len(fs) : JumpsTo(fs, cxs, rs, t)

\* A destructor leaves its stackinfo on Perl's stack, where no loop sees it.
Settled(fs, cxs, c) ==
  IF /\ c.at = "work" /\ fs[Len(fs)].fn \in Unwinders
     /\ Len(cxs) > 0 /\ cxs[Len(cxs)].onleave = ""
     /\ ~(fs[Len(fs)].fn = "leave" /\ Len(cxs) = fs[Len(fs)].base + 1)
  THEN Len(cxs) - 1 ELSE Len(cxs)

Control(fs, cxs, c, rs) ==
  /\ c.at \in {"run", "null", "work", "jump3"}
  /\ c.at = "run" => AtRun(fs, cxs, c)
  /\ c.at = "null" => AtNull(fs, cxs)
  /\ c.at = "work" => AtWork(fs, cxs)
  /\ c.at = "jump3" => AtJump(fs, cxs, rs)

Whole(fs, cxs, c, rs) == Core(fs, cxs, Settled(fs, cxs, c)) /\ Control(fs, cxs, c, rs)

\* After my_exit() has left all of Perl's stack, nothing calls Perl any more.
Exiting(fs, cxs, c) ==
  cxs = <<>> /\ (c.at = "jump2" \/ (c.at = "work" /\ fs[Len(fs)].fn = "my_exit"))

Typed(fs, cxs, c, rs) ==
  /\ fs \in Seq(CFrames) /\ cxs \in Seq(Entries)
  /\ Len(fs) <= MaxDepth_c + 1 /\ Len(cxs) <= MaxDepth_cx
  /\ c \in [at : {"run", "work", "null", "jump2", "jump3", "exited"}, loop : 0 .. MaxDepth_c]
  /\ rs \in [env : 0 .. MaxDepth_c, loop : 0 .. MaxDepth_c]

FlagInv(fs) == Bottom(fs) /\ CatchFlags(fs) /\ OldFlags(fs)

ExceptionInv ==
  /\ Typed(cstack, cxstack, ctl, restart) /\ errsv \in {0} \cup Errors
  /\ FlagInv(cstack)
  /\ \/ (Whole(cstack, cxstack, ctl, restart) /\ ErrorArrives)
     \/ Exiting(cstack, cxstack, ctl) \/ ctl.at = "exited"

-----------------------------------------------------------------------------
(* Stacks of C functions.                                                  *)

CStack(fs) ==
  /\ Len(fs) \in Nat
  /\ \A i \in 1 .. Len(fs) : fs[i].fn \in Fns /\ fs[i].base \in Nat /\ fs[i].catch \in BOOLEAN
PStack(cxs) ==
  Len(cxs) \in Nat /\ \A k \in 1 .. Len(cxs) : cxs[k].loop \in Nat /\ cxs[k].env \in Nat

SameUpTo(fs, gs, n) == \A i \in 1 .. n : gs[i].fn = fs[i].fn /\ gs[i].base = fs[i].base
FlagsUpTo(fs, gs, n) == \A i \in 1 .. n : gs[i].fn = fs[i].fn /\ gs[i].catch = fs[i].catch

LEMMA StacksOfFrames ==
  ASSUME NEW fs \in Seq(CFrames)
  PROVE  CStack(fs) /\ DOMAIN fs = 1 .. Len(fs) /\ \A i \in 1 .. Len(fs) : fs[i] \in CFrames
<1>1. /\ Len(fs) \in Nat /\ DOMAIN fs = 1 .. Len(fs)
      /\ \A i \in 1 .. Len(fs) : fs[i] \in CFrames
  <2> HIDE DEF CFrames
  <2> QED OBVIOUS
<1>2. \A f \in CFrames : f.fn \in Fns /\ f.base \in Nat /\ f.catch \in BOOLEAN
  BY ExceptionsAssumption DEF CFrames
<1> QED
  BY <1>1, <1>2 DEF CStack

LEMMA StacksOfEntries ==
  ASSUME NEW cxs \in Seq(Entries)
  PROVE  PStack(cxs) /\ DOMAIN cxs = 1 .. Len(cxs) /\ \A i \in 1 .. Len(cxs) : cxs[i] \in Entries
<1>1. /\ Len(cxs) \in Nat /\ DOMAIN cxs = 1 .. Len(cxs)
      /\ \A i \in 1 .. Len(cxs) : cxs[i] \in Entries
  <2> HIDE DEF Entries
  <2> QED OBVIOUS
<1>2. \A cx \in Entries : cx.loop \in Nat /\ cx.env \in Nat
  <2>1. 0 .. MaxDepth_c \subseteq Nat
    BY ExceptionsAssumption
  <2>2. \A cx \in Entries : cx.loop \in 0 .. MaxDepth_c /\ cx.env \in 0 .. MaxDepth_c
    BY DEF Entries
  <2> QED BY <2>1, <2>2
<1> QED
  BY <1>1, <1>2 DEF PStack

\* The innermost catcher.
LEMMA TopEnvIs ==
  ASSUME NEW fs, CStack(fs), DOMAIN fs = 1 .. Len(fs), Bottom(fs)
  PROVE  /\ TopEnv(fs) \in 1 .. Len(fs) /\ fs[TopEnv(fs)].fn \in Envs
         /\ \A i \in TopEnv(fs) + 1 .. Len(fs) : fs[i].fn \notin Envs
         /\ \A e \in 1 .. Len(fs) :
              fs[e].fn \in Envs /\ (\A i \in e + 1 .. Len(fs) : fs[i].fn \notin Envs)
              => e = TopEnv(fs)
<1> DEFINE T == {n \in Nat : Len(fs) - n \in 1 .. Len(fs) /\ fs[Len(fs) - n].fn \in Envs}
           P(e) == fs[e].fn \in Envs /\ \A i \in e + 1 .. Len(fs) : fs[i].fn \notin Envs
<1>1. Len(fs) \in Nat /\ Len(fs) > 0 /\ fs[1].fn \in Envs
  BY DEF CStack, Bottom, Envs
<1>2. T # {}
  <2>1. Len(fs) - 1 \in T
    BY <1>1
  <2> QED BY <2>1
<1>3. T \subseteq Nat
  OBVIOUS
<1>4. PICK n \in T : \A m \in T : ~(<<m, n>> \in OpToRel(<, Nat))
  <2> HIDE DEF T
  <2> QED
    BY <1>2, <1>3, NatLessThanWellFounded, WFMin
<1>5. \A m \in T : ~(m < n)
  BY <1>3, <1>4 DEF OpToRel
<1>6. n \in Nat /\ Len(fs) - n \in 1 .. Len(fs) /\ fs[Len(fs) - n].fn \in Envs
  BY <1>4
<1>7. ASSUME NEW i \in Len(fs) - n + 1 .. Len(fs) PROVE fs[i].fn \notin Envs
  <2>1. Len(fs) - i \in Nat /\ Len(fs) - i < n /\ Len(fs) - (Len(fs) - i) = i /\ i \in 1 .. Len(fs)
    BY <1>1, <1>6
  <2>2. Len(fs) - i \notin T
    BY <2>1, <1>5
  <2> QED
    BY <2>1, <2>2
<1>8. \E e \in 1 .. Len(fs) : P(e)
  BY <1>6, <1>7
<1>9. TopEnv(fs) \in 1 .. Len(fs) /\ P(TopEnv(fs))
  BY <1>8 DEF TopEnv
<1>10. ASSUME NEW e \in 1 .. Len(fs), P(e) PROVE e = TopEnv(fs)
  <2> DEFINE t == TopEnv(fs)
  <2>1. t \in 1 .. Len(fs) /\ P(t)
    BY <1>9
  <2> HIDE DEF t
  <2>2. ~(e < t)
    BY <2>1, <1>1, <1>10
  <2>3. ~(t < e)
    BY <2>1, <1>1, <1>10
  <2> QED
    BY <2>1, <2>2, <2>3, <1>1 DEF t
<1> QED
  BY <1>9, <1>10

\* What is true of a stack is true of its lower part.
LEMMA LoopSame ==
  ASSUME NEW fs, NEW gs, NEW n \in Nat, SameUpTo(fs, gs, n), NEW i \in 1 .. n
  PROVE  /\ \A r : LoopFor(fs, r, i) <=> LoopFor(gs, r, i)
         /\ \A h : MayRun(fs, i, h) <=> MayRun(gs, i, h)
         /\ \A h : HasEnded(fs, i, h) <=> HasEnded(gs, i, h)
<1>1. \A r : LoopFor(fs, r, i) <=> LoopFor(gs, r, i)
  <2> TAKE r
  <2>1. CASE r \in 1 .. i
    <3>1. fs[r].fn = gs[r].fn /\ \A q \in r + 1 .. i : fs[q].fn = gs[q].fn
      BY <2>1 DEF SameUpTo
    <3> QED BY <3>1 DEF LoopFor
  <2>2. CASE r \notin 1 .. i
    BY <2>2 DEF LoopFor
  <2> QED BY <2>1, <2>2
<1>2. \A r \in 1 .. i : fs[r].fn = gs[r].fn /\ fs[r].base = gs[r].base
  BY DEF SameUpTo
<1> QED
  BY <1>1, <1>2 DEF MayRun, HasEnded

\* Every loop runs something.
LEMMA LoopExists ==
  ASSUME NEW fs, CStack(fs), Bottom(fs), Under(fs), NEW i \in 1 .. Len(fs), fs[i].fn \in Loops
  PROVE  \E r \in 1 .. i : LoopFor(fs, r, i)
<1> DEFINE P(m) == \A q \in m + 1 .. i : fs[q].fn = "docatch"
           T == {m \in Nat : m \in 1 .. i /\ P(m)}
<1>1. Len(fs) \in Nat /\ i \in Nat /\ i > 0
  BY DEF CStack
<1>2. T # {} /\ T \subseteq Nat
  <2>1. i \in T
    BY <1>1
  <2> QED BY <2>1
<1>3. PICK r \in T : \A m \in T : ~(<<m, r>> \in OpToRel(<, Nat))
  <2> HIDE DEF T
  <2> QED
    BY <1>2, NatLessThanWellFounded, WFMin
<1>4. \A m \in T : ~(m < r)
  BY <1>2, <1>3 DEF OpToRel
<1>5. r \in 1 .. i /\ P(r)
  BY <1>3
<1>6. fs[r].fn # "docatch"
  <2> SUFFICES ASSUME fs[r].fn = "docatch" PROVE FALSE
    OBVIOUS
  <2>1. r # 1
    BY <1>5 DEF Bottom
  <2>2. r - 1 \in Nat /\ r - 1 \in 1 .. i /\ r - 1 < r
    BY <1>5, <2>1, <1>1
  <2>3. P(r - 1)
    <3> TAKE q \in r - 1 + 1 .. i
    <3>1. q = r \/ q \in r + 1 .. i
      BY <1>5, <1>1
    <3> QED BY <3>1, <1>5
  <2>4. r - 1 \in T
    BY <2>2, <2>3
  <2> QED
    BY <2>2, <2>4, <1>4
<1>7. fs[r].fn \in Loops
  <2>1. CASE r = i
    BY <2>1
  <2>2. CASE r # i
    <3>1. r + 1 \in 2 .. Len(fs) /\ r + 1 \in r + 1 .. i /\ r + 1 - 1 = r
      BY <2>2, <1>5, <1>1
    <3>2. fs[r + 1].fn = "docatch"
      BY <3>1, <1>5
    <3>3. fs[r].fn \in Callers("docatch")
      BY <3>1, <3>2 DEF Under
    <3> QED BY <3>3 DEF Callers
  <2> QED BY <2>1, <2>2
<1> QED
  BY <1>5, <1>6, <1>7 DEF LoopFor, Loops, CallFns

LEMMA StaticCut ==
  ASSUME NEW fs, NEW gs, CStack(fs), CStack(gs), Len(gs) \in 1 .. Len(fs),
         SameUpTo(fs, gs, Len(gs)), Static(fs)
  PROVE  Static(gs)
<1>1. /\ Len(fs) \in Nat /\ Len(gs) \in Nat /\ Len(gs) > 0 /\ Len(gs) <= Len(fs)
      /\ \A i \in 1 .. Len(gs) : i \in 1 .. Len(fs) /\ gs[i].fn = fs[i].fn /\ gs[i].base = fs[i].base
  BY DEF CStack, SameUpTo
<1>2. Bottom(gs)
  BY <1>1 DEF Static, Bottom
<1>3. \A j \in 2 .. Len(gs) : j \in 2 .. Len(fs) /\ j - 1 \in 1 .. Len(gs) /\ j \in 1 .. Len(gs)
  BY <1>1
<1>4. Under(gs)
  BY <1>1, <1>3 DEF Static, Under
<1>5. Heights(gs)
  <2> SUFFICES ASSUME NEW j \in 2 .. Len(gs)
               PROVE  /\ gs[j - 1].fn \in Loops =>
                           \/ MayRun(gs, j - 1, gs[j].base)
                           \/ gs[j].fn = "leave" /\ HasEnded(gs, j - 1, gs[j].base)
                      /\ gs[j].fn = "call_list" => gs[j].base = gs[j - 1].base
                      /\ gs[j - 1].fn = "call_list" => gs[j].base = gs[j - 1].base + 1
                      /\ gs[j - 1].fn = "leave" => Low(gs[j]) >= gs[j - 1].base + 1
                      /\ gs[j].fn \in {"yyparse", "call_sv_eval"} => gs[j].base > 0
    BY DEF Heights
  <2>1. j \in 2 .. Len(fs) /\ j - 1 \in 1 .. Len(gs) /\ j \in 1 .. Len(gs)
    BY <1>3
  <2>2. /\ gs[j].fn = fs[j].fn /\ gs[j].base = fs[j].base
        /\ gs[j - 1].fn = fs[j - 1].fn /\ gs[j - 1].base = fs[j - 1].base
        /\ Low(gs[j]) = Low(fs[j])
    BY <2>1, <1>1 DEF Low
  <2>3. \A h : (MayRun(fs, j - 1, h) <=> MayRun(gs, j - 1, h))
               /\ (HasEnded(fs, j - 1, h) <=> HasEnded(gs, j - 1, h))
    BY <2>1, <1>1, LoopSame
  <2> QED
    BY <2>1, <2>2, <2>3 DEF Static, Heights
<1>6. Above(gs)
  <2> SUFFICES ASSUME NEW i \in 1 .. Len(gs), NEW j \in 1 .. Len(gs), i < j, Guarded(gs, i),
                      NoExit(gs, i + 1, j - 1)
               PROVE  Low(gs[j]) >= Guard(gs[i])
    BY DEF Above
  <2>1. i \in 1 .. Len(fs) /\ j \in 1 .. Len(fs)
    BY <1>1
  <2>2. Guarded(fs, i)
    <3>1. i > 1 => i - 1 \in 1 .. Len(gs)
      BY <1>1
    <3> QED
      BY <3>1, <1>1 DEF Guarded
  <2>3. NoExit(fs, i + 1, j - 1)
    <3>1. \A q \in i + 1 .. j - 1 : q \in 1 .. Len(gs)
      BY <1>1
    <3> QED BY <3>1, <1>1 DEF NoExit
  <2>4. Low(fs[j]) >= Guard(fs[i])
    BY <2>1, <2>2, <2>3 DEF Static, Above
  <2> QED
    BY <2>4, <1>1 DEF Low, Guard
<1> QED
  BY <1>2, <1>4, <1>5, <1>6 DEF Static

\* What a function needs to be called.
MayCall(fs, f) ==
  /\ fs[Len(fs)].fn \in Callers(f.fn)
  /\ fs[Len(fs)].fn \in Loops =>
       \/ MayRun(fs, Len(fs), f.base)
       \/ f.fn = "leave" /\ HasEnded(fs, Len(fs), f.base)
  /\ f.fn = "call_list" => f.base = fs[Len(fs)].base
  /\ fs[Len(fs)].fn = "call_list" => f.base = fs[Len(fs)].base + 1
  /\ fs[Len(fs)].fn = "leave" => Low(f) >= fs[Len(fs)].base + 1
  /\ f.fn \in {"yyparse", "call_sv_eval"} => f.base > 0

LEMMA StaticPush ==
  ASSUME NEW fs, NEW gs, CStack(fs), CStack(gs), Len(gs) = Len(fs) + 1,
         SameUpTo(fs, gs, Len(fs)), Static(fs), MayCall(fs, gs[Len(gs)]),
         \A i \in 1 .. Len(fs) : Guarded(fs, i) /\ NoExit(fs, i + 1, Len(fs)) =>
                                   Low(gs[Len(gs)]) >= Guard(fs[i])
  PROVE  Static(gs)
<1> DEFINE n == Len(fs)
           f == gs[n + 1]
<1>1. /\ n \in Nat /\ Len(gs) = n + 1 /\ n > 0
      /\ \A i \in 1 .. n : gs[i].fn = fs[i].fn /\ gs[i].base = fs[i].base
  BY DEF CStack, SameUpTo, Static, Bottom
<1>2. Bottom(gs)
  <2>1. f.fn # "perl_run"
    BY <1>1 DEF MayCall, Callers
  <2> QED
    BY <1>1, <2>1 DEF Static, Bottom
<1> HIDE DEF n
<1>3. \A j \in 2 .. Len(gs) : (j \in 2 .. n /\ j - 1 \in 1 .. n /\ j \in 1 .. n) \/ (j = n + 1 /\ j - 1 = n)
  BY <1>1
<1>4. Under(gs)
  <2> SUFFICES ASSUME NEW j \in 2 .. Len(gs) PROVE gs[j - 1].fn \in Callers(gs[j].fn)
    BY DEF Under
  <2>1. CASE j = n + 1
    BY <2>1, <1>1 DEF MayCall, n
  <2>2. CASE j # n + 1
    BY <2>2, <1>1, <1>3 DEF Static, Under, n
  <2> QED BY <2>1, <2>2
<1>5. Heights(gs)
  <2> SUFFICES ASSUME NEW j \in 2 .. Len(gs)
               PROVE  /\ gs[j - 1].fn \in Loops =>
                           \/ MayRun(gs, j - 1, gs[j].base)
                           \/ gs[j].fn = "leave" /\ HasEnded(gs, j - 1, gs[j].base)
                      /\ gs[j].fn = "call_list" => gs[j].base = gs[j - 1].base
                      /\ gs[j - 1].fn = "call_list" => gs[j].base = gs[j - 1].base + 1
                      /\ gs[j - 1].fn = "leave" => Low(gs[j]) >= gs[j - 1].base + 1
                      /\ gs[j].fn \in {"yyparse", "call_sv_eval"} => gs[j].base > 0
    BY DEF Heights
  <2>1. j - 1 \in 1 .. n
    BY <1>1, <1>3
  <2>2. \A h : (MayRun(fs, j - 1, h) <=> MayRun(gs, j - 1, h))
               /\ (HasEnded(fs, j - 1, h) <=> HasEnded(gs, j - 1, h))
    BY <2>1, <1>1, LoopSame DEF n
  <2>3. CASE j = n + 1
    <3>1. j - 1 = n /\ gs[n].fn = fs[n].fn /\ gs[n].base = fs[n].base
      BY <2>3, <1>1
    <3> QED
      BY <3>1, <2>2, <2>3, <1>1 DEF MayCall, n
  <2>4. CASE j # n + 1
    <3>1. j \in 2 .. n /\ j \in 1 .. n /\ gs[j].fn = fs[j].fn /\ gs[j].base = fs[j].base
          /\ gs[j - 1].fn = fs[j - 1].fn /\ gs[j - 1].base = fs[j - 1].base
          /\ Low(gs[j]) = Low(fs[j])
      BY <2>4, <2>1, <1>1, <1>3 DEF Low
    <3> QED
      BY <3>1, <2>2 DEF Static, Heights, n
  <2> QED BY <2>3, <2>4
<1>6. Above(gs)
  <2> SUFFICES ASSUME NEW i \in 1 .. Len(gs), NEW j \in 1 .. Len(gs), i < j, Guarded(gs, i),
                      NoExit(gs, i + 1, j - 1)
               PROVE  Low(gs[j]) >= Guard(gs[i])
    BY DEF Above
  <2>1. i \in 1 .. n
    BY <1>1
  <2>2. Guarded(fs, i)
    <3>1. i > 1 => i - 1 \in 1 .. n
      BY <1>1, <2>1
    <3> QED
      BY <2>1, <3>1, <1>1 DEF Guarded
  <2>3. NoExit(fs, i + 1, j - 1)
    <3>1. \A q \in i + 1 .. j - 1 : q \in 1 .. n
      BY <1>1, <2>1
    <3> QED BY <3>1, <1>1 DEF NoExit
  <2>4. Guard(gs[i]) = Guard(fs[i])
    BY <2>1, <1>1 DEF Guard
  <2>5. CASE j = n + 1
    <3>1. NoExit(fs, i + 1, n)
      BY <2>3, <2>5, <1>1
    <3> QED
      BY <3>1, <2>1, <2>2, <2>4, <2>5, <1>1 DEF n
  <2>6. CASE j # n + 1
    <3>1. j \in 1 .. n /\ Low(gs[j]) = Low(fs[j])
      BY <2>6, <1>1 DEF Low
    <3> QED
      BY <3>1, <2>1, <2>2, <2>3, <2>4 DEF Static, Above, n
  <2> QED BY <2>5, <2>6
<1> QED
  BY <1>2, <1>4, <1>5, <1>6 DEF Static

-----------------------------------------------------------------------------
(* The catchers' flags.                                                    *)

FnsUpTo(fs, gs, n) == \A i \in 1 .. n : gs[i].fn = fs[i].fn

LEMMA WaitsSame ==
  ASSUME NEW fs, NEW gs, NEW n \in Nat, FnsUpTo(fs, gs, n), NEW e \in 1 .. n
  PROVE  Waits(fs, e, n) <=> Waits(gs, e, n)
<1>1. \A i \in e + 1 .. n : gs[i].fn = fs[i].fn
  BY DEF FnsUpTo
<1>2. \A j \in e + 1 .. n : \A i \in e + 1 .. j : i \in e + 1 .. n
  OBVIOUS
<1> QED
  BY <1>1, <1>2 DEF Waits

\* A catcher hides from the ones below it what is above it.
LEMMA WaitsHidden ==
  ASSUME NEW fs, NEW m \in Nat, NEW n \in Nat, m <= n, NEW t \in 1 .. m, fs[t].fn \in Envs,
         NEW e \in 1 .. t - 1
  PROVE  Waits(fs, e, m) <=> Waits(fs, e, n)
<1>1. ASSUME NEW j \in e + 1 .. n, \A i \in e + 1 .. j : fs[i].fn \notin Envs PROVE j < t
  <2> SUFFICES ASSUME ~(j < t) PROVE FALSE
    OBVIOUS
  <2>1. t \in e + 1 .. j
    OBVIOUS
  <2> QED BY <2>1, <1>1
<1>2. \A j \in e + 1 .. m : j \in e + 1 .. n
  OBVIOUS
<1>3. \A j \in e + 1 .. n : j < t => j \in e + 1 .. m
  OBVIOUS
<1> QED
  BY <1>1, <1>2, <1>3 DEF Waits

LEMMA BottomSame ==
  ASSUME NEW fs, NEW gs, Len(gs) \in Nat, Len(fs) \in Nat, Bottom(fs), Len(gs) > 0,
         \A i \in 1 .. Len(gs) :
            (i <= Len(fs) /\ gs[i].fn = fs[i].fn /\ gs[i].base = fs[i].base)
            \/ (i > Len(fs) /\ gs[i].fn # "perl_run")
  PROVE  Bottom(gs)
<1>1. Len(fs) > 0
  BY DEF Bottom
<1>2. 1 \in 1 .. Len(gs) /\ \A i \in 2 .. Len(gs) : i \in 1 .. Len(gs) /\ (i <= Len(fs) => i \in 2 .. Len(fs))
  OBVIOUS
<1> QED
  BY <1>1, <1>2 DEF Bottom

LEMMA CallOverSame ==
  ASSUME NEW fs, NEW gs, NEW m \in Nat, \A i \in 1 .. m : gs[i].fn = fs[i].fn
  PROVE  CallOver(fs, m) <=> CallOver(gs, m)
<1>1. \A i \in 1 .. m : \A q \in i .. m : q \in 1 .. m
  OBVIOUS
<1>2. \A i \in 1 .. m : (\A q \in i .. m : gs[q].fn \notin Envs) <=> (\A q \in i .. m : fs[q].fn \notin Envs)
  BY <1>1
<1> QED BY <1>2 DEF CallOver

\* What waits under the innermost catcher.
LEMMA CallOverCatcher ==
  ASSUME NEW fs, NEW n \in Nat, NEW t \in 1 .. n, fs[t].fn \in Envs,
         \A i \in t + 1 .. n : fs[i].fn \notin Envs
  PROVE  Waits(fs, t, n) <=> CallOver(fs, n)
<1>1. ASSUME Waits(fs, t, n)
      PROVE  CallOver(fs, n)
  <2>1. PICK i \in t + 1 .. n : fs[i].fn = "call_sv"
    BY <1>1 DEF Waits
  <2>2. i \in 1 .. n /\ \A q \in i .. n : q \in t + 1 .. n
    OBVIOUS
  <2> QED BY <2>1, <2>2 DEF CallOver
<1>2. ASSUME CallOver(fs, n)
      PROVE  Waits(fs, t, n)
  <2>1. PICK i \in 1 .. n : fs[i].fn = "call_sv" /\ \A q \in i .. n : fs[q].fn \notin Envs
    BY <1>2 DEF CallOver
  <2>2. ~(t \in i .. n)
    BY <2>1
  <2>3. i \in t + 1 .. n
    BY <2>2
  <2>4. \A q \in t + 1 .. i : q \in t + 1 .. n
    BY <2>3
  <2> QED BY <2>1, <2>3, <2>4 DEF Waits
<1> QED BY <1>1, <1>2

LEMMA CallOverUnder ==
  ASSUME NEW fs, NEW gs, NEW n \in Nat, NEW j \in 1 .. n, \A i \in 1 .. j : gs[i].fn = fs[i].fn
  PROVE  CallOver(fs, j - 1) <=> CallOver(gs, j - 1)
<1>1. j - 1 \in Nat /\ \A i \in 1 .. j - 1 : i \in 1 .. j
  OBVIOUS
<1> QED BY <1>1, CallOverSame

LEMMA FlagPush ==
  ASSUME NEW fs, NEW gs, CStack(fs), CStack(gs), Len(gs) = Len(fs) + 1, FlagsUpTo(fs, gs, Len(fs)),
         gs[Len(gs)].fn # "call_sv", gs[Len(gs)].catch = FALSE, CatchFlags(fs), OldFlags(fs)
  PROVE  CatchFlags(gs) /\ OldFlags(gs)
<1> DEFINE n == Len(fs)
<1>1. /\ n \in Nat /\ Len(gs) = n + 1 /\ gs[n + 1].fn # "call_sv" /\ gs[n + 1].catch = FALSE
      /\ \A i \in 1 .. n : gs[i].fn = fs[i].fn /\ gs[i].catch = fs[i].catch
  BY DEF CStack, FlagsUpTo
<1> HIDE DEF n
<1>2. CatchFlags(gs)
  <2> SUFFICES ASSUME NEW e \in 1 .. n + 1, gs[e].fn \in Envs
               PROVE  gs[e].catch <=> Waits(gs, e, n + 1)
    BY <1>1 DEF CatchFlags
  <2>1. CASE e = n + 1
    <3>1. ~Waits(gs, e, n + 1)
      BY <2>1, <1>1 DEF Waits
    <3> QED BY <3>1, <2>1, <1>1
  <2>2. CASE e # n + 1
    <3>1. e \in 1 .. n /\ fs[e].fn \in Envs
      BY <2>2, <1>1
    <3>2. Waits(fs, e, n) <=> Waits(gs, e, n)
      BY <3>1, <1>1, WaitsSame DEF FnsUpTo
    <3>3. Waits(gs, e, n) <=> Waits(gs, e, n + 1)
      <4>1. \A j \in e + 1 .. n + 1 : gs[j].fn = "call_sv" => j # n + 1
        BY <1>1
      <4>a. n \in Nat /\ e \in Nat
        BY <1>1, <3>1
      <4>b. \A j \in e + 1 .. n + 1 : j # n + 1 => j \in e + 1 .. n
        BY <4>a
      <4>2. \A j \in e + 1 .. n + 1 : gs[j].fn = "call_sv" => j \in e + 1 .. n
        BY <4>1, <4>b
      <4>3. \A j \in e + 1 .. n : j \in e + 1 .. n + 1
        BY <4>a
      <4> HIDE DEF Envs
      <4> QED BY <4>2, <4>3 DEF Waits
    <3>4. fs[e].catch <=> Waits(fs, e, n)
      BY <3>1 DEF CatchFlags, n
    <3>5. gs[e].catch = fs[e].catch
      BY <3>1, <1>1
    <3> QED
      BY <3>2, <3>3, <3>4, <3>5
  <2> QED BY <2>1, <2>2
<1>3. OldFlags(gs)
  <2> SUFFICES ASSUME NEW j \in 1 .. n + 1, gs[j].fn = "call_sv"
               PROVE  gs[j].catch <=> CallOver(gs, j - 1)
    BY <1>1 DEF OldFlags
  <2>1. j \in 1 .. n
    BY <1>1
  <2>2. \A i \in 1 .. j : i \in 1 .. n /\ gs[i].fn = fs[i].fn /\ gs[i].catch = fs[i].catch
    BY <1>1, <2>1
  <2>3. fs[j].catch <=> CallOver(fs, j - 1)
    BY <2>1, <2>2 DEF OldFlags, n
  <2>4. gs[j].catch = fs[j].catch
    BY <2>1, <1>1
  <2>5. CallOver(fs, j - 1) <=> CallOver(gs, j - 1)
    BY <2>1, <2>2, <1>1, CallOverUnder
  <2> QED
    BY <2>3, <2>4, <2>5
<1> QED
  BY <1>2, <1>3

\* call_sv() sets the flag of the innermost catcher.
LEMMA FlagPushCall ==
  ASSUME NEW fs, NEW gs, CStack(fs), CStack(gs), Len(gs) = Len(fs) + 1,
         NEW t \in 1 .. Len(fs), fs[t].fn \in Envs,
         \A i \in t + 1 .. Len(fs) : fs[i].fn \notin Envs,
         \A i \in 1 .. Len(fs) : gs[i].fn = fs[i].fn /\ (i # t => gs[i].catch = fs[i].catch),
         gs[t].catch = TRUE, gs[Len(gs)].fn = "call_sv", gs[Len(gs)].catch = fs[t].catch,
         CatchFlags(fs), OldFlags(fs)
  PROVE  CatchFlags(gs) /\ OldFlags(gs)
<1> DEFINE n == Len(fs)
<1>1. /\ n \in Nat /\ Len(gs) = n + 1 /\ gs[n + 1].fn = "call_sv" /\ t \in 1 .. n
      /\ gs[n + 1].catch = fs[t].catch
      /\ \A i \in 1 .. n : gs[i].fn = fs[i].fn /\ (i # t => gs[i].catch = fs[i].catch)
      /\ \A i \in t + 1 .. n : gs[i].fn \notin Envs
      /\ \A i \in 1 .. n : fs[i].catch \in BOOLEAN
      /\ gs[t].catch = TRUE
  <2>1. n \in Nat /\ Len(gs) = n + 1 /\ \A i \in 1 .. n : fs[i].catch \in BOOLEAN
    BY DEF CStack
  <2>2. gs[n + 1].fn = "call_sv" /\ gs[n + 1].catch = fs[t].catch
    OBVIOUS
  <2>3. /\ t \in 1 .. n /\ gs[t].catch = TRUE
        /\ \A i \in 1 .. n : gs[i].fn = fs[i].fn /\ (i # t => gs[i].catch = fs[i].catch)
    OBVIOUS
  <2>4. \A i \in t + 1 .. n : i \in 1 .. n
    BY <2>1
  <2>5. \A i \in t + 1 .. n : gs[i].fn \notin Envs
    BY <2>3, <2>4
  <2> HIDE DEF n
  <2> QED BY <2>1, <2>2, <2>3, <2>5
<1>a. \A e \in 1 .. n : fs[e].fn \in Envs => (fs[e].catch <=> Waits(fs, e, n))
  BY DEF CatchFlags
<1>b. \A j \in 1 .. n : fs[j].fn = "call_sv" =>
        (fs[j].catch <=> CallOver(fs, j - 1))
  BY DEF OldFlags
<1>2. n + 1 \in t + 1 .. n + 1 /\ "call_sv" \notin Envs
  BY <1>1 DEF Envs
<1> HIDE DEF n
<1>3. CatchFlags(gs)
  <2> SUFFICES ASSUME NEW e \in 1 .. n + 1, gs[e].fn \in Envs
               PROVE  gs[e].catch <=> Waits(gs, e, n + 1)
    BY <1>1 DEF CatchFlags
  <2>1. e \in 1 .. n
    BY <1>1, <1>2
  <2>2. ~(e > t)
    BY <2>1, <1>1
  <2>3. CASE e = t
    <3>1. \A i \in t + 1 .. n + 1 : gs[i].fn \notin Envs
      <4> TAKE i \in t + 1 .. n + 1
      <4>1. i = n + 1 \/ i \in t + 1 .. n
        BY <1>1
      <4> QED BY <4>1, <1>1, <1>2
    <3>2. Waits(gs, t, n + 1)
      BY <1>1, <1>2, <3>1 DEF Waits
    <3> QED BY <2>3, <3>2, <1>1
  <2>4. CASE e # t
    <3>1. e \in 1 .. t - 1 /\ t \in 1 .. n /\ n + 1 \in Nat /\ n <= n + 1 /\ gs[t].fn \in Envs
      BY <2>1, <2>2, <2>4, <1>1
    <3>2. Waits(gs, e, n) <=> Waits(gs, e, n + 1)
      BY <3>1, <1>1, WaitsHidden
    <3>3. Waits(fs, e, n) <=> Waits(gs, e, n)
      BY <2>1, <1>1, WaitsSame DEF FnsUpTo
    <3> QED
      BY <2>1, <2>4, <3>2, <3>3, <1>1, <1>a
  <2> QED BY <2>3, <2>4
<1>4. OldFlags(gs)
  <2> SUFFICES ASSUME NEW j \in 1 .. n + 1, gs[j].fn = "call_sv"
               PROVE  gs[j].catch <=> CallOver(gs, j - 1)
    BY <1>1 DEF OldFlags
  <2>1. CASE j = n + 1
    <3>1. fs[t].catch <=> Waits(gs, t, n)
      BY <1>1, <1>a, WaitsSame DEF FnsUpTo
    <3>2. Waits(gs, t, n) <=> CallOver(gs, n)
      BY <1>1, CallOverCatcher
    <3>4. j - 1 = n
      BY <2>1, <1>1
    <3>5. gs[j].catch = fs[t].catch
      BY <2>1, <1>1
    <3> QED
      BY <3>1, <3>2, <3>4, <3>5
  <2>2. CASE j # n + 1
    <3>a. j \in 1 .. n /\ \A i \in 1 .. j : i \in 1 .. n
      <4>1. n \in Nat
        BY <1>1
      <4> QED BY <4>1, <2>2
    <3>1. j \in 1 .. n /\ \A i \in 1 .. j : i \in 1 .. n /\ gs[i].fn = fs[i].fn
      BY <1>1, <3>a
    <3>2. gs[j].catch = fs[j].catch
      BY <3>1, <1>1, <1>2
    <3>3. fs[j].catch <=> CallOver(fs, j - 1)
      BY <3>1, <1>b
    <3>4. \A i \in 1 .. j : gs[i].fn = fs[i].fn
      BY <3>1
    <3>5. CallOver(fs, j - 1) <=> CallOver(gs, j - 1)
      BY <3>1, <3>4, <1>1, CallOverUnder
    <3> QED
      BY <3>2, <3>3, <3>5
  <2> QED BY <2>1, <2>2
<1> QED
  BY <1>3, <1>4

\* Functions that are not call_sv() are left as they are.
LEMMA FlagPop ==
  ASSUME NEW fs, NEW gs, CStack(fs), CStack(gs), Len(fs) = Len(gs) + 1, FlagsUpTo(fs, gs, Len(gs)),
         fs[Len(fs)].fn # "call_sv", CatchFlags(fs), OldFlags(fs)
  PROVE  CatchFlags(gs) /\ OldFlags(gs)
<1> DEFINE n == Len(gs)
<1>1. /\ n \in Nat /\ Len(fs) = n + 1 /\ fs[n + 1].fn # "call_sv"
      /\ \A i \in 1 .. n : gs[i].fn = fs[i].fn /\ gs[i].catch = fs[i].catch
  BY DEF CStack, FlagsUpTo
<1> HIDE DEF n
<1>2. CatchFlags(gs)
  <2> SUFFICES ASSUME NEW e \in 1 .. n, gs[e].fn \in Envs
               PROVE  gs[e].catch <=> Waits(gs, e, n)
    BY DEF CatchFlags, n
  <2>2. Waits(fs, e, n) <=> Waits(gs, e, n)
    BY <1>1, WaitsSame DEF FnsUpTo
  <2>3. Waits(fs, e, n) <=> Waits(fs, e, n + 1)
    <3>1. \A j \in e + 1 .. n + 1 : fs[j].fn = "call_sv" => j \in e + 1 .. n
      BY <1>1
    <3>2. \A j \in e + 1 .. n : j \in e + 1 .. n + 1
      BY <1>1
    <3> QED BY <3>1, <3>2 DEF Waits
  <2>4. e \in 1 .. n + 1 /\ fs[e].fn \in Envs /\ gs[e].catch = fs[e].catch
    BY <1>1
  <2> QED
    BY <2>2, <2>3, <2>4, <1>1 DEF CatchFlags
<1>3. OldFlags(gs)
  <2> SUFFICES ASSUME NEW j \in 1 .. n, gs[j].fn = "call_sv"
               PROVE  gs[j].catch <=> CallOver(gs, j - 1)
    BY DEF OldFlags, n
  <2>1. j \in 1 .. n + 1 /\ j \in 1 .. j /\ \A i \in 1 .. j : i \in 1 .. n
    BY <1>1
  <2>2. fs[j].fn = "call_sv" /\ gs[j].catch = fs[j].catch /\ \A i \in 1 .. j : gs[i].fn = fs[i].fn
    BY <2>1, <1>1
  <2>3. fs[j].catch <=> CallOver(fs, j - 1)
    BY <2>1, <2>2, <1>1 DEF OldFlags
  <2>4. CallOver(fs, j - 1) <=> CallOver(gs, j - 1)
    BY <2>2, <1>1, CallOverUnder
  <2> QED
    BY <2>2, <2>3, <2>4
<1> QED
  BY <1>2, <1>3

\* A jump to the innermost catcher resets its flag.
LEMMA FlagLand ==
  ASSUME NEW fs, NEW gs, CStack(fs), CStack(gs), NEW t \in 1 .. Len(fs), fs[t].fn \in Envs,
         Len(gs) = t, \A i \in 1 .. t : gs[i].fn = fs[i].fn,
         \A i \in 1 .. t - 1 : gs[i].catch = fs[i].catch, gs[t].catch = FALSE,
         CatchFlags(fs), OldFlags(fs)
  PROVE  CatchFlags(gs) /\ OldFlags(gs)
<1> DEFINE n == Len(fs)
<1>1. n \in Nat /\ t \in 1 .. n /\ t \in Nat
  BY DEF CStack
<1>a. \A e \in 1 .. n : fs[e].fn \in Envs => (fs[e].catch <=> Waits(fs, e, n))
  BY DEF CatchFlags
<1>b. \A j \in 1 .. n : fs[j].fn = "call_sv" =>
        (fs[j].catch <=> CallOver(fs, j - 1))
  BY DEF OldFlags
<1> HIDE DEF n
<1>2. CatchFlags(gs)
  <2> SUFFICES ASSUME NEW e \in 1 .. t, gs[e].fn \in Envs
               PROVE  gs[e].catch <=> Waits(gs, e, t)
    BY DEF CatchFlags
  <2>1. CASE e = t
    <3>1. ~Waits(gs, e, t)
      BY <2>1, <1>1 DEF Waits
    <3> QED BY <3>1, <2>1
  <2>2. CASE e # t
    <3>1. e \in 1 .. t - 1 /\ e \in 1 .. n /\ fs[e].fn \in Envs /\ gs[e].catch = fs[e].catch
          /\ t \in 1 .. t
      BY <2>2, <1>1
    <3>2. Waits(fs, e, t) <=> Waits(gs, e, t)
      BY <1>1, WaitsSame DEF FnsUpTo
    <3>3. Waits(fs, e, t) <=> Waits(fs, e, n)
      BY <3>1, <1>1, WaitsHidden
    <3> QED
      BY <3>1, <3>2, <3>3, <1>a
  <2> QED BY <2>1, <2>2
<1>3. OldFlags(gs)
  <2> SUFFICES ASSUME NEW j \in 1 .. t, gs[j].fn = "call_sv"
               PROVE  gs[j].catch <=> CallOver(gs, j - 1)
    BY DEF OldFlags
  <2>1. j # t /\ j \in 1 .. t - 1 /\ j \in 1 .. n
    BY <1>1 DEF Envs
  <2>2. \A i \in 1 .. j : gs[i].fn = fs[i].fn
    BY <2>1, <1>1
  <2>3. fs[j].catch <=> CallOver(fs, j - 1)
    <3>1. j \in 1 .. j
      BY <2>1
    <3>2. fs[j].fn = "call_sv"
      BY <3>1, <2>2
    <3> QED BY <2>1, <3>2, <1>b
  <2>4. gs[j].catch = fs[j].catch
    BY <2>1
  <2>5. CallOver(fs, j - 1) <=> CallOver(gs, j - 1)
    BY <2>1, <2>2, <1>1, CallOverUnder
  <2> QED
    BY <2>3, <2>4, <2>5
<1> QED
  BY <1>2, <1>3

LEMMA OldFlagAt ==
  ASSUME NEW fs, NEW n \in Nat, fs[n + 1].fn = "call_sv",
         \A j \in 1 .. n + 1 : fs[j].fn = "call_sv" => (fs[j].catch <=> CallOver(fs, j - 1))
  PROVE  fs[n + 1].catch <=> CallOver(fs, n)
<1>1. PICK j \in 1 .. n + 1 : j = n + 1
  OBVIOUS
<1>2. j - 1 = n /\ fs[j] = fs[n + 1]
  BY <1>1
<1>3. fs[j].catch <=> CallOver(fs, j - 1)
  BY <1>2, Zenon
<1> QED BY <1>2, <1>3, Zenon

\* call_sv() gives the flag back.
LEMMA FlagCallEnd ==
  ASSUME NEW fs, NEW gs, CStack(fs), CStack(gs), Len(fs) = Len(gs) + 1,
         fs[Len(fs)].fn = "call_sv", NEW t \in 1 .. Len(gs), fs[t].fn \in Envs,
         \A i \in t + 1 .. Len(gs) : fs[i].fn \notin Envs,
         \A i \in 1 .. Len(gs) : gs[i].fn = fs[i].fn /\ (i # t => gs[i].catch = fs[i].catch),
         gs[t].catch = fs[Len(fs)].catch, CatchFlags(fs), OldFlags(fs)
  PROVE  CatchFlags(gs) /\ OldFlags(gs)
<1> DEFINE n == Len(gs)
<1>1. /\ n \in Nat /\ Len(fs) = n + 1 /\ fs[n + 1].fn = "call_sv" /\ t \in 1 .. n
      /\ \A i \in 1 .. n : gs[i].fn = fs[i].fn /\ (i # t => gs[i].catch = fs[i].catch)
      /\ \A i \in t + 1 .. n : fs[i].fn \notin Envs /\ gs[i].fn \notin Envs
      /\ gs[t].catch = fs[n + 1].catch /\ n + 1 \in 1 .. n + 1
  BY DEF CStack
<1>a. \A e \in 1 .. n + 1 : fs[e].fn \in Envs => (fs[e].catch <=> Waits(fs, e, n + 1))
  BY DEF CatchFlags, n
<1>b. \A j \in 1 .. n + 1 : fs[j].fn = "call_sv" =>
        (fs[j].catch <=> CallOver(fs, j - 1))
  BY DEF OldFlags, n
<1> HIDE DEF n
<1>2. CatchFlags(gs)
  <2> SUFFICES ASSUME NEW e \in 1 .. n, gs[e].fn \in Envs
               PROVE  gs[e].catch <=> Waits(gs, e, n)
    BY DEF CatchFlags, n
  <2>1. ~(e > t)
    <3>1. n \in Nat /\ t \in 1 .. n
      BY <1>1
    <3>2. e > t => e \in t + 1 .. n
      BY <3>1
    <3>4. \A i \in t + 1 .. n : gs[i].fn \notin Envs
      BY <1>1
    <3>5. e \in t + 1 .. n => gs[e].fn \notin Envs
      BY <3>4
    <3> QED BY <3>2, <3>5
  <2>2. CASE e = t
    <3>1. n + 1 - 1 = n
      BY <1>1
    <3>2. fs[n + 1].catch <=> CallOver(fs, n)
      <4>1. n \in Nat /\ fs[n + 1].fn = "call_sv"
        BY <1>1
      <4> QED BY <4>1, <1>b, OldFlagAt
    <3>3. Waits(fs, t, n) <=> CallOver(fs, n)
      BY <1>1, CallOverCatcher
    <3>4. Waits(fs, t, n) <=> Waits(gs, t, n)
      BY <1>1, WaitsSame DEF FnsUpTo
    <3>5. gs[t].catch = fs[n + 1].catch
      BY <1>1
    <3> QED
      BY <2>2, <3>2, <3>3, <3>4, <3>5
  <2>3. CASE e # t
    <3>1. /\ e \in 1 .. t - 1 /\ e \in 1 .. n + 1 /\ fs[e].fn \in Envs /\ gs[e].catch = fs[e].catch
          /\ t \in 1 .. n /\ n + 1 \in Nat /\ n <= n + 1
      BY <2>1, <2>3, <1>1
    <3>2. Waits(fs, e, n) <=> Waits(gs, e, n)
      BY <1>1, WaitsSame DEF FnsUpTo
    <3>3. Waits(fs, e, n) <=> Waits(fs, e, n + 1)
      BY <3>1, <1>1, WaitsHidden
    <3> QED
      BY <3>1, <3>2, <3>3, <1>a
  <2> QED BY <2>2, <2>3
<1>3. OldFlags(gs)
  <2> SUFFICES ASSUME NEW j \in 1 .. n, gs[j].fn = "call_sv"
               PROVE  gs[j].catch <=> CallOver(gs, j - 1)
    BY DEF OldFlags, n
  <2>1. j # t /\ j \in 1 .. n + 1
    BY <1>1 DEF Envs
  <2>a. \A i \in 1 .. j : i \in 1 .. n
    <3>1. n \in Nat
      BY <1>1
    <3> QED BY <3>1
  <2>2. gs[j].catch = fs[j].catch /\ \A i \in 1 .. j : gs[i].fn = fs[i].fn
    BY <2>1, <2>a, <1>1
  <2>3. fs[j].catch <=> CallOver(fs, j - 1)
    <3>1. j \in 1 .. j
      BY <2>1
    <3>2. fs[j].fn = "call_sv"
      BY <3>1, <2>2
    <3> QED BY <2>1, <3>2, <1>b
  <2>4. CallOver(fs, j - 1) <=> CallOver(gs, j - 1)
    BY <2>2, <1>1, CallOverUnder
  <2> QED
    BY <2>2, <2>3, <2>4
<1> QED
  BY <1>2, <1>3

-----------------------------------------------------------------------------
(* Evals and their owners.                                                 *)

LEMMA OwnerUnique ==
  ASSUME NEW fs, CStack(fs), NEW k \in Nat, NEW cx, NEW m, NEW n,
         Owner(fs, k, cx, m), Owner(fs, k, cx, n)
  PROVE  m = n
<1>1. CASE cx.loop # 0
  BY <1>1 DEF Owner
<1>2. CASE cx.loop = 0
  <2>1. /\ m \in 1 .. Len(fs) /\ n \in 1 .. Len(fs) /\ Len(fs) \in Nat
        /\ fs[m].fn = "call_sv_eval" /\ fs[m].base + 1 = k /\ fs[m].base \in Nat
        /\ fs[n].fn = "call_sv_eval" /\ fs[n].base + 1 = k /\ fs[n].base \in Nat
        /\ \A i \in m + 1 .. Len(fs) : fs[i].fn # "leave" => fs[i].base >= k
        /\ \A i \in n + 1 .. Len(fs) : fs[i].fn # "leave" => fs[i].base >= k
    BY <1>2 DEF Owner, CStack
  <2>2. ~(m < n)
    BY <2>1, SMTT(30)
  <2>3. ~(n < m)
    BY <2>1
  <2> QED BY <2>1, <2>2, <2>3
<1> QED BY <1>1, <1>2

LEMMA OwnerSame ==
  ASSUME NEW fs, NEW gs, CStack(fs), CStack(gs), NEW k, NEW cx,
         NEW n \in 1 .. Len(gs), n <= Len(fs),
         SameUpTo(fs, gs, n), Owner(fs, k, cx, n),
         \A i \in n + 1 .. Len(gs) : \/ i <= Len(fs) /\ gs[i].fn = fs[i].fn /\ gs[i].base = fs[i].base
                                     \/ gs[i].fn = "leave" \/ gs[i].base >= k
  PROVE  Owner(gs, k, cx, n)
<1>1. n \in Nat /\ n \in 1 .. n /\ Len(fs) \in Nat /\ Len(gs) \in Nat
  BY DEF CStack
<1>2. gs[n].fn = fs[n].fn /\ gs[n].base = fs[n].base
  BY <1>1 DEF SameUpTo
<1>3. MayRun(fs, n, k - 1) <=> MayRun(gs, n, k - 1)
  BY <1>1, LoopSame
<1>4. \A i \in n + 1 .. Len(gs) : gs[i].fn # "leave" => gs[i].base >= k
  <2> SUFFICES ASSUME NEW i \in n + 1 .. Len(gs), gs[i].fn # "leave", ~(gs[i].base >= k) PROVE FALSE
    OBVIOUS
  <2>1. i \in n + 1 .. Len(fs) /\ gs[i].fn = fs[i].fn /\ gs[i].base = fs[i].base
    BY <1>1
  <2> QED BY <2>1 DEF Owner
<1> QED
  BY <1>1, <1>2, <1>3, <1>4 DEF Owner

SameEntry(a, b) ==
  /\ a.type = b.type /\ a.retop = b.retop /\ a.keeperr = b.keeperr
  /\ a.env = b.env /\ a.loop = b.loop
SameEntries(cxs, ds, n) == \A k \in 1 .. n : SameEntry(cxs[k], ds[k])

LEMMA OwnerOfSame ==
  ASSUME NEW fs, NEW k, NEW a, NEW b, SameEntry(a, b), NEW n
  PROVE  Owner(fs, k, a, n) <=> Owner(fs, k, b, n)
BY DEF Owner, SameEntry

\* Evals that stay keep their owners, and with them their order.
KeepsOwners(fs, gs, cxs, ds, l) ==
  \A k \in 1 .. l, n \in 1 .. Len(fs) : cxs[k].type = "eval" /\ Owner(fs, k, cxs[k], n) =>
    n \in 1 .. Len(gs) /\ Owner(gs, k, ds[k], n)

LEMMA EvalsKept ==
  ASSUME NEW fs, NEW gs, NEW cxs, NEW ds, CStack(fs), CStack(gs), PStack(cxs), PStack(ds),
         Evals(fs, cxs), Ordered(fs, cxs), Len(ds) <= Len(cxs),
         \A k \in 1 .. Len(ds) : SameEntry(cxs[k], ds[k]),
         KeepsOwners(fs, gs, cxs, ds, Len(ds))
  PROVE  Evals(gs, ds) /\ Ordered(gs, ds)
<1>1. /\ Len(ds) \in Nat /\ Len(cxs) \in Nat
      /\ \A k \in 1 .. Len(ds) : k \in 1 .. Len(cxs) /\ k \in Nat /\ ds[k].type = cxs[k].type
                                 /\ ds[k].loop = cxs[k].loop
  BY DEF PStack, SameEntry
<1>2. ASSUME NEW k \in 1 .. Len(ds), ds[k].type = "eval"
      PROVE  \E n \in 1 .. Len(fs) : Owner(fs, k, cxs[k], n) /\ n \in 1 .. Len(gs) /\ Owner(gs, k, ds[k], n)
  BY <1>1, <1>2 DEF Evals, KeepsOwners
<1>3. Evals(gs, ds)
  BY <1>2 DEF Evals
<1>4. Ordered(gs, ds)
  <2> SUFFICES ASSUME NEW k \in 1 .. Len(ds), NEW l \in 1 .. Len(ds),
                      NEW m \in 1 .. Len(gs), NEW n \in 1 .. Len(gs), k < l,
                      ds[k].type = "eval", Owner(gs, k, ds[k], m),
                      ds[l].type = "eval", Owner(gs, l, ds[l], n)
               PROVE  m <= n /\ (ds[l].loop = 0 => m < n)
    BY DEF Ordered
  <2>1. m \in 1 .. Len(fs) /\ Owner(fs, k, cxs[k], m)
    <3>1. PICK o \in 1 .. Len(fs) : Owner(fs, k, cxs[k], o) /\ Owner(gs, k, ds[k], o)
      BY <1>2
    <3>2. o = m
      BY <3>1, <1>1, OwnerUnique
    <3> QED BY <3>1, <3>2
  <2>2. n \in 1 .. Len(fs) /\ Owner(fs, l, cxs[l], n)
    <3>1. PICK o \in 1 .. Len(fs) : Owner(fs, l, cxs[l], o) /\ Owner(gs, l, ds[l], o)
      BY <1>2
    <3>2. o = n
      BY <3>1, <1>1, OwnerUnique
    <3> QED BY <3>1, <3>2
  <2> QED
    BY <2>1, <2>2, <1>1 DEF Ordered
<1> QED BY <1>3, <1>4

\* A new eval, of the function on top.
LEMMA EvalsGrow ==
  ASSUME NEW fs, NEW gs, NEW cxs, NEW ds, CStack(fs), CStack(gs), PStack(cxs), PStack(ds),
         Evals(fs, cxs), Ordered(fs, cxs), Len(cxs) <= Len(ds), Len(fs) <= Len(gs),
         \A k \in 1 .. Len(cxs) : SameEntry(cxs[k], ds[k]),
         KeepsOwners(fs, gs, cxs, ds, Len(cxs)),
         \A k, l \in Len(cxs) + 1 .. Len(ds) : ds[k].type = "eval" /\ ds[l].type = "eval" => k = l,
         \A k \in Len(cxs) + 1 .. Len(ds) : ds[k].type = "eval" =>
            /\ Len(gs) \in 1 .. Len(gs) /\ Owner(gs, k, ds[k], Len(gs))
            /\ ds[k].loop = 0 => Len(fs) < Len(gs)
  PROVE  Evals(gs, ds) /\ Ordered(gs, ds)
<1>1. /\ Len(ds) \in Nat /\ Len(cxs) \in Nat /\ Len(gs) \in Nat /\ Len(fs) \in Nat
      /\ \A k \in 1 .. Len(cxs) : ds[k].type = cxs[k].type /\ ds[k].loop = cxs[k].loop
      /\ \A k \in 1 .. Len(ds) : k \in Nat /\ (k \in 1 .. Len(cxs) \/ k \in Len(cxs) + 1 .. Len(ds))
  BY DEF PStack, SameEntry, CStack
<1>2. ASSUME NEW k \in 1 .. Len(cxs), ds[k].type = "eval"
      PROVE  \E n \in 1 .. Len(fs) : Owner(fs, k, cxs[k], n) /\ n \in 1 .. Len(gs) /\ Owner(gs, k, ds[k], n)
  BY <1>1, <1>2 DEF Evals, KeepsOwners
<1>3. Evals(gs, ds)
  <2> SUFFICES ASSUME NEW k \in 1 .. Len(ds), ds[k].type = "eval"
               PROVE  \E n \in 1 .. Len(gs) : Owner(gs, k, ds[k], n)
    BY DEF Evals
  <2>1. CASE k \in 1 .. Len(cxs)
    BY <2>1, <1>2
  <2>2. CASE k \in Len(cxs) + 1 .. Len(ds)
    BY <2>2
  <2> QED BY <2>1, <2>2, <1>1
<1>4. Ordered(gs, ds)
  <2> SUFFICES ASSUME NEW k \in 1 .. Len(ds), NEW l \in 1 .. Len(ds),
                      NEW m \in 1 .. Len(gs), NEW n \in 1 .. Len(gs), k < l,
                      ds[k].type = "eval", Owner(gs, k, ds[k], m),
                      ds[l].type = "eval", Owner(gs, l, ds[l], n)
               PROVE  m <= n /\ (ds[l].loop = 0 => m < n)
    BY DEF Ordered
  <2>1. k \in 1 .. Len(cxs)
    BY <1>1
  <2>2. m \in 1 .. Len(fs) /\ Owner(fs, k, cxs[k], m)
    <3>1. PICK o \in 1 .. Len(fs) : Owner(fs, k, cxs[k], o) /\ Owner(gs, k, ds[k], o)
      BY <1>2, <2>1
    <3>2. o = m
      BY <3>1, <1>1, OwnerUnique
    <3> QED BY <3>1, <3>2
  <2>3. CASE l \in 1 .. Len(cxs)
    <3>1. n \in 1 .. Len(fs) /\ Owner(fs, l, cxs[l], n)
      <4>1. PICK o \in 1 .. Len(fs) : Owner(fs, l, cxs[l], o) /\ Owner(gs, l, ds[l], o)
        BY <1>2, <2>3
      <4>2. o = n
        BY <4>1, <1>1, OwnerUnique
      <4> QED BY <4>1, <4>2
    <3> QED
      BY <2>1, <2>2, <2>3, <3>1, <1>1 DEF Ordered
  <2>4. CASE l \in Len(cxs) + 1 .. Len(ds)
    <3>1. Owner(gs, l, ds[l], Len(gs)) /\ (ds[l].loop = 0 => Len(fs) < Len(gs))
      BY <2>4
    <3>2. n = Len(gs)
      BY <3>1, <1>1, OwnerUnique
    <3> QED
      BY <3>1, <3>2, <2>2, <1>1
  <2> QED BY <2>3, <2>4, <1>1
<1> QED BY <1>3, <1>4

-----------------------------------------------------------------------------
(* A function is called.                                                   *)

\* What f needs to be called, and what it puts on Perl's stack.
Calls(fs, cxs, f, ds) ==
  /\ MayCall(fs, f)
  /\ IF f.fn = "leave" THEN f.base <= Len(cxs) ELSE Low(f) = Len(cxs)
  /\ f.fn \notin CallFns => Len(ds) = Len(cxs)
  /\ f.fn = "call_sv" =>
       /\ Len(ds) = Len(cxs) + 2 /\ ds[Len(cxs) + 1].type = "stackinfo"
       /\ ds[Len(cxs) + 2].type = "sub" /\ ds[Len(cxs) + 2].retop = FALSE
       /\ fs[Len(fs)].fn = "my_exit" => NoEval(cxs, Len(cxs))
  /\ f.fn = "call_sv_eval" =>
       /\ Len(ds) = Len(cxs) + 3
       /\ ds[Len(cxs) + 1].type = "stackinfo" /\ ds[Len(cxs) + 1].onleave = ""
       /\ ds[Len(cxs) + 2].type = "eval" /\ ds[Len(cxs) + 2].loop = 0
       /\ ds[Len(cxs) + 2].env <= Len(fs)
       /\ ds[Len(cxs) + 3].type = "sub" /\ ds[Len(cxs) + 3].retop = FALSE
  /\ f.fn = "yyparse" =>
       Len(cxs) > 0 /\ cxs[Len(cxs)].type = "eval" /\ cxs[Len(cxs)].loop = Len(fs)
  /\ f.fn = "die_unwind" => ~NoEval(cxs, Len(cxs))
  /\ f.fn = "my_exit" => NoEval(cxs, Len(cxs)) \/ NoStore(cxs, Len(cxs))

Pushes(fs, gs, cxs, ds) ==
  /\ CStack(fs) /\ CStack(gs) /\ PStack(cxs) /\ PStack(ds)
  /\ Len(gs) = Len(fs) + 1 /\ SameUpTo(fs, gs, Len(fs))
  /\ Len(cxs) <= Len(ds) /\ \A k \in 1 .. Len(cxs) : ds[k] = cxs[k]
  /\ Calls(fs, cxs, gs[Len(gs)], ds)

LEMMA PushFacts ==
  ASSUME NEW fs, NEW gs, NEW cxs, NEW ds, Pushes(fs, gs, cxs, ds)
  PROVE  /\ Len(fs) \in Nat /\ Len(gs) = Len(fs) + 1 /\ Len(gs) \in 1 .. Len(gs)
         /\ \A i \in 1 .. Len(fs) : /\ i \in 1 .. Len(gs) /\ gs[i].fn = fs[i].fn
                                    /\ gs[i].base = fs[i].base /\ Low(gs[i]) = Low(fs[i])
                                    /\ Guard(gs[i]) = Guard(fs[i]) /\ fs[i].base \in Nat
         /\ \A i \in 1 .. Len(gs) : i \in 1 .. Len(fs) \/ i = Len(gs)
         /\ \A a, b \in Nat : a > 0 /\ b <= Len(fs) => (NoExit(gs, a, b) <=> NoExit(fs, a, b))
         /\ \A i \in 1 .. Len(fs) : Guarded(gs, i) <=> Guarded(fs, i)
         /\ Len(cxs) \in Nat /\ Len(ds) \in Nat /\ Len(cxs) <= Len(ds)
         /\ \A k \in 1 .. Len(cxs) : k \in 1 .. Len(ds) /\ ds[k] = cxs[k]
         /\ gs[Len(gs)].base \in Nat /\ gs[Len(gs)].fn \in Fns
         /\ gs[Len(gs)].fn # "leave" => /\ Low(gs[Len(gs)]) = Len(cxs)
                                        /\ gs[Len(gs)].base >= Len(cxs)
<1>1. /\ Len(fs) \in Nat /\ Len(gs) = Len(fs) + 1 /\ Len(gs) \in 1 .. Len(gs)
      /\ \A i \in 1 .. Len(fs) : /\ i \in 1 .. Len(gs) /\ gs[i].fn = fs[i].fn
                                 /\ gs[i].base = fs[i].base /\ fs[i].base \in Nat
      /\ gs[Len(gs)].base \in Nat /\ gs[Len(gs)].fn \in Fns
      /\ Len(cxs) \in Nat /\ Len(ds) \in Nat /\ Len(cxs) <= Len(ds)
      /\ \A k \in 1 .. Len(cxs) : ds[k] = cxs[k]
  <2>1. /\ CStack(fs) /\ CStack(gs) /\ PStack(cxs) /\ PStack(ds) /\ Len(gs) = Len(fs) + 1
        /\ SameUpTo(fs, gs, Len(fs)) /\ Len(cxs) <= Len(ds)
        /\ \A k \in 1 .. Len(cxs) : ds[k] = cxs[k]
    BY DEF Pushes
  <2>2. /\ Len(fs) \in Nat /\ Len(cxs) \in Nat /\ Len(ds) \in Nat
        /\ \A i \in 1 .. Len(fs) : fs[i].base \in Nat
        /\ \A i \in 1 .. Len(gs) : gs[i].base \in Nat /\ gs[i].fn \in Fns
    BY <2>1 DEF CStack, PStack
  <2>3. Len(gs) \in 1 .. Len(gs) /\ \A i \in 1 .. Len(fs) : i \in 1 .. Len(gs)
    BY <2>1, <2>2
  <2>4. \A i \in 1 .. Len(fs) : gs[i].fn = fs[i].fn /\ gs[i].base = fs[i].base
    BY <2>1 DEF SameUpTo
  <2> QED BY <2>1, <2>2, <2>3, <2>4
<1>2. \A i \in 1 .. Len(fs) : Low(gs[i]) = Low(fs[i]) /\ Guard(gs[i]) = Guard(fs[i])
  BY <1>1 DEF Low, Guard
<1>3. \A a, b \in Nat : a > 0 /\ b <= Len(fs) => (NoExit(gs, a, b) <=> NoExit(fs, a, b))
  <2>1. \A a, b \in Nat : a > 0 /\ b <= Len(fs) => \A i \in a .. b : i \in 1 .. Len(fs)
    BY <1>1
  <2> QED BY <1>1, <2>1 DEF NoExit
<1>4. \A i \in 1 .. Len(fs) : Guarded(gs, i) <=> Guarded(fs, i)
  <2>1. \A i \in 1 .. Len(fs) : i > 1 => i - 1 \in 1 .. Len(fs)
    BY <1>1
  <2> QED BY <1>1, <2>1 DEF Guarded
<1>5. gs[Len(gs)].fn # "leave" => /\ Low(gs[Len(gs)]) = Len(cxs)
                                  /\ gs[Len(gs)].base >= Len(cxs)
  <2>1. gs[Len(gs)].fn # "leave" => Low(gs[Len(gs)]) = Len(cxs)
    BY DEF Pushes, Calls
  <2> QED BY <2>1, <1>1 DEF Low
<1>6. \A k \in 1 .. Len(cxs) : k \in 1 .. Len(ds)
  BY <1>1
<1>7. \A i \in 1 .. Len(gs) : i \in 1 .. Len(fs) \/ i = Len(gs)
  BY <1>1
<1> QED
  BY <1>1, <1>2, <1>3, <1>4, <1>5, <1>6, <1>7

LEMMA OneLess ==
  ASSUME NEW a \in Nat, NEW b \in Nat, a - 1 = b
  PROVE  a = b + 1 /\ \A p \in Nat : p > 0 /\ p <= a => p \in 1 .. b \/ p = b + 1
OBVIOUS

LEMMA PushStatic ==
  ASSUME NEW fs, NEW gs, NEW cxs, NEW ds, Pushes(fs, gs, cxs, ds), Static(fs), Held(fs, cxs)
  PROVE  Static(gs)
<1> DEFINE f == gs[Len(gs)]
           n == Len(fs)
<1>1. ASSUME NEW i \in 1 .. n, Guarded(fs, i), NoExit(fs, i + 1, n)
      PROVE  Low(f) >= Guard(fs[i])
  <2>1. CASE f.fn # "leave"
    <3>1. Len(cxs) >= Guard(fs[i])
      BY <1>1 DEF Held, Guards, Kept
    <3> QED BY <2>1, <3>1, PushFacts
  <2>2. CASE f.fn = "leave"
    <3>1. /\ n \in Nat /\ n > 0 /\ n \in 1 .. n /\ Low(f) = f.base
          /\ f.base \in Nat /\ fs[i].base \in Nat /\ CStack(fs)
      BY <2>2, PushFacts DEF Low, Static, Bottom, Pushes
    <3>2. fs[n].fn \in Loops /\ (MayRun(fs, n, f.base) \/ HasEnded(fs, n, f.base))
      BY <2>2 DEF Pushes, Calls, MayCall, Callers
    <3>3. PICK r \in 1 .. n : LoopFor(fs, r, n)
      BY <3>1, <3>2, LoopExists DEF Static
    <3>4. ~(i > r)
      <4>1. i > r => fs[i].fn = "docatch"
        BY <3>1, <3>3 DEF LoopFor
      <4> QED BY <4>1, <1>1 DEF Guarded
    <3>5. fs[r].fn # "perl_run"
      <4> SUFFICES ASSUME fs[r].fn = "perl_run" PROVE FALSE
        OBVIOUS
      <4>1. r = 1
        BY <3>1, <3>3 DEF Static, Bottom
      <4>2. fs[i].fn = "perl_run"
        BY <3>1, <3>4, <4>1
      <4> QED BY <4>2, <1>1 DEF Guarded
    <3>6. f.base >= fs[r].base + 1 /\ fs[r].base \in Nat
      BY <3>2, <3>3, <3>5, <3>1 DEF MayRun, HasEnded, CStack
    <3>7. CASE i = r
      BY <3>6, <3>7, <3>1 DEF Guard
    <3>8. CASE i < r
      <4>1. NoExit(fs, i + 1, r - 1)
        <5>1. \A q \in i + 1 .. r - 1 : q \in i + 1 .. n
          BY <3>1, <3>3
        <5> QED BY <5>1, <1>1 DEF NoExit
      <4>2. Low(fs[r]) >= Guard(fs[i])
        BY <4>1, <3>8, <1>1 DEF Static, Above
      <4>3. Low(fs[r]) <= fs[r].base /\ Low(fs[r]) \in Int /\ Guard(fs[i]) \in Nat
        BY <3>1, <3>6 DEF Low, Guard
      <4> QED
        BY <4>2, <4>3, <3>1, <3>6
    <3> QED BY <3>1, <3>4, <3>7, <3>8
  <2> QED BY <2>1, <2>2
<1>2. CStack(fs) /\ CStack(gs) /\ Len(gs) = Len(fs) + 1 /\ SameUpTo(fs, gs, Len(fs)) /\ MayCall(fs, f)
  BY DEF Pushes, Calls
<1> QED
  BY <1>1, <1>2, StaticPush

LEMMA PushZones ==
  ASSUME NEW fs, NEW gs, NEW cxs, NEW ds, Pushes(fs, gs, cxs, ds), Zones(fs, cxs, Len(cxs))
  PROVE  Zones(gs, ds, Len(ds))
<1> DEFINE f == gs[Len(gs)]
<1>1. SUFFICES ASSUME NEW i \in 1 .. Len(gs), NEW p \in 1 .. Len(ds),
                      gs[i].fn \in {"perl_run"} \cup CallFns, p > gs[i].base,
                      \A j \in i + 1 .. Len(gs) : gs[j].fn \notin {"docatch", "leave"} => p <= Low(gs[j])
               PROVE  Expected(gs[i], p, ds[p])
  BY DEF Zones
<1>2. f.fn \notin CallFns => Len(ds) = Len(cxs)
  BY DEF Pushes, Calls
<1>3. CASE i \in 1 .. Len(fs)
  <2>1. p \in 1 .. Len(cxs)
    <3>1. CASE f.fn \in {"docatch", "leave"}
      BY <3>1, <1>2 DEF CallFns
    <3>2. CASE f.fn \notin {"docatch", "leave"}
      <4>1. Len(gs) \in i + 1 .. Len(gs)
        BY <1>3, PushFacts
      <4>2. p <= Low(f) /\ Low(f) = Len(cxs)
        BY <3>2, <4>1, <1>1, PushFacts
      <4> QED BY <4>2, PushFacts
    <3> QED BY <3>1, <3>2
  <2>2. \A j \in i + 1 .. Len(fs) : fs[j].fn \notin {"docatch", "leave"} => p <= Low(fs[j])
    <3>1. \A j \in i + 1 .. Len(fs) : j \in 1 .. Len(fs) /\ j \in i + 1 .. Len(gs)
      BY <1>3, PushFacts
    <3> QED BY <3>1, <1>1, PushFacts
  <2>3. gs[i].fn = fs[i].fn /\ gs[i].base = fs[i].base /\ ds[p] = cxs[p]
    BY <1>3, <2>1, PushFacts
  <2>4. Expected(fs[i], p, cxs[p])
    BY <1>1, <1>3, <2>1, <2>2, <2>3 DEF Zones
  <2> QED
    BY <2>3, <2>4 DEF Expected
<1>4. CASE i = Len(gs)
  <2>1. f.fn # "perl_run"
    BY DEF Pushes, Calls, MayCall, Callers
  <2>2. Len(cxs) \in Nat /\ f.base \in Nat /\ (f.fn # "leave" => Low(f) = Len(cxs))
    BY PushFacts
  <2>3. CASE f.fn = "call_sv"
    <3>1. /\ f.base = Len(cxs) /\ Len(ds) = Len(cxs) + 2
          /\ ds[Len(cxs) + 2].retop = FALSE
      BY <2>2, <2>3 DEF Pushes, Calls, Low
    <3>2. p > f.base + 1 => p = Len(cxs) + 2
      BY <3>1, <2>2
    <3> QED
      BY <1>4, <2>1, <2>2, <3>1, <3>2 DEF Expected
  <2>4. CASE f.fn = "call_sv_eval"
    <3>0. Low(f) = f.base - 1 /\ Low(f) = Len(cxs)
      BY <2>2, <2>4 DEF Low
    <3>1. /\ f.base = Len(cxs) + 1 /\ Len(ds) = Len(cxs) + 3
          /\ ds[Len(cxs) + 3].retop = FALSE
      <4>1. Len(ds) = Len(cxs) + 3 /\ ds[Len(cxs) + 3].retop = FALSE
        BY <2>4 DEF Pushes, Calls
      <4> QED BY <4>1, <3>0, <2>2
    <3>2. p > f.base + 1 => p = Len(cxs) + 3
      BY <3>1, <2>2
    <3> QED
      BY <1>4, <2>1, <2>2, <3>1, <3>2 DEF Expected
  <2> QED
    BY <1>1, <1>4, <2>1, <2>3, <2>4 DEF CallFns
<1> QED
  BY <1>3, <1>4, PushFacts

LEMMA PushOwner ==
  ASSUME NEW fs, NEW gs, NEW cxs, NEW ds, Pushes(fs, gs, cxs, ds),
         NEW k \in 1 .. Len(cxs), NEW cx, NEW n \in 1 .. Len(fs), Owner(fs, k, cx, n)
  PROVE  Owner(gs, k, cx, n)
<1>1. n \in 1 .. Len(gs) /\ n <= Len(fs) /\ CStack(fs) /\ CStack(gs)
  BY PushFacts DEF Pushes
<1>2. SameUpTo(fs, gs, n)
  <2>1. \A i \in 1 .. n : i \in 1 .. Len(fs)
    BY PushFacts
  <2> QED BY <2>1, PushFacts DEF SameUpTo
<1>3. \A i \in n + 1 .. Len(gs) : \/ i <= Len(fs) /\ gs[i].fn = fs[i].fn /\ gs[i].base = fs[i].base
                                  \/ gs[i].fn = "leave" \/ gs[i].base >= k
  <2> TAKE i \in n + 1 .. Len(gs)
  <2>1. CASE i = Len(gs)
    BY <2>1, PushFacts, SMTT(30)
  <2>2. CASE i # Len(gs)
    <3>1. i \in 1 .. Len(fs)
      BY <2>2, PushFacts
    <3> QED BY <3>1, PushFacts
  <2> QED BY <2>1, <2>2
<1> QED
  BY <1>1, <1>2, <1>3, OwnerSame

LEMMA PushEvals ==
  ASSUME NEW fs, NEW gs, NEW cxs, NEW ds, Pushes(fs, gs, cxs, ds), Evals(fs, cxs), Ordered(fs, cxs)
  PROVE  Evals(gs, ds) /\ Ordered(gs, ds)
<1> DEFINE f == gs[Len(gs)]
<1>1. CStack(fs) /\ CStack(gs) /\ PStack(cxs) /\ PStack(ds) /\ Len(cxs) <= Len(ds) /\ Len(fs) <= Len(gs)
  BY PushFacts DEF Pushes
<1>2. \A k \in 1 .. Len(cxs) : SameEntry(cxs[k], ds[k])
  BY PushFacts DEF SameEntry
<1>3. KeepsOwners(fs, gs, cxs, ds, Len(cxs))
  BY PushOwner, PushFacts DEF KeepsOwners
<1>4. \A k \in Len(cxs) + 1 .. Len(ds) : ds[k].type = "eval" => f.fn = "call_sv_eval" /\ k = Len(cxs) + 2
  <2> TAKE k \in Len(cxs) + 1 .. Len(ds)
  <2>0. Len(cxs) \in Nat /\ Len(ds) \in Nat
    BY PushFacts
  <2>1. CASE f.fn \notin CallFns
    <3>1. Len(ds) = Len(cxs)
      BY <2>1 DEF Pushes, Calls
    <3>2. FALSE
      BY <2>0, <3>1
    <3> QED BY <3>2
  <2>2. CASE f.fn = "call_sv"
    <3>1. /\ Len(ds) = Len(cxs) + 2 /\ ds[Len(cxs) + 1].type = "stackinfo"
          /\ ds[Len(cxs) + 2].type = "sub"
      BY <2>2 DEF Pushes, Calls
    <3>2. k = Len(cxs) + 1 \/ k = Len(cxs) + 2
      BY <3>1, <2>0
    <3> QED BY <3>1, <3>2
  <2>3. CASE f.fn = "call_sv_eval"
    <3>1. /\ Len(ds) = Len(cxs) + 3 /\ ds[Len(cxs) + 1].type = "stackinfo"
          /\ ds[Len(cxs) + 3].type = "sub"
      BY <2>3 DEF Pushes, Calls
    <3>2. k = Len(cxs) + 1 \/ k = Len(cxs) + 2 \/ k = Len(cxs) + 3
      BY <3>1, <2>0
    <3> QED BY <2>3, <3>1, <3>2
  <2> QED BY <2>1, <2>2, <2>3 DEF CallFns
<1>5. \A k, l \in Len(cxs) + 1 .. Len(ds) : ds[k].type = "eval" /\ ds[l].type = "eval" => k = l
  BY <1>4
<1>6. ASSUME NEW k \in Len(cxs) + 1 .. Len(ds), ds[k].type = "eval"
      PROVE  /\ Len(gs) \in 1 .. Len(gs) /\ Owner(gs, k, ds[k], Len(gs))
             /\ ds[k].loop = 0 => Len(fs) < Len(gs)
  <2>1. f.fn = "call_sv_eval" /\ k = Len(cxs) + 2
    BY <1>4, <1>6
  <2>2. Low(f) = Len(cxs) /\ f.base \in Nat /\ Len(gs) = Len(fs) + 1 /\ Len(fs) \in Nat
        /\ Len(gs) \in 1 .. Len(gs) /\ Len(cxs) \in Nat
    BY <2>1, PushFacts
  <2>3. f.base + 1 = k
    BY <2>1, <2>2 DEF Low
  <2>4. ds[k].loop = 0 /\ ds[k].env <= Len(fs) /\ ds[k].env \in Nat
    <3>1. k \in 1 .. Len(ds)
      BY <2>2, <1>1
    <3>2. ds[k].env \in Nat
      BY <1>1, <3>1 DEF PStack
    <3> QED
      BY <2>1, <3>2 DEF Pushes, Calls
  <2> QED
    BY <2>1, <2>2, <2>3, <2>4 DEF Owner
<1> QED
  BY <1>1, <1>2, <1>3, <1>5, <1>6, EvalsGrow

LEMMA PushExits ==
  ASSUME NEW fs, NEW gs, NEW cxs, NEW ds, Pushes(fs, gs, cxs, ds), Static(fs), Static(gs),
         Held(fs, cxs), ExitsClean(fs, cxs)
  PROVE  ExitsClean(gs, ds)
<1> DEFINE f == gs[Len(gs)]
<1> SUFFICES ASSUME NEW x \in 1 .. Len(gs), gs[x].fn = "my_exit", NoExit(gs, x + 1, Len(gs))
             PROVE  /\ x = Len(gs) => NoEval(ds, Len(ds)) \/ NoStore(ds, Len(ds))
                    /\ x < Len(gs) /\ gs[x + 1].fn = "call_sv" => NoEval(ds, gs[x + 1].base)
                    /\ x < Len(gs) /\ gs[x + 1].fn = "call_sv_eval" =>
                         NoEval(ds, gs[x + 1].base) \/ NoStore(ds, gs[x + 1].base)
  BY DEF ExitsClean
<1>0. /\ Len(fs) \in Nat /\ Len(gs) = Len(fs) + 1 /\ Len(cxs) \in Nat /\ f.base \in Nat
      /\ Len(ds) \in Nat /\ Len(cxs) <= Len(ds)
      /\ \A k \in 1 .. Len(cxs) : ds[k] = cxs[k]
  BY PushFacts
<1>1. CASE x = Len(gs)
  <2>1. f.fn \notin CallFns
    BY <1>1 DEF CallFns
  <2>2. Len(ds) = Len(cxs) /\ (NoEval(cxs, Len(cxs)) \/ NoStore(cxs, Len(cxs)))
    BY <1>1, <2>1 DEF Pushes, Calls
  <2> QED
    BY <1>0, <1>1, <2>2 DEF NoEval, NoStore
<1>2. CASE x = Len(fs)
  <2>1. fs[x].fn = "my_exit" /\ x \in 1 .. Len(fs) /\ NoExit(fs, x + 1, Len(fs))
    <3>1. x \in 1 .. Len(fs)
      BY <1>2, <1>0
    <3>2. \A i \in x + 1 .. Len(fs) : FALSE
      BY <1>2, <1>0
    <3> QED BY <3>1, <3>2, PushFacts DEF NoExit
  <2>2. NoEval(cxs, Len(cxs)) \/ NoStore(cxs, Len(cxs))
    BY <1>2, <2>1 DEF ExitsClean
  <2>3. ASSUME f.fn = "call_sv" PROVE NoEval(ds, f.base)
    <3>1. f.base = Len(cxs) /\ NoEval(cxs, Len(cxs))
      BY <2>1, <2>3, <1>2 DEF Pushes, Calls, Low
    <3>2. \A p \in 1 .. Len(ds) : p <= f.base => p \in 1 .. Len(cxs)
      BY <3>1, <1>0
    <3> QED
      BY <3>1, <3>2, <1>0 DEF NoEval
  <2>4. ASSUME f.fn = "call_sv_eval" PROVE NoEval(ds, f.base) \/ NoStore(ds, f.base)
    <3>a. Low(f) = f.base - 1 /\ Low(f) = Len(cxs)
      BY <2>4, PushFacts DEF Low
    <3>1. f.base - 1 = Len(cxs) /\ ds[Len(cxs) + 1].type = "stackinfo" /\ ds[Len(cxs) + 1].onleave = ""
      BY <2>4, <3>a DEF Pushes, Calls
    <3>2. \A p \in 1 .. Len(ds) : p <= f.base => p \in 1 .. Len(cxs) \/ p = Len(cxs) + 1
      <4>1. f.base \in Nat /\ Len(cxs) \in Nat
        BY <1>0
      <4>2. \A p \in Nat : p > 0 /\ p <= f.base => p \in 1 .. Len(cxs) \/ p = Len(cxs) + 1
        BY <3>1, <4>1, OneLess
      <4> QED BY <4>2, <1>0
    <3>3. \A p \in 1 .. Len(cxs) : p <= Len(cxs)
      BY <1>0
    <3> QED
      BY <2>2, <3>1, <3>2, <3>3, <1>0 DEF NoEval, NoStore
  <2> QED
    BY <1>2, <1>0, <2>3, <2>4
<1>3. CASE x < Len(fs)
  <2>1. x \in 1 .. Len(fs) /\ x + 1 \in 1 .. Len(fs) /\ x + 1 < Len(gs) /\ x + 1 \in Nat /\ x + 1 > 0
    BY <1>3, <1>0
  <2>2. NoExit(fs, x + 1, Len(fs)) /\ fs[x].fn = "my_exit"
    <3>1. \A i \in x + 1 .. Len(fs) : i \in x + 1 .. Len(gs)
      BY <1>0
    <3>2. NoExit(gs, x + 1, Len(fs))
      BY <3>1 DEF NoExit
    <3> QED
      BY <2>1, <3>2, <1>0, PushFacts
  <2>3. gs[x + 1].fn = fs[x + 1].fn /\ gs[x + 1].base = fs[x + 1].base
    BY <2>1, PushFacts
  <2>4. ASSUME fs[x + 1].fn \in CallFns PROVE fs[x + 1].base <= Len(cxs)
    <3>1. Guarded(fs, x + 1)
      BY <2>1, <2>2, <2>4 DEF Guarded, CallFns
    <3>2. NoExit(fs, x + 1 + 1, Len(fs))
      <4>1. \A i \in x + 1 + 1 .. Len(fs) : i \in x + 1 .. Len(fs)
        BY <2>1
      <4> QED BY <4>1, <2>2 DEF NoExit
    <3>3. Len(cxs) >= Guard(fs[x + 1])
      BY <2>1, <3>1, <3>2 DEF Held, Guards, Kept
    <3>4. fs[x + 1].base \in Nat
      BY <2>1, PushFacts
    <3> QED BY <3>3, <3>4, <1>0, <2>4 DEF Guard, CallFns
  <2>5. ASSUME NEW b \in Nat, b <= Len(cxs)
        PROVE  (NoEval(cxs, b) => NoEval(ds, b)) /\ (NoStore(cxs, b) => NoStore(ds, b))
    <3>1. \A p \in 1 .. Len(ds) : p <= b => p \in 1 .. Len(cxs) /\ ds[p] = cxs[p]
      BY <1>0, <2>5
    <3> QED BY <3>1 DEF NoEval, NoStore
  <2>6. fs[x + 1].base \in Nat
    BY <2>1, PushFacts
  <2>7. /\ fs[x + 1].fn = "call_sv" => NoEval(cxs, fs[x + 1].base)
        /\ fs[x + 1].fn = "call_sv_eval" =>
             NoEval(cxs, fs[x + 1].base) \/ NoStore(cxs, fs[x + 1].base)
    BY <2>1, <2>2, <1>3 DEF ExitsClean
  <2>8. ASSUME gs[x + 1].fn = "call_sv" PROVE NoEval(ds, gs[x + 1].base)
    BY <2>3, <2>4, <2>5, <2>6, <2>7, <2>8 DEF CallFns
  <2>9. ASSUME gs[x + 1].fn = "call_sv_eval"
        PROVE  NoEval(ds, gs[x + 1].base) \/ NoStore(ds, gs[x + 1].base)
    BY <2>3, <2>4, <2>5, <2>6, <2>7, <2>9 DEF CallFns
  <2>10. x # Len(gs)
    BY <1>3, <1>0
  <2> QED
    BY <2>8, <2>9, <2>10
<1> QED
  BY <1>0, <1>1, <1>2, <1>3

LEMMA PushHeld ==
  ASSUME NEW fs, NEW gs, NEW cxs, NEW ds, Pushes(fs, gs, cxs, ds), Static(fs),
         Evals(fs, cxs), ExitsClean(fs, cxs), Held(fs, cxs)
  PROVE  Held(gs, ds)
<1> DEFINE f == gs[Len(gs)]
<1>0. /\ Len(fs) \in Nat /\ Len(gs) = Len(fs) + 1 /\ Len(cxs) \in Nat /\ f.base \in Nat
      /\ Len(ds) \in Nat /\ Len(cxs) <= Len(ds)
      /\ \A k \in 1 .. Len(cxs) : ds[k] = cxs[k] /\ k \in 1 .. Len(ds)
  BY PushFacts
<1>a. ASSUME NEW i \in 1 .. Len(fs), NoExit(gs, i + 1, Len(gs)) PROVE NoExit(fs, i + 1, Len(fs))
  <2>1. \A q \in i + 1 .. Len(fs) : q \in i + 1 .. Len(gs) /\ gs[q].fn = fs[q].fn
    BY <1>0, PushFacts
  <2> QED BY <2>1, <1>a DEF NoExit
<1>1. Guards(gs, ds, Len(gs))
  <2> SUFFICES ASSUME NEW i \in 1 .. Len(gs), Guarded(gs, i), NoExit(gs, i + 1, Len(gs))
               PROVE  Kept(gs, ds, i)
    BY DEF Guards
  <2>1. CASE i \in 1 .. Len(fs)
    <3>1. gs[i].fn = fs[i].fn /\ gs[i].base = fs[i].base /\ Guard(gs[i]) = Guard(fs[i])
          /\ fs[i].base \in Nat
      BY <2>1, PushFacts
    <3>2. Kept(fs, cxs, i)
      BY <2>1, <1>a, PushFacts DEF Held, Guards
    <3>3. Len(cxs) >= Guard(fs[i])
      BY <3>2 DEF Kept
    <3>4. fs[i].fn = "call_sv_eval" => fs[i].base > 0
      <4>1. i = 1 => fs[i].fn # "call_sv_eval"
        BY DEF Static, Bottom
      <4>2. i # 1 => i \in 2 .. Len(fs)
        BY <2>1
      <4> QED BY <4>1, <4>2 DEF Static, Heights
    <3>5. fs[i].fn = "yyparse" => fs[i].base > 0
      <4>1. i = 1 => fs[i].fn # "yyparse"
        BY DEF Static, Bottom
      <4>2. i # 1 => i \in 2 .. Len(fs)
        BY <2>1
      <4> QED BY <4>1, <4>2 DEF Static, Heights
    <3>6. /\ Guard(fs[i]) \in Nat /\ Guard(fs[i]) > 0 /\ Guard(fs[i]) >= fs[i].base
      BY <3>1, <3>5 DEF Guard
    <3>7. ds[Guard(fs[i])] = cxs[Guard(fs[i])]
      BY <3>3, <3>6, <1>0
    <3>8. fs[i].fn = "call_sv_eval" => ds[fs[i].base] = cxs[fs[i].base]
      BY <3>1, <3>3, <3>4, <3>6, <1>0, SMTT(30)
    <3>9. Len(ds) >= Guard(gs[i])
      BY <3>1, <3>3, <3>6, <1>0
    <3> QED
      BY <3>1, <3>2, <3>7, <3>8, <3>9 DEF Kept
  <2>2. CASE i = Len(gs)
    <3>1. f.fn \in {"call_sv_eval", "yyparse"} \/ (f.fn = "call_sv" /\ i > 1 /\ gs[i - 1].fn = "my_exit")
      BY <2>2 DEF Guarded
    <3>2. CASE f.fn = "call_sv_eval"
      <4>0. Low(f) = f.base - 1 /\ Low(f) = Len(cxs)
        BY <3>2, PushFacts DEF Low
      <4>1. /\ Len(ds) = Len(cxs) + 3 /\ f.base - 1 = Len(cxs)
            /\ ds[Len(cxs) + 1].type = "stackinfo" /\ ds[Len(cxs) + 1].onleave = ""
            /\ ds[Len(cxs) + 2].type = "eval" /\ ds[Len(cxs) + 2].loop = 0
        BY <3>2, <4>0 DEF Pushes, Calls
      <4>2. f.base = Len(cxs) + 1 /\ Guard(f) = f.base + 1
        <5>1. f.base \in Nat /\ Len(cxs) \in Nat
          BY <1>0
        <5>2. f.base = Len(cxs) + 1
          BY <4>1, <5>1, OneLess
        <5> QED BY <5>2, <3>2 DEF Guard
      <4>3. Guard(f) = Len(cxs) + 2 /\ Len(ds) >= Guard(f)
        <5> DEFINE l == Len(cxs)
        <5>1. Guard(f) = l + 1 + 1 /\ Len(ds) = l + 3 /\ l \in Nat
          BY <4>1, <4>2, <1>0
        <5> HIDE DEF l
        <5>2. Guard(f) = l + 2 /\ Len(ds) >= Guard(f)
          BY <5>1
        <5> QED BY <5>2 DEF l
      <4> QED
        BY <2>2, <3>2, <4>1, <4>2, <4>3 DEF Kept
    <3>3. CASE f.fn = "yyparse"
      <4>1. /\ Len(ds) = Len(cxs) /\ f.base = Len(cxs) /\ Guard(f) = f.base
            /\ Len(cxs) > 0 /\ cxs[Len(cxs)].type = "eval" /\ cxs[Len(cxs)].loop = Len(fs)
        BY <3>3 DEF Pushes, Calls, Low, Guard, CallFns
      <4>2. ds[Len(cxs)] = cxs[Len(cxs)]
        BY <1>0, <4>1
      <4> QED
        BY <2>2, <3>3, <4>1, <4>2, <1>0 DEF Kept
    <3>4. CASE f.fn = "call_sv"
      <4>1. /\ Len(ds) = Len(cxs) + 2 /\ f.base = Len(cxs) /\ Guard(f) = f.base + 1
            /\ ds[Len(cxs) + 1].type = "stackinfo"
        BY <3>4 DEF Pushes, Calls, Low, Guard
      <4> QED
        BY <2>2, <3>4, <4>1, <1>0 DEF Kept
    <3> QED BY <3>1, <3>2, <3>3, <3>4
  <2> QED BY <2>1, <2>2, <1>0
<1>2. Dies(gs, ds, Len(gs))
  <2> SUFFICES ASSUME NEW d \in 1 .. Len(gs), gs[d].fn = "die_unwind", NoExit(gs, d + 1, Len(gs))
               PROVE  \E p \in 1 .. Len(ds) :
                        /\ d < Len(gs) => p <= Low(gs[d + 1])
                        /\ ds[p].type = "eval" /\ \E n \in 1 .. d - 1 : Owner(gs, p, ds[p], n)
    BY DEF Dies
  <2>1. CASE d \in 1 .. Len(fs)
    <3>1. PICK p \in 1 .. Len(cxs) :
            /\ d < Len(fs) => p <= Low(fs[d + 1])
            /\ cxs[p].type = "eval" /\ \E n \in 1 .. d - 1 : Owner(fs, p, cxs[p], n)
      <4>1. fs[d].fn = "die_unwind" /\ NoExit(fs, d + 1, Len(fs))
        BY <2>1, <1>a, PushFacts
      <4> QED BY <2>1, <4>1 DEF Held, Dies
    <3>2. PICK n \in 1 .. d - 1 : Owner(fs, p, cxs[p], n)
      BY <3>1
    <3>3. p \in 1 .. Len(ds) /\ ds[p] = cxs[p]
      BY <1>0
    <3>4. n \in 1 .. Len(fs)
      BY <2>1, <1>0
    <3>5. Owner(gs, p, ds[p], n)
      BY <3>2, <3>3, <3>4, PushOwner
    <3>6. p <= Low(gs[d + 1])
      <4>1. CASE d = Len(fs)
        <5>1. d + 1 = Len(gs)
          BY <4>1, <1>0
        <5>2. fs[Len(fs)].fn = "die_unwind"
          BY <2>1, <4>1, <1>0, PushFacts, SMTT(30)
        <5>3. f.fn # "leave"
          BY <5>2 DEF Pushes, Calls, MayCall, Callers, Loops
        <5>4. Low(f) = Len(cxs)
          BY <5>3, PushFacts
        <5> QED BY <5>1, <5>4, <1>0
      <4>2. CASE d # Len(fs)
        <5>1. d < Len(fs) /\ d + 1 \in 1 .. Len(fs)
          BY <2>1, <4>2, <1>0
        <5> QED BY <5>1, <3>1, PushFacts
      <4> QED BY <4>1, <4>2
    <3> QED BY <3>1, <3>3, <3>5, <3>6
  <2>2. CASE d = Len(gs)
    <3>1. ~NoEval(cxs, Len(cxs))
      BY <2>2 DEF Pushes, Calls
    <3>2. PICK p \in 1 .. Len(cxs) : cxs[p].type = "eval"
      BY <3>1 DEF NoEval
    <3>3. PICK n \in 1 .. Len(fs) : Owner(fs, p, cxs[p], n)
      BY <3>2 DEF Evals
    <3>4. Owner(gs, p, ds[p], n) /\ ds[p] = cxs[p] /\ p \in 1 .. Len(ds)
      BY <3>3, <1>0, PushOwner
    <3>5. n \in 1 .. d - 1
      BY <2>2, <1>0
    <3> QED BY <2>2, <3>2, <3>4, <3>5
  <2> QED BY <2>1, <2>2, <1>0
<1> QED
  BY <1>1, <1>2 DEF Held

\* A call keeps the invariant, whatever is called.
LEMMA PushKeeps ==
  ASSUME NEW fs, NEW gs, NEW cxs, NEW ds, Pushes(fs, gs, cxs, ds),
         Core(fs, cxs, Len(cxs)), Held(fs, cxs)
  PROVE  Core(gs, ds, Len(ds)) /\ Held(gs, ds)
BY PushStatic, PushZones, PushEvals, PushExits, PushHeld DEF Core

-----------------------------------------------------------------------------
(* Perl's stack changes.                                                   *)

LEMMA LoopUnique ==
  ASSUME NEW fs, NEW i \in Nat, NEW r, NEW s, LoopFor(fs, r, i), LoopFor(fs, s, i)
  PROVE  r = s
<1>1. /\ r \in 1 .. i /\ s \in 1 .. i /\ fs[r].fn # "docatch" /\ fs[s].fn # "docatch"
      /\ \A q \in r + 1 .. i : fs[q].fn = "docatch"
      /\ \A q \in s + 1 .. i : fs[q].fn = "docatch"
  BY DEF LoopFor, CallFns
<1>2. ~(r < s)
  BY <1>1
<1>3. ~(s < r)
  BY <1>1
<1> QED BY <1>1, <1>2, <1>3

LEMMA GuardIs ==
  ASSUME NEW fs, CStack(fs), Static(fs), NEW i \in 1 .. Len(fs), Guarded(fs, i)
  PROVE  /\ i \in 2 .. Len(fs) /\ Guard(fs[i]) \in Nat /\ Guard(fs[i]) > 0
         /\ fs[i].base \in Nat /\ fs[i].base <= Guard(fs[i])
         /\ fs[i].fn \in CallFns => Guard(fs[i]) = fs[i].base + 1
         /\ fs[i].fn = "call_sv_eval" => fs[i].base > 0
<1>1. fs[i].base \in Nat /\ Len(fs) \in Nat
  BY DEF CStack
<1>2. i # 1
  BY DEF Static, Bottom, Guarded
<1>3. i \in 2 .. Len(fs)
  BY <1>1, <1>2
<1>4. fs[i].fn \in {"yyparse", "call_sv_eval"} => fs[i].base > 0
  BY <1>3 DEF Static, Heights
<1> QED
  BY <1>1, <1>3, <1>4 DEF Guard, CallFns

LEMMA KeptSame ==
  ASSUME NEW fs, NEW gs, NEW cxs, NEW ds, CStack(fs), Static(fs), NEW i \in 1 .. Len(fs),
         gs[i].fn = fs[i].fn, gs[i].base = fs[i].base, Len(ds) \in Nat,
         Guarded(fs, i), Kept(fs, cxs, i), Len(ds) >= Guard(fs[i]),
         \A k \in 1 .. Guard(fs[i]) : /\ SameEntry(cxs[k], ds[k])
                                      /\ k < Guard(fs[i]) => ds[k].onleave = cxs[k].onleave
  PROVE  Kept(gs, ds, i)
<1>1. /\ Guard(fs[i]) \in Nat /\ Guard(fs[i]) > 0 /\ fs[i].base \in Nat
      /\ fs[i].fn \in CallFns => Guard(fs[i]) = fs[i].base + 1
      /\ fs[i].fn = "call_sv_eval" => fs[i].base > 0
  BY GuardIs
<1>2. Guard(gs[i]) = Guard(fs[i])
  BY DEF Guard
<1>3. Guard(fs[i]) \in 1 .. Guard(fs[i])
  BY <1>1
<1>4. ds[Guard(fs[i])].type = cxs[Guard(fs[i])].type /\ ds[Guard(fs[i])].loop = cxs[Guard(fs[i])].loop
  BY <1>3 DEF SameEntry
<1>5. ASSUME fs[i].fn = "call_sv_eval"
      PROVE  /\ ds[fs[i].base].type = cxs[fs[i].base].type
             /\ ds[fs[i].base].onleave = cxs[fs[i].base].onleave
  <2>1. fs[i].base \in 1 .. Guard(fs[i]) /\ fs[i].base < Guard(fs[i])
    BY <1>1, <1>5 DEF CallFns
  <2> QED BY <2>1 DEF SameEntry
<1> QED
  BY <1>2, <1>4, <1>5 DEF Kept

\* No entry has become an eval, or has been given something that may die.
NoWorse(cxs, ds, b) ==
  \A p \in 1 .. Len(ds) : p <= b =>
    p \in 1 .. Len(cxs) /\ ds[p].type = cxs[p].type /\ ds[p].onleave \in {"", cxs[p].onleave}

LEMMA ExitsKept ==
  ASSUME NEW fs, NEW gs, NEW cxs, NEW ds, CStack(fs), CStack(gs), Len(ds) \in Nat, Len(cxs) \in Nat,
         Len(gs) \in 1 .. Len(fs), SameUpTo(fs, gs, Len(gs)), NoExit(fs, Len(gs) + 1, Len(fs)),
         ExitsClean(fs, cxs),
         \A x \in 1 .. Len(gs) - 1 :
            gs[x].fn = "my_exit" /\ NoExit(fs, x + 1, Len(fs)) /\ gs[x + 1].fn \in CallFns =>
              NoWorse(cxs, ds, gs[x + 1].base),
         gs[Len(gs)].fn = "my_exit" => NoEval(ds, Len(ds)) \/ NoStore(ds, Len(ds))
  PROVE  ExitsClean(gs, ds)
<1> SUFFICES ASSUME NEW x \in 1 .. Len(gs), gs[x].fn = "my_exit", NoExit(gs, x + 1, Len(gs))
             PROVE  /\ x = Len(gs) => NoEval(ds, Len(ds)) \/ NoStore(ds, Len(ds))
                    /\ x < Len(gs) /\ gs[x + 1].fn = "call_sv" => NoEval(ds, gs[x + 1].base)
                    /\ x < Len(gs) /\ gs[x + 1].fn = "call_sv_eval" =>
                         NoEval(ds, gs[x + 1].base) \/ NoStore(ds, gs[x + 1].base)
  BY DEF ExitsClean
<1>0. Len(gs) \in Nat /\ Len(fs) \in Nat /\ Len(gs) <= Len(fs)
  BY DEF CStack
<1>1. CASE x = Len(gs)
  <2>1. ~(x < Len(gs)) /\ gs[Len(gs)].fn = "my_exit"
    BY <1>0, <1>1
  <2> QED BY <2>1
<1>2. CASE x # Len(gs)
  <2>1. /\ x \in 1 .. Len(gs) - 1 /\ x \in 1 .. Len(fs) /\ x + 1 \in 1 .. Len(gs) /\ x < Len(fs)
        /\ gs[x].fn = fs[x].fn /\ gs[x + 1].fn = fs[x + 1].fn /\ gs[x + 1].base = fs[x + 1].base
    <3>1. x \in 1 .. Len(gs) - 1 /\ x \in 1 .. Len(fs) /\ x + 1 \in 1 .. Len(gs) /\ x < Len(fs)
      BY <1>0, <1>2
    <3> QED BY <3>1 DEF SameUpTo
  <2>2. NoExit(fs, x + 1, Len(fs))
    <3>1. \A i \in x + 1 .. Len(fs) : i \in Len(gs) + 1 .. Len(fs) \/ (i \in x + 1 .. Len(gs) /\ i \in 1 .. Len(gs))
      BY <2>1, <1>0
    <3> QED BY <3>1 DEF NoExit, SameUpTo
  <2>3. fs[x + 1].fn \in CallFns => NoWorse(cxs, ds, fs[x + 1].base)
    BY <2>1, <2>2
  <2>4. /\ fs[x + 1].fn = "call_sv" => NoEval(cxs, fs[x + 1].base)
        /\ fs[x + 1].fn = "call_sv_eval" =>
             NoEval(cxs, fs[x + 1].base) \/ NoStore(cxs, fs[x + 1].base)
    BY <2>1, <2>2 DEF ExitsClean
  <2> QED
    BY <1>2, <2>1, <2>3, <2>4 DEF NoEval, NoStore, CallFns, NoWorse
<1> QED BY <1>1, <1>2

LEMMA ZonesCut ==
  ASSUME NEW fs, NEW gs, NEW cxs, NEW ds, NEW n \in Nat, NEW m \in Nat, m <= n,
         CStack(fs), CStack(gs), Len(gs) <= Len(fs), SameUpTo(fs, gs, Len(gs)),
         \A k \in 1 .. m : SameEntry(cxs[k], ds[k]), Zones(fs, cxs, n),
         \A j \in Len(gs) + 1 .. Len(fs) : fs[j].fn \notin {"docatch", "leave"} => m <= Low(fs[j])
  PROVE  Zones(gs, ds, m)
<1> SUFFICES ASSUME NEW i \in 1 .. Len(gs), NEW p \in 1 .. m,
                    gs[i].fn \in {"perl_run"} \cup CallFns, p > gs[i].base,
                    \A j \in i + 1 .. Len(gs) : gs[j].fn \notin {"docatch", "leave"} => p <= Low(gs[j])
             PROVE  Expected(gs[i], p, ds[p])
  BY DEF Zones
<1>1. /\ \A j \in 1 .. Len(gs) : gs[j].fn = fs[j].fn /\ gs[j].base = fs[j].base /\ Low(gs[j]) = Low(fs[j])
      /\ Len(gs) \in Nat /\ Len(fs) \in Nat
      /\ i \in 1 .. Len(fs) /\ p \in 1 .. n /\ p \in Nat
      /\ \A j \in 1 .. Len(fs) : Low(fs[j]) \in Int
  BY DEF CStack, SameUpTo, Low
<1>2. \A j \in i + 1 .. Len(fs) : fs[j].fn \notin {"docatch", "leave"} => p <= Low(fs[j])
  <2> SUFFICES ASSUME NEW j \in i + 1 .. Len(fs), fs[j].fn \notin {"docatch", "leave"}
               PROVE  p <= Low(fs[j])
    OBVIOUS
  <2>1. CASE j \in Len(gs) + 1 .. Len(fs)
    <3>1. m <= Low(fs[j]) /\ Low(fs[j]) \in Int
      BY <1>1, <2>1
    <3> QED BY <3>1
  <2>2. CASE j \notin Len(gs) + 1 .. Len(fs)
    <3>1. j \in i + 1 .. Len(gs) /\ j \in 1 .. Len(gs)
      BY <1>1, <2>2
    <3> QED BY <1>1, <3>1
  <2> QED BY <2>1, <2>2
<1>3. Expected(fs[i], p, cxs[p])
  <2>1. fs[i].fn \in {"perl_run"} \cup CallFns /\ p > fs[i].base
    BY <1>1
  <2> QED
    BY <1>1, <1>2, <2>1 DEF Zones
<1>4. cxs[p].retop = ds[p].retop
  BY DEF SameEntry
<1> QED
  BY <1>1, <1>3, <1>4 DEF Expected

\* What is above the base of the function on top is nobody's.
LEMMA ZonesMore ==
  ASSUME NEW fs, NEW cxs, NEW m \in Nat, CStack(fs), Len(fs) > 0, Zones(fs, cxs, m),
         fs[Len(fs)].fn \notin {"docatch", "leave", "perl_run"} \cup CallFns, m >= Low(fs[Len(fs)])
  PROVE  Zones(fs, cxs, m + 1)
<1> SUFFICES ASSUME NEW i \in 1 .. Len(fs), NEW p \in 1 .. m + 1,
                    fs[i].fn \in {"perl_run"} \cup CallFns, p > fs[i].base,
                    \A j \in i + 1 .. Len(fs) : fs[j].fn \notin {"docatch", "leave"} => p <= Low(fs[j])
             PROVE  Expected(fs[i], p, cxs[p])
  BY DEF Zones
<1>1. i # Len(fs) /\ Len(fs) \in Nat /\ fs[Len(fs)].base \in Nat
  BY DEF CStack
<1>2. Len(fs) \in i + 1 .. Len(fs)
  BY <1>1
<1>3. p <= Low(fs[Len(fs)]) /\ Low(fs[Len(fs)]) \in Int
  BY <1>1, <1>2 DEF Low
<1>4. p \in 1 .. m
  BY <1>3
<1> QED
  BY <1>4 DEF Zones
-----------------------------------------------------------------------------
(* Functions return, and entries are popped.                               *)

CutOf(fs, gs, cxs, ds) ==
  /\ CStack(fs) /\ CStack(gs) /\ PStack(cxs) /\ PStack(ds)
  /\ Len(gs) \in 1 .. Len(fs) /\ SameUpTo(fs, gs, Len(gs))
  /\ Len(ds) <= Len(cxs) /\ \A k \in 1 .. Len(ds) : ds[k] = cxs[k]
  /\ NoExit(fs, Len(gs) + 1, Len(fs))
  /\ \A k \in 1 .. Len(ds), n \in 1 .. Len(fs) :
       cxs[k].type = "eval" /\ Owner(fs, k, cxs[k], n) => n <= Len(gs)
  /\ Len(gs) < Len(fs) /\ fs[Len(gs)].fn = "my_exit" => Len(ds) <= fs[Len(gs) + 1].base

LEMMA CutFacts ==
  ASSUME NEW fs, NEW gs, NEW cxs, NEW ds, CutOf(fs, gs, cxs, ds)
  PROVE  /\ Len(fs) \in Nat /\ Len(gs) \in Nat /\ Len(gs) > 0 /\ Len(gs) <= Len(fs)
         /\ Len(gs) \in 1 .. Len(gs) /\ Len(gs) \in 1 .. Len(fs)
         /\ Len(cxs) \in Nat /\ Len(ds) \in Nat /\ Len(ds) <= Len(cxs)
         /\ \A k \in 1 .. Len(ds) : k \in 1 .. Len(cxs) /\ ds[k] = cxs[k]
         /\ \A i \in 1 .. Len(gs) : /\ i \in 1 .. Len(fs) /\ gs[i].fn = fs[i].fn
                                    /\ gs[i].base = fs[i].base /\ Low(gs[i]) = Low(fs[i])
                                    /\ Guard(gs[i]) = Guard(fs[i])
                                    /\ (Guarded(gs, i) <=> Guarded(fs, i))
         /\ \A i \in 1 .. Len(gs) : NoExit(gs, i + 1, Len(gs)) <=> NoExit(fs, i + 1, Len(fs))
<1>1. /\ Len(fs) \in Nat /\ Len(gs) \in Nat /\ Len(cxs) \in Nat /\ Len(ds) \in Nat
      /\ Len(ds) <= Len(cxs) /\ Len(gs) \in 1 .. Len(fs)
  BY DEF CutOf, CStack, PStack
<1>2. \A i \in 1 .. Len(gs) : gs[i].fn = fs[i].fn /\ gs[i].base = fs[i].base
  BY DEF CutOf, SameUpTo
<1>3. \A i \in 1 .. Len(gs) : Low(gs[i]) = Low(fs[i]) /\ Guard(gs[i]) = Guard(fs[i])
  BY <1>2 DEF Low, Guard
<1>4. \A i \in 1 .. Len(gs) : Guarded(gs, i) <=> Guarded(fs, i)
  <2>1. \A i \in 1 .. Len(gs) : i > 1 => i - 1 \in 1 .. Len(gs)
    BY <1>1
  <2> QED BY <1>2, <2>1 DEF Guarded
<1>5. ASSUME NEW i \in 1 .. Len(gs) PROVE NoExit(gs, i + 1, Len(gs)) <=> NoExit(fs, i + 1, Len(fs))
  <2>1. \A q \in i + 1 .. Len(fs) : q \in Len(gs) + 1 .. Len(fs) \/ (q \in i + 1 .. Len(gs) /\ q \in 1 .. Len(gs))
    BY <1>1
  <2>2. \A q \in i + 1 .. Len(gs) : q \in i + 1 .. Len(fs) /\ q \in 1 .. Len(gs)
    BY <1>1
  <2>3. \A q \in Len(gs) + 1 .. Len(fs) : fs[q].fn # "my_exit"
    BY DEF CutOf, NoExit
  <2> QED
    BY <2>1, <2>2, <2>3, <1>2 DEF NoExit
<1>6. \A k \in 1 .. Len(ds) : k \in 1 .. Len(cxs) /\ ds[k] = cxs[k]
  BY <1>1 DEF CutOf
<1>7. /\ Len(gs) > 0 /\ Len(gs) <= Len(fs) /\ Len(gs) \in 1 .. Len(gs)
      /\ \A i \in 1 .. Len(gs) : i \in 1 .. Len(fs)
  BY <1>1
<1> QED
  BY <1>1, <1>2, <1>3, <1>4, <1>5, <1>6, <1>7

LEMMA CutOwner ==
  ASSUME NEW fs, NEW gs, NEW cxs, NEW ds, CutOf(fs, gs, cxs, ds),
         NEW k, NEW n \in 1 .. Len(gs), NEW cx, Owner(fs, k, cx, n)
  PROVE  Owner(gs, k, cx, n)
<1>1. CStack(fs) /\ CStack(gs) /\ n <= Len(fs)
  BY CutFacts DEF CutOf
<1>2. SameUpTo(fs, gs, n)
  <2>1. \A i \in 1 .. n : i \in 1 .. Len(gs)
    BY CutFacts
  <2> QED BY <2>1, CutFacts DEF SameUpTo
<1>3. \A i \in n + 1 .. Len(gs) : i <= Len(fs) /\ gs[i].fn = fs[i].fn /\ gs[i].base = fs[i].base
  <2>1. \A i \in n + 1 .. Len(gs) : i \in 1 .. Len(gs) /\ i <= Len(fs)
    BY CutFacts
  <2> QED BY <2>1, CutFacts
<1> QED
  BY <1>1, <1>2, <1>3, OwnerSame

LEMMA CutCore ==
  ASSUME NEW fs, NEW gs, NEW cxs, NEW ds, CutOf(fs, gs, cxs, ds),
         Static(fs), Evals(fs, cxs), Ordered(fs, cxs), ExitsClean(fs, cxs)
  PROVE  Static(gs) /\ Evals(gs, ds) /\ Ordered(gs, ds) /\ ExitsClean(gs, ds)
<1>1. CStack(fs) /\ CStack(gs) /\ PStack(cxs) /\ PStack(ds) /\ SameUpTo(fs, gs, Len(gs))
  BY DEF CutOf
<1>2. Static(gs)
  BY <1>1, CutFacts, StaticCut
<1>3. Evals(gs, ds) /\ Ordered(gs, ds)
  <2>1. KeepsOwners(fs, gs, cxs, ds, Len(ds))
    <3> SUFFICES ASSUME NEW k \in 1 .. Len(ds), NEW n \in 1 .. Len(fs),
                        cxs[k].type = "eval", Owner(fs, k, cxs[k], n)
                 PROVE  n \in 1 .. Len(gs) /\ Owner(gs, k, ds[k], n)
      BY DEF KeepsOwners
    <3>1. n <= Len(gs)
      BY DEF CutOf
    <3>2. n \in 1 .. Len(gs)
      BY <3>1, CutFacts
    <3> QED BY <3>2, CutFacts, CutOwner
  <2>2. \A k \in 1 .. Len(ds) : SameEntry(cxs[k], ds[k])
    BY CutFacts DEF SameEntry
  <2>3. Len(ds) <= Len(cxs)
    BY CutFacts
  <2> QED
    BY <1>1, <2>1, <2>2, <2>3, EvalsKept
<1>4. ExitsClean(gs, ds)
  <2>1. ASSUME NEW b PROVE NoWorse(cxs, ds, b)
    <3>1. \A p \in 1 .. Len(ds) : p \in 1 .. Len(cxs) /\ ds[p] = cxs[p]
      BY CutFacts
    <3> QED BY <3>1 DEF NoWorse
  <2>2. ASSUME gs[Len(gs)].fn = "my_exit" PROVE NoEval(ds, Len(ds)) \/ NoStore(ds, Len(ds))
    <3>0. /\ fs[Len(gs)].fn = "my_exit" /\ Len(gs) \in 1 .. Len(fs) /\ NoExit(fs, Len(gs) + 1, Len(fs))
          /\ Len(fs) \in Nat /\ Len(cxs) \in Nat /\ Len(ds) \in Nat /\ Len(ds) <= Len(cxs)
          /\ \A k \in 1 .. Len(ds) : k \in 1 .. Len(cxs) /\ ds[k] = cxs[k]
      BY <2>2, CutFacts DEF CutOf
    <3>1. CASE Len(gs) = Len(fs)
      <4>1. NoEval(cxs, Len(cxs)) \/ NoStore(cxs, Len(cxs))
        BY <3>0, <3>1 DEF ExitsClean
      <4> QED BY <3>0, <4>1 DEF NoEval, NoStore
    <3>2. CASE Len(gs) # Len(fs)
      <4>1. Len(gs) < Len(fs) /\ Len(gs) + 1 \in 2 .. Len(fs) /\ Len(gs) + 1 - 1 = Len(gs)
            /\ Len(gs) + 1 \in 1 .. Len(fs)
        BY <3>0, <3>2
      <4>2. Len(ds) <= fs[Len(gs) + 1].base /\ fs[Len(gs) + 1].base \in Nat
        BY <4>1, <3>0 DEF CutOf, CStack
      <4>3. fs[Len(gs)].fn \in Callers(fs[Len(gs) + 1].fn) /\ fs[Len(gs) + 1].fn \in Fns
        BY <4>1, <1>1 DEF Static, Under, CStack
      <4>4. fs[Len(gs) + 1].fn \in CallFns
        BY <4>3, <3>0 DEF Callers, Fns, CallFns, Loops, Envs, Unwinders
      <4>5. NoEval(cxs, fs[Len(gs) + 1].base) \/ NoStore(cxs, fs[Len(gs) + 1].base)
        BY <3>0, <4>1, <4>4 DEF ExitsClean, CallFns
      <4>6. \A p \in 1 .. Len(ds) : p <= fs[Len(gs) + 1].base
        BY <3>0, <4>2
      <4> QED BY <3>0, <4>5, <4>6 DEF NoEval, NoStore
    <3> QED BY <3>1, <3>2
  <2>3. NoExit(fs, Len(gs) + 1, Len(fs))
    BY DEF CutOf
  <2> QED
    BY <1>1, <2>1, <2>2, <2>3, CutFacts, ExitsKept
<1> QED BY <1>2, <1>3, <1>4

\* Nothing goes that a function left needs.
Spares(fs, cxs, t, l) ==
  /\ \A i \in 1 .. t : Guarded(fs, i) /\ NoExit(fs, i + 1, Len(fs)) => Guard(fs[i]) <= l
  /\ \A k \in 1 .. Len(cxs), d \in 1 .. t : \A n \in 1 .. d - 1 :
       /\ fs[d].fn = "die_unwind" /\ NoExit(fs, d + 1, Len(fs))
       /\ cxs[k].type = "eval" /\ Owner(fs, k, cxs[k], n)
       => k <= l

LEMMA CutGuards ==
  ASSUME NEW fs, NEW gs, NEW cxs, NEW ds, CutOf(fs, gs, cxs, ds), Static(fs),
         NEW u \in Nat, u <= Len(gs), Guards(fs, cxs, u), Spares(fs, cxs, u, Len(ds))
  PROVE  Guards(gs, ds, u)
<1> SUFFICES ASSUME NEW i \in 1 .. u, Guarded(gs, i), NoExit(gs, i + 1, Len(gs))
             PROVE  Kept(gs, ds, i)
  BY DEF Guards
<1>1. i \in 1 .. Len(gs) /\ i \in 1 .. Len(fs)
  BY CutFacts
<1>2. Guarded(fs, i) /\ NoExit(fs, i + 1, Len(fs))
  BY <1>1, CutFacts
<1>3. Kept(fs, cxs, i) /\ Guard(fs[i]) <= Len(ds) /\ Guard(fs[i]) \in Nat /\ CStack(fs)
  BY <1>1, <1>2, GuardIs DEF Guards, Spares, CutOf
<1>4. \A k \in 1 .. Guard(fs[i]) : SameEntry(cxs[k], ds[k]) /\ ds[k].onleave = cxs[k].onleave
  <2>1. \A k \in 1 .. Guard(fs[i]) : k \in 1 .. Len(ds)
    BY <1>3, CutFacts
  <2> QED BY <2>1, CutFacts DEF SameEntry
<1>5. Len(ds) \in Nat /\ Len(ds) >= Guard(fs[i]) /\ gs[i].fn = fs[i].fn /\ gs[i].base = fs[i].base
  BY <1>1, <1>3, CutFacts
<1> QED
  BY <1>1, <1>2, <1>3, <1>4, <1>5, KeptSame

LEMMA CutDies ==
  ASSUME NEW fs, NEW gs, NEW cxs, NEW ds, CutOf(fs, gs, cxs, ds),
         NEW u \in Nat, u <= Len(gs), Dies(fs, cxs, u), Spares(fs, cxs, u, Len(ds))
  PROVE  Dies(gs, ds, u)
<1> SUFFICES ASSUME NEW d \in 1 .. u, gs[d].fn = "die_unwind", NoExit(gs, d + 1, Len(gs))
             PROVE  \E p \in 1 .. Len(ds) :
                      /\ d < Len(gs) => p <= Low(gs[d + 1])
                      /\ ds[p].type = "eval" /\ \E n \in 1 .. d - 1 : Owner(gs, p, ds[p], n)
  BY DEF Dies
<1>1. d \in 1 .. Len(gs) /\ d \in 1 .. Len(fs)
  BY CutFacts
<1>2. fs[d].fn = "die_unwind" /\ NoExit(fs, d + 1, Len(fs))
  BY <1>1, CutFacts
<1>3. PICK p \in 1 .. Len(cxs) : /\ d < Len(fs) => p <= Low(fs[d + 1])
                                 /\ cxs[p].type = "eval" /\ \E n \in 1 .. d - 1 : Owner(fs, p, cxs[p], n)
  BY <1>2 DEF Dies
<1>4. PICK n \in 1 .. d - 1 : Owner(fs, p, cxs[p], n)
  BY <1>3
<1>5. p <= Len(ds)
  BY <1>2, <1>3, <1>4 DEF Spares
<1>6. p \in 1 .. Len(ds) /\ n \in 1 .. Len(gs)
  BY <1>1, <1>5, CutFacts
<1>7. ds[p] = cxs[p] /\ Owner(gs, p, ds[p], n)
  BY <1>4, <1>6, CutFacts, CutOwner
<1>8. d < Len(gs) => p <= Low(gs[d + 1])
  <2>1. d < Len(gs) => d < Len(fs) /\ d + 1 \in 1 .. Len(gs)
    BY <1>1, CutFacts
  <2> QED BY <1>3, <2>1, CutFacts
<1> QED BY <1>3, <1>6, <1>7, <1>8

LEMMA CutHeld ==
  ASSUME NEW fs, NEW gs, NEW cxs, NEW ds, CutOf(fs, gs, cxs, ds), Static(fs),
         Guards(fs, cxs, Len(gs)), Dies(fs, cxs, Len(gs)), Spares(fs, cxs, Len(gs), Len(ds))
  PROVE  Held(gs, ds)
<1>1. Len(gs) \in Nat /\ Len(gs) <= Len(gs)
  BY CutFacts
<1> QED BY <1>1, CutGuards, CutDies DEF Held
\* A function that Perl code waits for has its base below the top.
LEMMA BasesBelow ==
  ASSUME NEW fs, NEW cxs, CStack(fs), Static(fs), Held(fs, cxs), NEW x \in 1 .. Len(fs) - 1,
         fs[x].fn = "my_exit", NoExit(fs, x + 1, Len(fs)), fs[x + 1].fn \in CallFns
  PROVE  fs[x + 1].base \in Nat /\ fs[x + 1].base < Len(cxs)
<1>1. x + 1 \in 1 .. Len(fs) /\ x + 1 > 1 /\ x + 1 - 1 = x /\ Len(fs) \in Nat
  BY DEF CStack
<1>2. Guarded(fs, x + 1)
  BY <1>1 DEF Guarded, CallFns
<1>3. NoExit(fs, x + 1 + 1, Len(fs))
  <2>1. \A q \in x + 1 + 1 .. Len(fs) : q \in x + 1 .. Len(fs)
    BY <1>1
  <2> QED BY <2>1 DEF NoExit
<1>4. Guard(fs[x + 1]) = fs[x + 1].base + 1 /\ fs[x + 1].base \in Nat
  BY <1>1, <1>2, GuardIs
<1>5. Len(cxs) >= Guard(fs[x + 1])
  BY <1>1, <1>2, <1>3 DEF Held, Guards, Kept
<1> QED BY <1>4, <1>5

Relabels(fs, cxs, ds) ==
  /\ PStack(cxs) /\ PStack(ds) /\ Len(ds) = Len(cxs)
  /\ \A k \in 1 .. Len(cxs) : SameEntry(cxs[k], ds[k]) /\ (k < Len(cxs) => ds[k] = cxs[k])
  /\ fs[Len(fs)].fn = "my_exit" /\ Len(cxs) > 0 => ds[Len(cxs)].onleave = ""

LEMMA RelabelKeeps ==
  ASSUME NEW fs, NEW cxs, NEW ds, CStack(fs), Relabels(fs, cxs, ds),
         Core(fs, cxs, Len(cxs)), Held(fs, cxs)
  PROVE  Core(fs, ds, Len(ds)) /\ Held(fs, ds)
<1>1. /\ Len(fs) \in Nat /\ Len(fs) > 0 /\ Len(fs) \in 1 .. Len(fs) /\ SameUpTo(fs, fs, Len(fs))
      /\ Len(cxs) \in Nat /\ Len(ds) = Len(cxs)
      /\ Static(fs) /\ Evals(fs, cxs) /\ Ordered(fs, cxs) /\ ExitsClean(fs, cxs)
      /\ \A k \in 1 .. Len(cxs) : SameEntry(cxs[k], ds[k]) /\ (k < Len(cxs) => ds[k] = cxs[k])
  <2>1. /\ PStack(cxs) /\ PStack(ds) /\ Len(ds) = Len(cxs)
        /\ \A k \in 1 .. Len(cxs) : SameEntry(cxs[k], ds[k]) /\ (k < Len(cxs) => ds[k] = cxs[k])
    BY DEF Relabels
  <2>2. Static(fs) /\ Evals(fs, cxs) /\ Ordered(fs, cxs) /\ ExitsClean(fs, cxs)
    BY DEF Core
  <2>3. Len(fs) \in Nat /\ Len(fs) > 0
    BY <2>2 DEF CStack, Static, Bottom
  <2>4. Len(fs) \in 1 .. Len(fs) /\ SameUpTo(fs, fs, Len(fs))
    BY <2>3 DEF SameUpTo
  <2>5. Len(cxs) \in Nat
    BY <2>1 DEF PStack
  <2> QED BY <2>1, <2>2, <2>3, <2>4, <2>5
<1>2. Zones(fs, ds, Len(ds))
  <2>1. \A j \in Len(fs) + 1 .. Len(fs) : FALSE
    BY <1>1
  <2>2. Zones(fs, cxs, Len(cxs))
    BY DEF Core
  <2> QED
    BY <1>1, <2>1, <2>2, ZonesCut
<1>3. Evals(fs, ds) /\ Ordered(fs, ds)
  <2>1. KeepsOwners(fs, fs, cxs, ds, Len(ds))
    BY <1>1, OwnerOfSame DEF KeepsOwners
  <2>2. PStack(cxs) /\ PStack(ds) /\ Len(ds) <= Len(cxs) /\ \A k \in 1 .. Len(ds) : SameEntry(cxs[k], ds[k])
    <3>1. PStack(cxs) /\ PStack(ds)
      BY DEF Relabels
    <3>2. Len(ds) <= Len(cxs) /\ \A k \in 1 .. Len(ds) : SameEntry(cxs[k], ds[k])
      BY <1>1
    <3> QED BY <3>1, <3>2
  <2> QED
    BY <1>1, <2>1, <2>2, EvalsKept
<1>4. ExitsClean(fs, ds)
  <2>1. NoExit(fs, Len(fs) + 1, Len(fs))
    BY <1>1 DEF NoExit
  <2>2. ASSUME NEW x \in 1 .. Len(fs) - 1, fs[x].fn = "my_exit", NoExit(fs, x + 1, Len(fs)),
               fs[x + 1].fn \in CallFns
        PROVE  NoWorse(cxs, ds, fs[x + 1].base)
    <3>1. fs[x + 1].base \in Nat /\ fs[x + 1].base < Len(cxs)
      BY <1>1, <2>2, BasesBelow
    <3>2. \A p \in 1 .. Len(ds) : p <= fs[x + 1].base => p \in 1 .. Len(cxs) /\ ds[p] = cxs[p]
      BY <1>1, <3>1
    <3> QED BY <3>2 DEF NoWorse
  <2>3. ASSUME fs[Len(fs)].fn = "my_exit" PROVE NoEval(ds, Len(ds)) \/ NoStore(ds, Len(ds))
    <3>1. NoEval(cxs, Len(cxs)) \/ NoStore(cxs, Len(cxs))
      BY <1>1, <2>1, <2>3 DEF ExitsClean
    <3>2. CASE NoEval(cxs, Len(cxs))
      BY <1>1, <3>2 DEF NoEval, SameEntry
    <3>3. CASE NoStore(cxs, Len(cxs))
      <4>1. \A p \in 1 .. Len(ds) : p < Len(cxs) => ds[p].onleave # "STORE"
        BY <1>1, <3>3 DEF NoStore
      <4>2. Len(cxs) > 0 => ds[Len(cxs)].onleave = ""
        <5>1. fs[Len(fs)].fn = "my_exit" /\ Len(cxs) > 0 => ds[Len(cxs)].onleave = ""
          BY DEF Relabels
        <5> QED BY <5>1, <2>3
      <4>3. \A p \in 1 .. Len(ds) : p < Len(cxs) \/ (p = Len(cxs) /\ Len(cxs) > 0)
        BY <1>1
      <4>4. \A p \in 1 .. Len(ds) : ds[p].onleave # "STORE"
        BY <4>1, <4>2, <4>3
      <4> QED BY <4>4 DEF NoStore
    <3> QED BY <3>1, <3>2, <3>3
  <2> QED
    BY <1>1, <2>1, <2>2, <2>3, ExitsKept
<1>5. Guards(fs, ds, Len(fs))
  <2> SUFFICES ASSUME NEW i \in 1 .. Len(fs), Guarded(fs, i), NoExit(fs, i + 1, Len(fs))
               PROVE  Kept(fs, ds, i)
    BY DEF Guards
  <2>1. Kept(fs, cxs, i)
    BY DEF Held, Guards
  <2>2. Len(ds) >= Guard(fs[i]) /\ Guard(fs[i]) \in Nat /\ Len(ds) \in Nat
    BY <1>1, <2>1, GuardIs DEF Kept
  <2>3. \A k \in 1 .. Guard(fs[i]) : /\ SameEntry(cxs[k], ds[k])
                                     /\ k < Guard(fs[i]) => ds[k].onleave = cxs[k].onleave
    BY <1>1, <2>2
  <2> QED
    BY <1>1, <2>1, <2>2, <2>3, KeptSame
<1>6. Dies(fs, ds, Len(fs))
  <2>1. Dies(fs, cxs, Len(fs))
    BY DEF Held
  <2>2. \A p \in 1 .. Len(cxs) : /\ cxs[p].type = ds[p].type
                                 /\ \A n : Owner(fs, p, cxs[p], n) <=> Owner(fs, p, ds[p], n)
    BY <1>1, OwnerOfSame DEF SameEntry
  <2> QED
    BY <1>1, <2>1, <2>2 DEF Dies
<1> QED
  BY <1>1, <1>2, <1>3, <1>4, <1>5, <1>6 DEF Core, Held

EntryPushed(fs, cxs, ds) ==
  /\ PStack(cxs) /\ PStack(ds) /\ Len(ds) = Len(cxs) + 1 /\ \A k \in 1 .. Len(cxs) : ds[k] = cxs[k]
  /\ fs[Len(fs)].fn \in Loops /\ MayRun(fs, Len(fs), Len(cxs))
  /\ ds[Len(ds)].retop
  /\ \/ ds[Len(ds)].type = "sub"
     \/ /\ ds[Len(ds)].type = "eval" /\ ds[Len(ds)].env = Len(fs) /\ ds[Len(ds)].loop = Len(fs)
        /\ ~ds[Len(ds)].keeperr /\ fs[Len(fs)].fn \in {"perl_run", "docatch", "call_sv_eval"}

LEMMA PushEntryKeeps ==
  ASSUME NEW fs, NEW cxs, NEW ds, CStack(fs), EntryPushed(fs, cxs, ds),
         Core(fs, cxs, Len(cxs)), Held(fs, cxs)
  PROVE  /\ Core(fs, ds, Len(ds)) /\ Held(fs, ds)
         /\ MayRun(fs, Len(fs), Len(ds))
<1> DEFINE n == Len(fs)
           l == Len(cxs)
<1>1. /\ n \in Nat /\ n > 0 /\ n \in 1 .. n /\ SameUpTo(fs, fs, n)
      /\ l \in Nat /\ Len(ds) = l + 1 /\ l + 1 \in 1 .. l + 1
      /\ Static(fs) /\ Evals(fs, cxs) /\ Ordered(fs, cxs) /\ ExitsClean(fs, cxs) /\ Zones(fs, cxs, l)
      /\ \A k \in 1 .. l : ds[k] = cxs[k] /\ k \in 1 .. Len(ds)
  BY DEF CStack, EntryPushed, PStack, Core, SameUpTo, Static, Bottom
<1>2. \A i \in 1 .. n : fs[i].base \in Nat
  BY DEF CStack
<1>3. Zones(fs, ds, Len(ds))
  <2> SUFFICES ASSUME NEW i \in 1 .. n, NEW p \in 1 .. l + 1,
                      fs[i].fn \in {"perl_run"} \cup CallFns, p > fs[i].base,
                      \A j \in i + 1 .. n : fs[j].fn \notin {"docatch", "leave"} => p <= Low(fs[j])
               PROVE  Expected(fs[i], p, ds[p])
    BY <1>1 DEF Zones
  <2>1. CASE p \in 1 .. l
    BY <1>1, <2>1 DEF Zones
  <2>2. CASE p = l + 1
    <3>1. PICK r \in 1 .. n : LoopFor(fs, r, n)
      BY <1>1, LoopExists DEF Static, EntryPushed
    <3>2. fs[r].fn = "perl_run" \/ l >= fs[r].base + 2
      BY <3>1 DEF EntryPushed, MayRun
    <3>3. ~(i < r)
      <4> SUFFICES ASSUME i < r PROVE FALSE
        OBVIOUS
      <4>1. r \in i + 1 .. n /\ r # 1 /\ r \in 2 .. n
        BY <1>1
      <4>2. fs[r].fn \in CallFns
        BY <3>1, <4>1, <1>1 DEF LoopFor, Static, Bottom
      <4>3. p <= Low(fs[r]) /\ l >= fs[r].base + 2
        BY <3>2, <4>1, <4>2 DEF CallFns
      <4> QED
        BY <4>3, <1>1, <1>2, <2>2 DEF Low
    <3>4. ~(i > r)
      <4>1. i > r => fs[i].fn = "docatch"
        BY <3>1 DEF LoopFor
      <4> QED BY <4>1 DEF CallFns
    <3>5. i = r
      BY <3>3, <3>4
    <3>6. ds[p].retop
      BY <2>2, <1>1 DEF EntryPushed
    <3>7. fs[i].fn # "perl_run" => p > fs[i].base + 2
      BY <1>1, <1>2, <2>2, <3>2, <3>5
    <3> QED
      BY <3>6, <3>7 DEF Expected, CallFns
  <2> QED BY <2>1, <2>2, <1>1
<1>4. Evals(fs, ds) /\ Ordered(fs, ds)
  <2>1. PStack(cxs) /\ PStack(ds) /\ Len(cxs) <= Len(ds) /\ Len(fs) <= Len(fs)
    BY <1>1 DEF EntryPushed
  <2>2. \A k \in 1 .. Len(cxs) : SameEntry(cxs[k], ds[k])
    BY <1>1 DEF SameEntry
  <2>3. KeepsOwners(fs, fs, cxs, ds, Len(cxs))
    BY <1>1 DEF KeepsOwners
  <2>4. \A k \in Len(cxs) + 1 .. Len(ds) : k = l + 1 /\ k = Len(ds)
    BY <1>1
  <2>5. ASSUME NEW k \in Len(cxs) + 1 .. Len(ds), ds[k].type = "eval"
        PROVE  /\ Len(fs) \in 1 .. Len(fs) /\ Owner(fs, k, ds[k], Len(fs))
               /\ ds[k].loop = 0 => Len(fs) < Len(fs)
    <3>1. k = l + 1 /\ k = Len(ds)
      BY <2>4
    <3>2. /\ ds[k].env = Len(fs) /\ ds[k].loop = Len(fs) /\ ~ds[k].keeperr
          /\ fs[Len(fs)].fn \in {"perl_run", "docatch", "call_sv_eval"}
          /\ MayRun(fs, Len(fs), l)
      BY <2>5, <3>1 DEF EntryPushed
    <3>3. k - 1 = l /\ ds[k].loop # 0
      BY <3>1, <3>2, <1>1
    <3>4. \A i \in Len(fs) + 1 .. Len(fs) : FALSE
      BY <1>1
    <3> QED
      BY <1>1, <3>2, <3>3, <3>4 DEF Owner
  <2> QED
    BY <1>1, <2>1, <2>2, <2>3, <2>4, <2>5, EvalsGrow
<1>5. fs[n].fn # "my_exit" /\ fs[n].fn # "die_unwind"
  BY DEF EntryPushed, Loops
<1>6. ExitsClean(fs, ds)
  <2>1. NoExit(fs, Len(fs) + 1, Len(fs))
    BY <1>1 DEF NoExit
  <2>2. ASSUME NEW x \in 1 .. Len(fs) - 1, fs[x].fn = "my_exit", NoExit(fs, x + 1, Len(fs)),
               fs[x + 1].fn \in CallFns
        PROVE  NoWorse(cxs, ds, fs[x + 1].base)
    <3>1. fs[x + 1].base \in Nat /\ fs[x + 1].base < Len(cxs)
      BY <1>1, <2>2, BasesBelow
    <3>2. \A p \in 1 .. Len(ds) : p <= fs[x + 1].base => p \in 1 .. Len(cxs) /\ ds[p] = cxs[p]
      BY <1>1, <3>1
    <3> QED BY <3>2 DEF NoWorse
  <2>3. Len(ds) \in Nat
    BY <1>1
  <2> QED
    BY <1>1, <1>5, <2>1, <2>2, <2>3, ExitsKept
<1>7. Guards(fs, ds, n)
  <2> SUFFICES ASSUME NEW i \in 1 .. n, Guarded(fs, i), NoExit(fs, i + 1, n)
               PROVE  Kept(fs, ds, i)
    BY DEF Guards
  <2>1. Kept(fs, cxs, i)
    BY DEF Held, Guards
  <2>2. l >= Guard(fs[i]) /\ Guard(fs[i]) \in Nat /\ Len(ds) \in Nat /\ Len(ds) >= Guard(fs[i])
    <3>1. l >= Guard(fs[i]) /\ Guard(fs[i]) \in Nat
      BY <1>1, <2>1, GuardIs DEF Kept
    <3> QED BY <3>1, <1>1
  <2>3. \A k \in 1 .. Guard(fs[i]) : /\ SameEntry(cxs[k], ds[k])
                                     /\ k < Guard(fs[i]) => ds[k].onleave = cxs[k].onleave
    BY <1>1, <2>2 DEF SameEntry
  <2> QED
    BY <1>1, <2>1, <2>2, <2>3, KeptSame
<1>8. Dies(fs, ds, n)
  <2>1. Dies(fs, cxs, n)
    BY DEF Held
  <2> QED
    BY <1>1, <2>1 DEF Dies
<1>9. MayRun(fs, n, Len(ds))
  <2>1. MayRun(fs, n, l)
    BY DEF EntryPushed
  <2> QED
    BY <1>1, <1>2, <2>1 DEF MayRun
<1> QED
  BY <1>1, <1>3, <1>4, <1>6, <1>7, <1>8, <1>9 DEF Core, Held
-----------------------------------------------------------------------------
(* Unwinding, entry by entry.                                              *)

Prefix(fs, gs, m) == Len(gs) = m /\ \A i \in 1 .. m : gs[i] = fs[i]

LEMMA CutSame ==
  ASSUME NEW fs, NEW cxs, NEW ds, CStack(fs), Len(fs) > 0, PStack(cxs), PStack(ds),
         Len(ds) <= Len(cxs), Prefix(cxs, ds, Len(ds))
  PROVE  CutOf(fs, fs, cxs, ds)
<1>1. Len(fs) \in Nat /\ Len(fs) \in 1 .. Len(fs) /\ ~(Len(fs) < Len(fs))
      /\ \A i \in Len(fs) + 1 .. Len(fs) : FALSE
  BY DEF CStack
<1>2. \A k, cx, n : Owner(fs, k, cx, n) => n <= Len(fs)
  BY <1>1 DEF Owner
<1>3. \A k \in 1 .. Len(ds) : ds[k] = cxs[k]
  BY DEF Prefix
<1> QED
  BY <1>1, <1>2, <1>3 DEF CutOf, SameUpTo, NoExit

\* leave() keeps to its own entries.
LEMMA LeaveSpares ==
  ASSUME NEW fs, NEW cxs, CStack(fs), Static(fs), fs[Len(fs)].fn = "leave"
  PROVE  Spares(fs, cxs, Len(fs), fs[Len(fs)].base)
<1> DEFINE n == Len(fs)
           base == fs[n].base
<1>1. n \in Nat /\ n > 0 /\ n # 1 /\ fs[n].fn = "leave" /\ base \in Nat
  BY DEF CStack, Static, Bottom
<1>2. n \in 2 .. n /\ n - 1 \in 1 .. n - 1 /\ n - 1 \in 1 .. n
  <2>1. n \in Nat /\ n > 0 /\ n # 1
    BY <1>1
  <2> HIDE DEF n
  <2> QED BY <2>1
<1>a. \A i \in 1 .. n : fs[i].base \in Nat
  <2>1. \A i \in 1 .. Len(fs) : fs[i].base \in Nat
    BY DEF CStack
  <2> QED BY <2>1
<1>3. fs[n - 1].fn \in Loops
  BY <1>1, <1>2 DEF Static, Under, Callers
<1>4. PICK r \in 1 .. n - 1 : LoopFor(fs, r, n - 1)
  BY <1>2, <1>3, LoopExists DEF Static
<1>5. fs[r].fn = "perl_run" \/ base >= fs[r].base + 1
  <2>1. MayRun(fs, n - 1, base) \/ HasEnded(fs, n - 1, base)
    BY <1>2, <1>3 DEF Static, Heights
  <2>2. fs[r].base \in Nat
    BY <1>1, <1>a
  <2> QED BY <1>1, <1>4, <2>1, <2>2, SMTT(30) DEF MayRun, HasEnded
<1>6. ASSUME NEW i \in 1 .. n, Guarded(fs, i), NoExit(fs, i + 1, n) PROVE Guard(fs[i]) <= base
  <2>1. i # n
    BY <1>1, <1>6 DEF Guarded
  <2>2. NoExit(fs, i + 1, n - 1)
    <3>1. \A q \in i + 1 .. n - 1 : q \in i + 1 .. n
      BY <1>1
    <3> QED BY <3>1, <1>6 DEF NoExit
  <2>3. n \in 1 .. n /\ i < n
    BY <1>1, <2>1
  <2>4. Low(fs[n]) >= Guard(fs[i])
    BY <2>2, <2>3, <1>6 DEF Static, Above
  <2>5. Guard(fs[i]) \in Nat /\ Low(fs[n]) = base
    BY <1>1, <1>6, GuardIs DEF Low
  <2> QED BY <1>1, <2>4, <2>5
<1>7. ASSUME NEW k \in 1 .. Len(cxs), NEW d \in 1 .. n, NEW m \in 1 .. d - 1,
             fs[d].fn = "die_unwind", Owner(fs, k, cxs[k], m)
      PROVE  k <= base
  <2>1. d # n /\ d # r /\ d # 1
    BY <1>1, <1>4, <1>7 DEF LoopFor, CallFns
  <2>2. ~(d > r)
    <3>1. d > r => d \in r + 1 .. n - 1
      BY <1>1, <2>1
    <3> QED BY <1>4, <1>7, <3>1 DEF LoopFor
  <2>3. d < r /\ r \in m + 1 .. n /\ r \in 2 .. n /\ r \in 1 .. n
    BY <1>1, <2>1, <2>2
  <2>4. fs[r].fn \in CallFns
    BY <1>4, <2>3 DEF LoopFor, Static, Bottom
  <2>5. fs[r].base >= k
    BY <1>7, <2>3, <2>4 DEF Owner, CallFns
  <2>6. base >= fs[r].base + 1 /\ fs[r].base \in Nat
    BY <1>5, <1>a, <2>3, <2>4 DEF CallFns
  <2> QED BY <1>1, <2>5, <2>6, SMTT(30)
<1> QED
  BY <1>6, <1>7 DEF Spares

\* The unwinders pop what is above.
PopsAt(fs, cxs) ==
  /\ fs[Len(fs)].fn \in Unwinders /\ Len(cxs) > 0
  /\ fs[Len(fs)].fn = "leave" => Len(cxs) > fs[Len(fs)].base
  /\ fs[Len(fs)].fn = "die_unwind" => cxs[Len(cxs)].type # "eval"

LEMMA PopSpares ==
  ASSUME NEW fs, NEW cxs, CStack(fs), PStack(cxs), PopsAt(fs, cxs), Static(fs),
         ExitsClean(fs, cxs), Held(fs, cxs)
  PROVE  Spares(fs, cxs, Len(fs), Len(cxs) - 1)
<1> DEFINE n == Len(fs)
           l == Len(cxs)
<1>1. n \in Nat /\ n > 0 /\ n \in 1 .. n /\ l \in Nat /\ l > 0 /\ l \in 1 .. l /\ fs[n].base \in Nat
      /\ fs[n].fn \in Unwinders
  BY DEF CStack, Static, Bottom, PStack, PopsAt
<1>2. CASE fs[n].fn = "leave"
  <2>1. Spares(fs, cxs, n, fs[n].base)
    BY <1>2, LeaveSpares
  <2>2. fs[n].base <= l - 1
    BY <1>1, <1>2 DEF PopsAt
  <2>3. \A i \in 1 .. n : Guarded(fs, i) => Guard(fs[i]) \in Nat
    BY GuardIs
  <2>4. ASSUME NEW i \in 1 .. n, Guarded(fs, i), NoExit(fs, i + 1, n) PROVE Guard(fs[i]) <= l - 1
    <3>1. Guard(fs[i]) <= fs[n].base
      BY <2>1, <2>4 DEF Spares
    <3> QED BY <1>1, <2>2, <2>3, <2>4, <3>1
  <2>5. ASSUME NEW k \in 1 .. l, NEW d \in 1 .. n, NEW m \in 1 .. d - 1, fs[d].fn = "die_unwind",
               NoExit(fs, d + 1, n), cxs[k].type = "eval", Owner(fs, k, cxs[k], m)
        PROVE  k <= l - 1
    <3>1. k <= fs[n].base
      BY <2>1, <2>5 DEF Spares
    <3> QED BY <1>1, <2>2, <3>1
  <2> QED
    BY <2>4, <2>5 DEF Spares
<1>3. CASE fs[n].fn = "my_exit"
  <2>1. \A i \in 1 .. n : NoExit(fs, i + 1, n) => i = n
    <3>1. \A i \in 1 .. n : i = n \/ n \in i + 1 .. n
      BY <1>1
    <3> QED BY <1>3, <3>1 DEF NoExit
  <2>2. ~Guarded(fs, n) /\ fs[n].fn # "die_unwind"
    BY <1>3 DEF Guarded
  <2> QED
    BY <2>1, <2>2 DEF Spares
<1>4. CASE fs[n].fn = "die_unwind"
  <2>1. cxs[l].type # "eval"
    BY <1>4 DEF PopsAt
  <2>2. \A k \in 1 .. l : cxs[k].type = "eval" => k <= l - 1
    BY <1>1, <2>1
  <2>3. ASSUME NEW i \in 1 .. n, Guarded(fs, i), NoExit(fs, i + 1, n) PROVE Guard(fs[i]) <= l - 1
    <3>1. Kept(fs, cxs, i)
      BY <2>3 DEF Held, Guards
    <3>2. Guard(fs[i]) \in Nat /\ Guard(fs[i]) <= l
      BY <1>1, <2>3, <3>1, GuardIs DEF Kept
    <3>3. Guard(fs[i]) # l
      <4> SUFFICES ASSUME Guard(fs[i]) = l PROVE FALSE
        OBVIOUS
      <4>1. fs[i].fn \notin {"call_sv_eval", "yyparse"}
        BY <2>1, <3>1 DEF Kept
      <4>2. fs[i].fn = "call_sv" /\ i > 1 /\ fs[i - 1].fn = "my_exit"
        BY <2>3, <4>1 DEF Guarded
      <4>3. /\ i - 1 \in 1 .. n /\ i - 1 + 1 = i /\ i - 1 < n
            /\ Guard(fs[i]) = fs[i].base + 1 /\ fs[i].base \in Nat
        BY <1>1, <2>3, <4>2, GuardIs DEF CallFns
      <4>4. NoExit(fs, i - 1 + 1, n)
        <5>1. \A q \in i .. n : q = i \/ q \in i + 1 .. n
          BY <1>1
        <5> QED BY <2>3, <4>2, <4>3, <5>1 DEF NoExit
      <4>5. NoEval(cxs, fs[i].base)
        <5> DEFINE x == i - 1
        <5>1. x \in 1 .. n /\ x + 1 = i /\ x < n /\ fs[x].fn = "my_exit" /\ NoExit(fs, x + 1, n)
          BY <4>2, <4>3, <4>4
        <5> HIDE DEF x
        <5>2. fs[x + 1].fn = "call_sv" => NoEval(cxs, fs[x + 1].base)
          BY <5>1 DEF ExitsClean
        <5> QED BY <5>1, <5>2, <4>2
      <4>6. PICK p \in 1 .. l : cxs[p].type = "eval"
        <5>1. \A q \in n + 1 .. n : FALSE
          BY <1>1
        <5>2. NoExit(fs, n + 1, n)
          BY <5>1 DEF NoExit
        <5>3. Dies(fs, cxs, n)
          BY DEF Held
        <5>4. \E p \in 1 .. l : cxs[p].type = "eval"
          BY <1>1, <1>4, <5>2, <5>3 DEF Dies
        <5> QED BY <5>4
      <4>7. p <= fs[i].base
        BY <2>2, <4>3, <4>6, <1>1
      <4> QED BY <4>5, <4>6, <4>7 DEF NoEval
    <3> QED BY <1>1, <3>2, <3>3
  <2> QED
    BY <2>2, <2>3 DEF Spares
<1> QED
  BY <1>1, <1>2, <1>3, <1>4 DEF Unwinders

LEMMA PopKeeps ==
  ASSUME NEW fs, NEW cxs, NEW ds, CStack(fs), PStack(cxs), PStack(ds), PopsAt(fs, cxs),
         Prefix(cxs, ds, Len(cxs) - 1), Core(fs, cxs, Len(cxs) - 1), Held(fs, cxs)
  PROVE  Core(fs, ds, Len(ds)) /\ Held(fs, ds)
<1>1. /\ Len(cxs) \in Nat /\ Len(cxs) > 0 /\ Len(ds) = Len(cxs) - 1 /\ Len(ds) <= Len(cxs)
      /\ Prefix(cxs, ds, Len(ds)) /\ Len(ds) \in Nat
  <2>1. Len(cxs) \in Nat /\ Len(cxs) > 0
    BY DEF PStack, PopsAt
  <2>2. Len(ds) = Len(cxs) - 1
    BY DEF Prefix
  <2>3. Len(cxs) - 1 <= Len(cxs) /\ Len(cxs) - 1 \in Nat
    BY <2>1
  <2> QED BY <2>1, <2>2, <2>3
<1>2. Static(fs) /\ Evals(fs, cxs) /\ Ordered(fs, cxs) /\ ExitsClean(fs, cxs)
      /\ Zones(fs, cxs, Len(cxs) - 1)
  BY DEF Core
<1>3. CutOf(fs, fs, cxs, ds)
  BY <1>1, <1>2, CutSame DEF Static, Bottom
<1>4. Held(fs, ds)
  BY <1>1, <1>2, <1>3, PopSpares, CutHeld DEF Held
<1>5. Zones(fs, ds, Len(ds))
  <2>1. Len(fs) \in Nat /\ SameUpTo(fs, fs, Len(fs)) /\ \A j \in Len(fs) + 1 .. Len(fs) : FALSE
    BY DEF CStack, SameUpTo
  <2>2. \A k \in 1 .. Len(ds) : SameEntry(cxs[k], ds[k])
    BY <1>1 DEF Prefix, SameEntry
  <2>3. Zones(fs, cxs, Len(ds)) /\ Len(ds) \in Nat /\ Len(ds) <= Len(ds) /\ Len(fs) <= Len(fs)
    BY <1>1, <1>2, <2>1
  <2> QED
    BY <2>1, <2>2, <2>3, ZonesCut
<1> QED
  BY <1>2, <1>3, <1>4, <1>5, CutCore DEF Core
-----------------------------------------------------------------------------
(* Functions return.                                                       *)

Returns(fs, gs, cxs, ds) ==
  LET f == fs[Len(fs)]
  IN  /\ CStack(fs) /\ CStack(gs) /\ PStack(cxs) /\ PStack(ds)
      /\ Len(fs) = Len(gs) + 1 /\ Len(gs) > 0 /\ SameUpTo(fs, gs, Len(gs))
      /\ Len(ds) <= Len(cxs) /\ Prefix(cxs, ds, Len(ds))
      /\ f.fn \in {"leave", "docatch", "call_sv", "call_sv_eval", "yyparse", "call_list"}
      /\ f.fn \in {"docatch", "yyparse"} => Len(ds) = Len(cxs)
      /\ f.fn = "docatch" => HasEnded(fs, Len(fs), Len(cxs))
      /\ f.fn # "docatch" => Len(ds) = f.base

LEMMA ReturnFacts ==
  ASSUME NEW fs, NEW gs, NEW cxs, NEW ds, Returns(fs, gs, cxs, ds)
  PROVE  /\ Len(fs) \in Nat /\ Len(gs) \in Nat /\ Len(gs) > 0 /\ Len(fs) = Len(gs) + 1
         /\ Len(fs) \in 2 .. Len(fs) /\ Len(fs) \in 1 .. Len(fs) /\ Len(fs) - 1 = Len(gs)
         /\ Len(gs) \in 1 .. Len(fs) /\ Len(gs) \in 1 .. Len(gs)
         /\ Len(cxs) \in Nat /\ Len(ds) \in Nat /\ Len(ds) <= Len(cxs)
         /\ fs[Len(fs)].base \in Nat
         /\ fs[Len(fs)].fn \in {"leave", "docatch", "call_sv", "call_sv_eval", "yyparse", "call_list"}
         /\ fs[Len(fs)].fn # "docatch" => Len(ds) = fs[Len(fs)].base
         /\ fs[Len(fs)].fn \in {"docatch", "yyparse"} => Len(ds) = Len(cxs)
<1>1. /\ CStack(fs) /\ CStack(gs) /\ PStack(cxs) /\ PStack(ds)
      /\ Len(fs) = Len(gs) + 1 /\ Len(gs) > 0 /\ Len(ds) <= Len(cxs)
  BY DEF Returns
<1>2. Len(fs) \in Nat /\ Len(gs) \in Nat /\ Len(cxs) \in Nat /\ Len(ds) \in Nat
  BY <1>1 DEF CStack, PStack
<1>3. /\ Len(fs) \in 2 .. Len(fs) /\ Len(fs) \in 1 .. Len(fs) /\ Len(fs) - 1 = Len(gs)
      /\ Len(gs) \in 1 .. Len(fs) /\ Len(gs) \in 1 .. Len(gs)
  BY <1>1, <1>2
<1>4. fs[Len(fs)].base \in Nat
  BY <1>1, <1>3 DEF CStack
<1>5. /\ fs[Len(fs)].fn \in {"leave", "docatch", "call_sv", "call_sv_eval", "yyparse", "call_list"}
      /\ fs[Len(fs)].fn # "docatch" => Len(ds) = fs[Len(fs)].base
      /\ fs[Len(fs)].fn \in {"docatch", "yyparse"} => Len(ds) = Len(cxs)
  BY DEF Returns
<1> QED BY <1>1, <1>2, <1>3, <1>4, <1>5

LEMMA ReturnSpares ==
  ASSUME NEW fs, NEW gs, NEW cxs, NEW ds, Returns(fs, gs, cxs, ds), Static(fs), Held(fs, cxs)
  PROVE  Spares(fs, cxs, Len(gs), Len(ds))
<1> DEFINE n == Len(fs)
           f == fs[n]
<1>1. CStack(fs)
  BY DEF Returns
<1>2. ASSUME NEW i \in 1 .. Len(gs), Guarded(fs, i), NoExit(fs, i + 1, n) PROVE Guard(fs[i]) <= Len(ds)
  <2>0. i \in 1 .. n /\ i < n
    BY ReturnFacts
  <2>1. Guard(fs[i]) \in Nat
    BY <1>1, <1>2, <2>0, GuardIs
  <2>2. CASE f.fn \in {"docatch", "yyparse"}
    <3>1. Len(cxs) >= Guard(fs[i])
      BY <1>2, <2>0 DEF Held, Guards, Kept
    <3> QED BY <2>1, <2>2, <3>1, ReturnFacts
  <2>3. CASE f.fn \notin {"docatch", "yyparse"}
    <3>1. NoExit(fs, i + 1, n - 1)
      <4>1. \A q \in i + 1 .. n - 1 : q \in i + 1 .. n
        BY ReturnFacts
      <4> QED BY <1>2, <4>1 DEF NoExit
    <3>2. Low(f) >= Guard(fs[i])
      <4>1. n \in 1 .. n
        BY ReturnFacts
      <4> QED BY <1>2, <2>0, <3>1, <4>1 DEF Static, Above
    <3>3. Low(f) <= f.base /\ Low(f) \in Int /\ f.base = Len(ds) /\ f.base \in Nat
      BY <2>3, ReturnFacts DEF Low
    <3> QED BY <2>1, <3>2, <3>3
  <2> QED BY <2>2, <2>3
<1>3. ASSUME NEW k \in 1 .. Len(cxs), NEW d \in 1 .. Len(gs), NEW m \in 1 .. d - 1,
             fs[d].fn = "die_unwind", NoExit(fs, d + 1, n), cxs[k].type = "eval", Owner(fs, k, cxs[k], m)
      PROVE  k <= Len(ds)
  <2>1. CASE f.fn \in {"docatch", "yyparse"}
    BY <2>1, ReturnFacts
  <2>2. CASE f.fn = "leave"
    <3>0. d \in 1 .. n
      BY ReturnFacts
    <3>1. Spares(fs, cxs, n, f.base) /\ d \in 1 .. n
      BY <1>1, <2>2, <3>0, LeaveSpares
    <3>2. k <= f.base
      BY <1>3, <3>1 DEF Spares
    <3> QED BY <2>2, <3>2, ReturnFacts, SMTT(30)
  <2>3. CASE f.fn \notin {"docatch", "yyparse", "leave"}
    <3>1. n \in m + 1 .. n
      BY ReturnFacts
    <3>2. f.base >= k
      BY <1>3, <2>3, <3>1 DEF Owner
    <3> QED BY <2>3, <3>2, ReturnFacts
  <2> QED BY <2>1, <2>2, <2>3
<1> QED
  BY <1>2, <1>3 DEF Spares

LEMMA ReturnOwners ==
  ASSUME NEW fs, NEW gs, NEW cxs, NEW ds, Returns(fs, gs, cxs, ds), Static(fs),
         NEW k \in 1 .. Len(ds), NEW cx, NEW m \in 1 .. Len(fs), Owner(fs, k, cx, m)
  PROVE  m <= Len(gs)
<1> DEFINE n == Len(fs)
           f == fs[n]
<1>1. SUFFICES ASSUME m = n PROVE FALSE
  BY ReturnFacts
<1>2. f.fn \in {"docatch", "call_sv_eval"}
  BY <1>1, ReturnFacts DEF Owner
<1>3. k \in Nat /\ n \in Nat /\ n \in 1 .. n /\ f.base \in Nat /\ k <= Len(ds)
  BY ReturnFacts
<1>4. CASE f.fn = "call_sv_eval"
  <2>1. Len(ds) = f.base
    BY <1>4, ReturnFacts
  <2>2. cx.loop # 0 /\ MayRun(fs, n, k - 1)
    BY <1>1, <1>3, <2>1 DEF Owner
  <2>3. LoopFor(fs, n, n)
    <3>1. \A q \in n + 1 .. n : FALSE
      BY <1>3
    <3> QED BY <1>3, <1>4, <3>1 DEF LoopFor, CallFns
  <2>4. k - 1 >= f.base + 2
    BY <1>3, <1>4, <2>2, <2>3 DEF MayRun
  <2> QED BY <1>3, <2>1, <2>4
<1>5. CASE f.fn = "docatch"
  <2>1. MayRun(fs, n, k - 1)
    BY <1>1, <1>5 DEF Owner
  <2>2. HasEnded(fs, n, Len(cxs)) /\ Len(ds) = Len(cxs) /\ CStack(fs)
    BY <1>5 DEF Returns
  <2>3. f.fn \in Loops
    BY <1>5 DEF Loops
  <2>4. PICK r \in 1 .. n : LoopFor(fs, r, n)
    BY <1>3, <2>2, <2>3, LoopExists DEF Static
  <2>5. fs[r].base \in Nat
    BY <2>2 DEF CStack
  <2>6. fs[r].fn = "perl_run" \/ k - 1 >= fs[r].base + 2
    BY <2>1, <2>4 DEF MayRun
  <2>7. Len(cxs) = IF fs[r].fn = "perl_run" THEN 0 ELSE fs[r].base + 1
    BY <2>2, <2>4 DEF HasEnded
  <2> QED
    BY <1>3, <2>2, <2>5, <2>6, <2>7
<1> QED BY <1>2, <1>4, <1>5

LEMMA ReturnKeeps ==
  ASSUME NEW fs, NEW gs, NEW cxs, NEW ds, Returns(fs, gs, cxs, ds),
         Core(fs, cxs, Len(cxs)), Held(fs, cxs), NEW m \in Nat, m <= Len(ds),
         fs[Len(fs)].fn = "call_sv_eval" => m < Len(ds)
  PROVE  Core(gs, ds, m) /\ Held(gs, ds)
<1> DEFINE n == Len(fs)
           f == fs[n]
<1>1. /\ CStack(fs) /\ CStack(gs) /\ PStack(cxs) /\ PStack(ds)
      /\ SameUpTo(fs, gs, Len(gs)) /\ Prefix(cxs, ds, Len(ds))
  BY DEF Returns
<1>2. Static(fs) /\ Evals(fs, cxs) /\ Ordered(fs, cxs) /\ ExitsClean(fs, cxs) /\ Zones(fs, cxs, Len(cxs))
  BY DEF Core
<1>3. f.fn \in Fns /\ f.fn # "my_exit" /\ fs[Len(gs)].fn \in Callers(f.fn)
  BY <1>1, <1>2, ReturnFacts DEF CStack, Static, Under
<1>4. CutOf(fs, gs, cxs, ds)
  <2>1. Len(gs) \in 1 .. Len(fs) /\ Len(ds) <= Len(cxs) /\ \A k \in 1 .. Len(ds) : ds[k] = cxs[k]
    BY <1>1, ReturnFacts DEF Prefix
  <2>2. NoExit(fs, Len(gs) + 1, Len(fs))
    <3>1. \A q \in Len(gs) + 1 .. Len(fs) : q = n
      BY ReturnFacts
    <3> QED BY <1>3, <3>1 DEF NoExit
  <2>3. \A k \in 1 .. Len(ds), o \in 1 .. Len(fs) :
          cxs[k].type = "eval" /\ Owner(fs, k, cxs[k], o) => o <= Len(gs)
    BY <1>2, ReturnOwners
  <2>4. ASSUME fs[Len(gs)].fn = "my_exit" PROVE Len(ds) <= fs[Len(gs) + 1].base
    <3>1. f.fn \in CallFns
      BY <1>3, <2>4, ReturnFacts DEF Callers, Loops, CallFns
    <3> QED BY <3>1, ReturnFacts DEF CallFns
  <2> QED BY <1>1, <2>1, <2>2, <2>3, <2>4 DEF CutOf
<1>5. Held(gs, ds)
  <2>1. Guards(fs, cxs, Len(gs)) /\ Dies(fs, cxs, Len(gs))
    <3>1. \A i \in 1 .. Len(gs) : i \in 1 .. n
      BY ReturnFacts
    <3> QED BY <3>1 DEF Held, Guards, Dies
  <2> QED BY <1>2, <1>4, <2>1, ReturnSpares, CutHeld
<1>6. Zones(gs, ds, m)
  <2>1. \A j \in Len(gs) + 1 .. Len(fs) : fs[j].fn \notin {"docatch", "leave"} => m <= Low(fs[j])
    <3>1. \A j \in Len(gs) + 1 .. Len(fs) : j = n
      BY ReturnFacts
    <3>2. ASSUME f.fn \notin {"docatch", "leave"} PROVE m <= Low(f)
      <4>1. Len(ds) = f.base /\ f.base \in Nat
        BY <3>2, ReturnFacts
      <4>2. CASE f.fn = "call_sv_eval"
        BY <4>1, <4>2 DEF Low
      <4>3. CASE f.fn # "call_sv_eval"
        BY <4>1, <4>3 DEF Low
      <4> QED BY <4>2, <4>3
    <3> QED BY <3>1, <3>2
  <2>2. \A k \in 1 .. m : SameEntry(cxs[k], ds[k])
    <3>1. \A k \in 1 .. m : k \in 1 .. Len(ds)
      BY ReturnFacts
    <3> QED BY <1>1, <3>1 DEF Prefix, SameEntry
  <2>3. m <= Len(cxs) /\ Len(cxs) \in Nat /\ Len(gs) <= Len(fs)
    BY ReturnFacts
  <2> QED BY <1>1, <1>2, <2>1, <2>2, <2>3, ZonesCut
<1> QED
  BY <1>2, <1>4, <1>5, <1>6, CutCore DEF Core
\* The entry that leave() pops last says whether the loop goes on.
LEMMA LeaveGoesTo ==
  ASSUME NEW fs, NEW gs, NEW cxs, NEW ds, Returns(fs, gs, cxs, ds), fs[Len(fs)].fn = "leave",
         Len(cxs) = Len(ds) + 1, Static(fs), Zones(fs, cxs, Len(cxs))
  PROVE  /\ gs[Len(gs)].fn \in Loops
         /\ cxs[Len(cxs)].retop => MayRun(gs, Len(gs), Len(ds))
         /\ ~cxs[Len(cxs)].retop => HasEnded(gs, Len(gs), Len(ds))
<1> DEFINE m == Len(gs)
           b == Len(ds)
<1>1. /\ m \in Nat /\ m > 0 /\ m \in 1 .. m /\ m \in 1 .. Len(fs) /\ Len(fs) = m + 1
      /\ Len(fs) \in 2 .. Len(fs) /\ Len(fs) - 1 = m /\ b \in Nat /\ fs[Len(fs)].base = b
      /\ CStack(fs) /\ SameUpTo(fs, gs, m) /\ fs[m].fn = gs[m].fn
  BY ReturnFacts DEF Returns, SameUpTo
<1>2. fs[m].fn \in Loops
  BY <1>1 DEF Static, Under, Callers
<1>3. MayRun(fs, m, b) \/ HasEnded(fs, m, b)
  BY <1>1, <1>2 DEF Static, Heights
<1>4. PICK r \in 1 .. m : LoopFor(fs, r, m)
  BY <1>1, <1>2, LoopExists DEF Static
<1>5. /\ r \in 1 .. Len(fs) /\ fs[r].base \in Nat /\ fs[r].fn \in {"perl_run"} \cup CallFns
      /\ fs[r].fn = "perl_run" => fs[r].base = 0
  <2>1. r \in 1 .. Len(fs) /\ (r # 1 => r \in 2 .. Len(fs))
    BY <1>1
  <2> QED BY <1>1, <1>4, <2>1 DEF LoopFor, Static, Bottom, CStack
<1>6. fs[r].fn = "perl_run" \/ b >= fs[r].base + 2 \/ b = fs[r].base + 1
  BY <1>3, <1>4 DEF MayRun, HasEnded
<1>7. Expected(fs[r], b + 1, cxs[b + 1])
  <2>1. b + 1 \in 1 .. Len(cxs) /\ b + 1 > fs[r].base
    BY <1>1, <1>5, <1>6
  <2>2. \A j \in r + 1 .. Len(fs) : fs[j].fn \in {"docatch", "leave"}
    <3>1. \A j \in r + 1 .. Len(fs) : j = Len(fs) \/ j \in r + 1 .. m
      BY <1>1
    <3> QED BY <1>4, <3>1 DEF LoopFor
  <2> QED BY <1>5, <2>1, <2>2 DEF Zones
<1>8. \A s \in 1 .. m : LoopFor(fs, s, m) => s = r
  BY <1>1, <1>4, LoopUnique
<1>9. \A h : (MayRun(fs, m, h) <=> MayRun(gs, m, h)) /\ (HasEnded(fs, m, h) <=> HasEnded(gs, m, h))
  BY <1>1, LoopSame
<1>10. ASSUME cxs[Len(cxs)].retop PROVE MayRun(fs, m, b)
  <2>1. CASE fs[r].fn = "perl_run"
    BY <1>8, <2>1 DEF MayRun
  <2>2. CASE fs[r].fn # "perl_run"
    <3>1. b + 1 > fs[r].base + 1 => b + 1 > fs[r].base + 2
      BY <1>5, <1>7, <1>10, <2>2 DEF Expected
    <3>2. b >= fs[r].base + 2
      BY <1>1, <1>5, <1>6, <2>2, <3>1, SMTT(30)
    <3> QED BY <1>8, <3>2 DEF MayRun
  <2> QED BY <2>1, <2>2
<1>11. ASSUME ~cxs[Len(cxs)].retop PROVE HasEnded(fs, m, b)
  <2>1. fs[r].fn # "perl_run"
    BY <1>7, <1>11 DEF Expected
  <2>2. b + 1 > fs[r].base + 1 => ~(b + 1 > fs[r].base + 2)
    BY <1>5, <1>7, <1>11, <2>1 DEF Expected
  <2>3. b = fs[r].base + 1
    BY <1>1, <1>5, <1>6, <2>1, <2>2
  <2> QED BY <1>8, <2>1, <2>3 DEF HasEnded
<1> QED
  BY <1>1, <1>2, <1>9, <1>10, <1>11

LEMMA MayLeave ==
  ASSUME NEW fs, NEW cxs, CStack(fs), Static(fs), Zones(fs, cxs, Len(cxs)), Len(cxs) \in Nat,
         fs[Len(fs)].fn \in Loops, MayRun(fs, Len(fs), Len(cxs)),
         NEW b \in 0 .. Len(cxs) - 1,
         b = Len(cxs) - 1 \/ \A k \in b + 1 .. Len(cxs) : cxs[k].retop
  PROVE  MayRun(fs, Len(fs), b) \/ HasEnded(fs, Len(fs), b)
<1> DEFINE n == Len(fs)
<1>1. n \in Nat /\ n > 0 /\ n \in 1 .. n /\ b \in Nat
  BY DEF CStack, Static, Bottom
<1>2. PICK r \in 1 .. n : LoopFor(fs, r, n)
  BY <1>1, LoopExists DEF Static
<1>3. \A s \in 1 .. n : LoopFor(fs, s, n) => s = r
  BY <1>1, <1>2, LoopUnique
<1>4. CASE fs[r].fn = "perl_run"
  BY <1>3, <1>4 DEF MayRun
<1>5. CASE fs[r].fn # "perl_run"
  <2> DEFINE p == fs[r].base + 2
  <2>1. Len(cxs) >= p /\ fs[r].base \in Nat /\ fs[r].fn \in CallFns
    BY <1>2, <1>5 DEF MayRun, LoopFor, CStack
  <2>2. CASE b = Len(cxs) - 1
    <3>1. b >= p \/ b = fs[r].base + 1
      BY <2>1, <2>2
    <3> QED BY <1>3, <1>5, <3>1 DEF MayRun, HasEnded
  <2>3. CASE \A k \in b + 1 .. Len(cxs) : cxs[k].retop
    <3>1. Expected(fs[r], p, cxs[p])
      <4>1. p \in 1 .. Len(cxs) /\ p > fs[r].base
        BY <2>1
      <4>2. \A j \in r + 1 .. n : fs[j].fn \in {"docatch", "leave"}
        BY <1>2 DEF LoopFor
      <4> QED BY <2>1, <4>1, <4>2 DEF Zones
    <3>2. p > fs[r].base + 1 /\ ~(p > fs[r].base + 2)
      BY <2>1
    <3>3. ~cxs[p].retop
      BY <2>1, <3>1, <3>2 DEF Expected
    <3>4. ~(p \in b + 1 .. Len(cxs))
      BY <2>3, <3>3
    <3>5. b >= p
      BY <1>1, <2>1, <3>4
    <3> QED BY <1>3, <3>5 DEF MayRun
  <2> QED BY <2>2, <2>3
<1> QED BY <1>4, <1>5

-----------------------------------------------------------------------------
(* Jumps.                                                                  *)

\* The innermost my_exit() of some functions.
LEMMA LastExit ==
  ASSUME NEW fs, Len(fs) \in Nat, NEW a \in Nat, ~NoExit(fs, a, Len(fs))
  PROVE  \E x \in a .. Len(fs) : fs[x].fn = "my_exit" /\ NoExit(fs, x + 1, Len(fs))
<1> DEFINE n == Len(fs)
           T == {j \in Nat : n - j \in a .. n /\ fs[n - j].fn = "my_exit"}
<1>1. T # {} /\ T \subseteq Nat
  <2>1. PICK x \in a .. n : fs[x].fn = "my_exit"
    BY DEF NoExit
  <2>2. n - x \in Nat /\ n - (n - x) = x
    OBVIOUS
  <2>3. n - x \in T
    BY <2>1, <2>2
  <2> QED BY <2>3
<1>2. PICK j \in T : \A i \in T : ~(<<i, j>> \in OpToRel(<, Nat))
  <2> HIDE DEF T
  <2> QED BY <1>1, NatLessThanWellFounded, WFMin
<1>3. \A i \in T : ~(i < j)
  BY <1>1, <1>2 DEF OpToRel
<1>4. j \in Nat /\ n - j \in a .. n /\ fs[n - j].fn = "my_exit"
  BY <1>2
<1>5. ASSUME NEW q \in n - j + 1 .. n PROVE fs[q].fn # "my_exit"
  <2>1. n - q \in Nat /\ n - q < j /\ n - (n - q) = q /\ q \in a .. n
    BY <1>4
  <2>2. n - q \notin T
    BY <2>1, <1>3
  <2> QED BY <2>1, <2>2
<1> QED
  BY <1>4, <1>5 DEF NoExit
LEMMA ExitIsUnderCall ==
  ASSUME NEW fs, CStack(fs), Static(fs), NEW x \in 1 .. Len(fs) - 1, fs[x].fn = "my_exit"
  PROVE  fs[x + 1].fn \in CallFns
<1>1. x + 1 \in 2 .. Len(fs) /\ x + 1 \in 1 .. Len(fs) /\ x + 1 - 1 = x
  BY DEF CStack
<1>2. fs[x].fn \in Callers(fs[x + 1].fn) /\ fs[x + 1].fn \in Fns
  BY <1>1 DEF Static, Under, CStack
<1> QED
  BY <1>2 DEF Callers, Fns, CallFns, Loops, Envs, Unwinders

\* die_unwind() has come to the eval, and jumps.
JumpStart(fs, cxs, ds, rs) ==
  /\ CStack(fs) /\ PStack(cxs) /\ PStack(ds) /\ Prefix(cxs, ds, Len(cxs) - 1) /\ Len(cxs) > 0
  /\ fs[Len(fs)].fn = "die_unwind" /\ cxs[Len(cxs)].type = "eval"
  /\ rs.loop = cxs[Len(cxs)].loop /\ rs.env = cxs[Len(cxs)].env
  /\ Core(fs, cxs, Len(cxs) - 1) /\ Held(fs, cxs)

LEMMA JumpStartFacts ==
  ASSUME NEW fs, NEW cxs, NEW ds, NEW rs, JumpStart(fs, cxs, ds, rs)
  PROVE  /\ Len(fs) \in Nat /\ Len(fs) > 0 /\ Len(fs) \in 1 .. Len(fs)
         /\ Len(cxs) \in Nat /\ Len(cxs) > 0 /\ Len(cxs) \in 1 .. Len(cxs)
         /\ Len(ds) \in Nat /\ Len(ds) = Len(cxs) - 1 /\ Len(cxs) = Len(ds) + 1
         /\ \A k \in 1 .. Len(ds) : k \in 1 .. Len(cxs) /\ ds[k] = cxs[k] /\ k < Len(cxs)
         /\ CStack(fs) /\ PStack(cxs) /\ PStack(ds)
         /\ Static(fs) /\ Evals(fs, cxs) /\ Ordered(fs, cxs) /\ ExitsClean(fs, cxs)
         /\ Zones(fs, cxs, Len(ds))
         /\ CutOf(fs, fs, cxs, ds)
<1>1. /\ CStack(fs) /\ PStack(cxs) /\ PStack(ds) /\ Len(ds) = Len(cxs) - 1 /\ Len(cxs) > 0
      /\ \A k \in 1 .. Len(cxs) - 1 : ds[k] = cxs[k]
  BY DEF JumpStart, Prefix
<1>2. Len(fs) \in Nat /\ Len(cxs) \in Nat /\ Len(ds) \in Nat
  BY <1>1 DEF CStack, PStack
<1>3. Static(fs) /\ Evals(fs, cxs) /\ Ordered(fs, cxs) /\ ExitsClean(fs, cxs) /\ Zones(fs, cxs, Len(ds))
  BY <1>1 DEF JumpStart, Core
<1>4. Len(fs) > 0
  BY <1>3 DEF Static, Bottom
<1>5. CutOf(fs, fs, cxs, ds)
  BY <1>1, <1>2, <1>4, CutSame DEF Prefix
<1>6. /\ Len(fs) \in 1 .. Len(fs) /\ Len(cxs) \in 1 .. Len(cxs) /\ Len(cxs) = Len(ds) + 1
      /\ \A k \in 1 .. Len(ds) : k \in 1 .. Len(cxs) /\ ds[k] = cxs[k] /\ k < Len(cxs)
  BY <1>1, <1>2, <1>4
<1> QED
  BY <1>1, <1>2, <1>3, <1>4, <1>5, <1>6

\* What is above the eval's owner.
LEMMA JumpPasses ==
  ASSUME NEW fs, NEW cxs, NEW ds, NEW rs, JumpStart(fs, cxs, ds, rs),
         NEW n \in 1 .. Len(fs), Owner(fs, Len(cxs), cxs[Len(cxs)], n)
  PROVE  /\ NoExit(fs, n + 1, Len(fs))
         /\ \A i \in n + 1 .. Len(fs) : /\ fs[i].fn \notin {"call_sv_eval", "my_exit"}
                                        /\ fs[i].fn # "leave" => fs[i].base > Len(ds)
                                        /\ fs[i].fn = "yyparse" => rs.loop = i - 1
<1> DEFINE D == Len(fs)
           l == Len(cxs)
<1>1. \A i \in n + 1 .. D : fs[i].fn # "leave" => fs[i].base >= l
  BY DEF Owner
<1>2. NoExit(fs, n + 1, D)
  <2> SUFFICES ASSUME ~NoExit(fs, n + 1, D) PROVE FALSE
    OBVIOUS
  <2>1. D \in Nat /\ n + 1 \in Nat
    BY JumpStartFacts
  <2>2. PICK x \in n + 1 .. D : fs[x].fn = "my_exit" /\ NoExit(fs, x + 1, D)
    BY <2>1, LastExit
  <2>3. x # D
    BY <2>2 DEF JumpStart
  <2>4. x \in 1 .. D - 1 /\ x + 1 \in n + 1 .. D
    BY <2>1, <2>3
  <2>5. fs[x + 1].fn \in CallFns
    BY <2>2, <2>4, JumpStartFacts, ExitIsUnderCall
  <2>6. fs[x + 1].base \in Nat /\ fs[x + 1].base < l
    BY <2>2, <2>4, <2>5, JumpStartFacts, BasesBelow DEF JumpStart
  <2>7. fs[x + 1].base >= l
    BY <1>1, <2>4, <2>5 DEF CallFns
  <2> QED BY <2>6, <2>7, JumpStartFacts
<1>3. ASSUME NEW i \in n + 1 .. D PROVE
        /\ fs[i].fn \notin {"call_sv_eval", "my_exit"}
        /\ fs[i].fn # "leave" => fs[i].base > Len(ds)
        /\ fs[i].fn = "yyparse" => rs.loop = i - 1
  <2>1. i \in 1 .. D /\ fs[i].base \in Nat
    BY JumpStartFacts DEF CStack
  <2>2. fs[i].fn # "my_exit"
    BY <1>2 DEF NoExit
  <2>3. fs[i].fn # "leave" => fs[i].base > Len(ds)
    BY <1>1, <2>1, JumpStartFacts
  <2>4. NoExit(fs, i + 1, D)
    <3>1. \A q \in i + 1 .. D : q \in n + 1 .. D
      BY JumpStartFacts
    <3> QED BY <1>2, <3>1 DEF NoExit
  <2>5. fs[i].fn # "call_sv_eval"
    <3> SUFFICES ASSUME fs[i].fn = "call_sv_eval" PROVE FALSE
      OBVIOUS
    <3>1. Kept(fs, cxs, i)
      BY <2>1, <2>4 DEF Guarded, JumpStart, Held, Guards
    <3>2. l >= fs[i].base + 1
      BY <3>1 DEF Kept, Guard
    <3> QED BY <3>2, <1>1, <2>1, JumpStartFacts
  <2>6. ASSUME fs[i].fn = "yyparse" PROVE rs.loop = i - 1
    <3>1. Kept(fs, cxs, i)
      BY <2>1, <2>4, <2>6 DEF Guarded, JumpStart, Held, Guards
    <3>2. l >= fs[i].base /\ cxs[fs[i].base].loop = i - 1
      BY <3>1, <2>6 DEF Kept, Guard
    <3>3. fs[i].base = l
      BY <3>2, <1>1, <2>1, <2>6, JumpStartFacts
    <3> QED BY <3>2, <3>3 DEF JumpStart
  <2> QED BY <2>2, <2>3, <2>5, <2>6
<1> QED BY <1>2, <1>3

\* The guards that are below it stay.
LEMMA JumpSpares ==
  ASSUME NEW fs, NEW cxs, NEW ds, NEW rs, JumpStart(fs, cxs, ds, rs),
         NEW n \in 1 .. Len(fs), Owner(fs, Len(cxs), cxs[Len(cxs)], n),
         NEW u \in Nat, u <= n, rs.loop = 0 => u < n
  PROVE  Spares(fs, cxs, u, Len(ds)) /\ Guards(fs, ds, u) /\ Dies(fs, ds, n - 1)
<1> DEFINE D == Len(fs)
           l == Len(cxs)
<1>0. l \in Nat /\ l > 0 /\ D \in Nat /\ Len(ds) = l - 1 /\ l \in 1 .. l
  BY JumpStartFacts
<1>1. cxs[l].type = "eval" /\ rs.loop = cxs[l].loop
  BY DEF JumpStart
<1>2. ASSUME NEW i \in 1 .. u, Guarded(fs, i), NoExit(fs, i + 1, D) PROVE Guard(fs[i]) <= Len(ds)
  <2>1. i \in 1 .. D /\ i <= n
    BY <1>0
  <2>2. Kept(fs, cxs, i)
    BY <1>2, <2>1 DEF JumpStart, Held, Guards
  <2>3. Guard(fs[i]) \in Nat /\ Guard(fs[i]) <= l
    BY <1>2, <2>1, <2>2, JumpStartFacts, GuardIs DEF Kept
  <2>4. CASE rs.loop = 0
    <3>1. i < n /\ fs[n].fn = "call_sv_eval" /\ fs[n].base + 1 = l /\ n \in 1 .. D
      BY <1>0, <1>1, <2>4 DEF Owner
    <3>2. NoExit(fs, i + 1, n - 1)
      <4>1. \A q \in i + 1 .. n - 1 : q \in i + 1 .. D
        BY <1>0
      <4> QED BY <1>2, <4>1 DEF NoExit
    <3>3. Low(fs[n]) >= Guard(fs[i])
      BY <1>2, <2>1, <3>1, <3>2, JumpStartFacts DEF Static, Above
    <3>4. Low(fs[n]) = fs[n].base - 1 /\ fs[n].base \in Nat
      BY <3>1, JumpStartFacts DEF Low, CStack
    <3> QED BY <1>0, <2>3, <3>1, <3>3, <3>4
  <2>5. CASE rs.loop # 0
    <3>1. rs.loop = n
      BY <1>1, <2>5 DEF Owner
    <3>2. Guard(fs[i]) # l
      <4> SUFFICES ASSUME Guard(fs[i]) = l PROVE FALSE
        OBVIOUS
      <4>1. fs[i].fn # "call_sv_eval"
        BY <1>1, <2>2, <2>5 DEF Kept
      <4>2. fs[i].fn # "yyparse"
        <5>1. fs[i].fn = "yyparse" => rs.loop = i - 1
          BY <1>1, <2>2 DEF Kept
        <5> QED BY <3>1, <5>1, <2>1
      <4>3. fs[i].fn # "call_sv"
        BY <1>1, <2>2 DEF Kept
      <4> QED BY <1>2, <4>1, <4>2, <4>3 DEF Guarded
    <3> QED BY <1>0, <2>3, <3>2
  <2> QED BY <2>4, <2>5
<1>3. ASSUME NEW k \in 1 .. l, NEW d \in 1 .. n - 1, NEW m \in 1 .. d - 1,
             cxs[k].type = "eval", Owner(fs, k, cxs[k], m)
      PROVE  k <= Len(ds)
  <2>1. m # n /\ k \in Nat
    BY <1>0
  <2>2. k # l
    BY <1>3, <2>1, JumpStartFacts, OwnerUnique
  <2> QED BY <1>0, <2>2
<1>4. ASSUME NEW k \in 1 .. l, NEW d \in 1 .. u, NEW m \in 1 .. d - 1, fs[d].fn = "die_unwind",
             cxs[k].type = "eval", Owner(fs, k, cxs[k], m)
      PROVE  k <= Len(ds)
  <2>1. d # n
    BY <1>4 DEF Owner
  <2>2. d \in 1 .. n - 1
    BY <1>0, <2>1
  <2> QED BY <1>3, <1>4, <2>2
<1>5. Spares(fs, cxs, u, Len(ds))
  BY <1>2, <1>4 DEF Spares
<1>6. Guards(fs, cxs, u) /\ Dies(fs, cxs, n - 1)
  <2>1. (\A i \in 1 .. u : i \in 1 .. D) /\ \A i \in 1 .. n - 1 : i \in 1 .. D
    BY <1>0
  <2> QED BY <2>1 DEF JumpStart, Held, Guards, Dies
<1>7. Guards(fs, ds, u)
  <2>1. u <= Len(fs)
    BY <1>0
  <2> QED BY <1>5, <1>6, <2>1, JumpStartFacts, CutGuards
<1>8. Dies(fs, ds, n - 1)
  <2> SUFFICES ASSUME NEW d \in 1 .. n - 1, fs[d].fn = "die_unwind", NoExit(fs, d + 1, D)
               PROVE  \E p \in 1 .. Len(ds) :
                        /\ d < D => p <= Low(fs[d + 1])
                        /\ ds[p].type = "eval" /\ \E m \in 1 .. d - 1 : Owner(fs, p, ds[p], m)
    BY DEF Dies
  <2>1. PICK p \in 1 .. l :
          /\ d < D => p <= Low(fs[d + 1])
          /\ cxs[p].type = "eval" /\ \E m \in 1 .. d - 1 : Owner(fs, p, cxs[p], m)
    BY <1>6 DEF Dies
  <2>2. p <= Len(ds)
    BY <1>3, <2>1
  <2>3. p \in 1 .. Len(ds) /\ ds[p] = cxs[p]
    BY <2>2, JumpStartFacts
  <2> QED BY <2>1, <2>3
<1> QED BY <1>5, <1>7, <1>8
LEMMA JumpStarts ==
  ASSUME NEW fs, NEW cxs, NEW ds, NEW rs, JumpStart(fs, cxs, ds, rs)
  PROVE  /\ Core(fs, ds, Len(ds)) /\ AtJump(fs, ds, rs)
         /\ rs.loop # 0 => ~cxs[Len(cxs)].keeperr
<1> DEFINE D == Len(fs)
           l == Len(cxs)
<1>0. l \in Nat /\ l > 0 /\ D \in Nat /\ Len(ds) = l - 1 /\ l \in 1 .. l
      /\ cxs[l].type = "eval" /\ rs.loop = cxs[l].loop /\ rs.env = cxs[l].env
  BY JumpStartFacts DEF JumpStart
<1>1. PICK n \in 1 .. D : Owner(fs, l, cxs[l], n)
  BY <1>0, JumpStartFacts DEF Evals
<1>2. Core(fs, ds, Len(ds))
  <2>1. Zones(fs, ds, Len(ds))
    <3>1. Len(fs) \in Nat /\ SameUpTo(fs, fs, Len(fs)) /\ \A j \in Len(fs) + 1 .. Len(fs) : FALSE
      BY <1>0 DEF SameUpTo
    <3>2. \A k \in 1 .. Len(ds) : SameEntry(cxs[k], ds[k])
      BY JumpStartFacts DEF SameEntry
    <3>3. Zones(fs, cxs, Len(ds)) /\ Len(ds) \in Nat /\ Len(ds) <= Len(ds) /\ Len(fs) <= Len(fs)
      BY <1>0, JumpStartFacts
    <3> QED BY <3>1, <3>2, <3>3, JumpStartFacts, ZonesCut
  <2> QED BY <2>1, JumpStartFacts, CutCore DEF Core
<1>3. NoExit(fs, n + 1, D)
      /\ \A i \in n + 1 .. D : /\ fs[i].fn \notin {"call_sv_eval", "my_exit"}
                               /\ fs[i].fn # "leave" => fs[i].base > Len(ds)
                               /\ fs[i].fn = "yyparse" => rs.loop = i - 1
  BY <1>1, JumpPasses
<1>4. ASSUME NEW k \in 1 .. Len(ds), NEW m \in 1 .. D, ds[k].type = "eval", Owner(fs, k, ds[k], m)
      PROVE  m <= n /\ (rs.loop = 0 => m < n)
  <2>1. k \in 1 .. l /\ k < l /\ ds[k] = cxs[k] /\ Ordered(fs, cxs)
    BY JumpStartFacts
  <2>2. cxs[k].type = "eval" /\ Owner(fs, k, cxs[k], m)
    BY <1>4, <2>1
  <2> HIDE DEF D, l
  <2>3. m <= n /\ (cxs[l].loop = 0 => m < n)
    BY <1>0, <1>1, <2>1, <2>2 DEF Ordered, D, l
  <2> QED BY <1>0, <2>3
<1>5. n \in Nat /\ n - 1 \in Nat /\ n - 1 <= n /\ n <= n /\ n - 1 < n
  BY <1>0
<1>6. Dies(fs, ds, n - 1)
  BY <1>1, <1>5, JumpSpares
<1>7. CASE rs.loop = 0
  <2>1. fs[n].fn = "call_sv_eval" /\ fs[n].base + 1 = l /\ rs.env < n
    BY <1>0, <1>1, <1>7 DEF Owner
  <2>2. fs[n].base = Len(ds) /\ fs[n].base \in Nat
    BY <1>0, <2>1, JumpStartFacts DEF CStack
  <2>3. Guarded(fs, n)
    BY <2>1 DEF Guarded
  <2>4. Kept(fs, cxs, n)
    BY <1>3, <2>3 DEF JumpStart, Held, Guards
  <2>5. fs[n].base > 0
    BY <2>1, <2>3, JumpStartFacts, GuardIs
  <2>6. ds[fs[n].base].onleave = ""
    <3>1. fs[n].base \in 1 .. Len(ds)
      <4>1. Len(ds) > 0 /\ Len(ds) \in Nat
        BY <2>2, <2>5
      <4>2. Len(ds) \in 1 .. Len(ds)
        BY <4>1
      <4> QED BY <2>2, <4>2
    <3>2. cxs[fs[n].base].onleave = ""
      BY <2>1, <2>4 DEF Kept
    <3>3. ds[fs[n].base] = cxs[fs[n].base]
      BY <3>1, JumpStartFacts
    <3> QED BY <3>2, <3>3
  <2>7. \A i \in n + 1 .. D : fs[i].fn # "yyparse"
    <3>1. \A i \in n + 1 .. D : i - 1 # 0
      BY <1>5
    <3> QED BY <1>3, <1>7, <3>1
  <2>8. Guards(fs, ds, n - 1)
    BY <1>1, <1>5, JumpSpares
  <2>9. JumpsTo(fs, ds, rs, n)
    BY <1>3, <1>4, <1>6, <1>7, <2>1, <2>2, <2>5, <2>6, <2>7, <2>8 DEF JumpsTo
  <2> QED BY <1>2, <1>7, <2>9 DEF AtJump
<1>8. CASE rs.loop # 0
  <2>1. /\ rs.loop = n /\ rs.env = n /\ ~cxs[l].keeperr
        /\ fs[n].fn \in {"perl_run", "docatch", "call_sv_eval"} /\ MayRun(fs, n, l - 1)
    BY <1>0, <1>1, <1>8 DEF Owner
  <2>2. \A i \in n + 2 .. D : fs[i].fn # "yyparse"
    <3>1. \A i \in n + 2 .. D : i \in n + 1 .. D /\ i - 1 # n
      BY <1>5
    <3> QED BY <1>3, <2>1, <3>1
  <2>3. Guards(fs, ds, n)
    BY <1>1, <1>5, <1>8, JumpSpares
  <2>4. MayRun(fs, n, Len(ds))
    BY <1>0, <2>1
  <2>5. JumpsTo(fs, ds, rs, n)
    BY <1>3, <1>4, <1>6, <1>8, <2>1, <2>2, <2>3, <2>4 DEF JumpsTo
  <2> QED BY <1>2, <2>1, <2>5 DEF AtJump
<1> QED BY <1>7, <1>8

\* The functions above t are gone.
JumpedTo(fs, gs, cxs, rs, n, t) ==
  /\ CStack(fs) /\ CStack(gs) /\ PStack(cxs) /\ Core(fs, cxs, Len(cxs)) /\ JumpsTo(fs, cxs, rs, n)
  /\ Len(gs) = t /\ t \in 1 .. Len(fs) /\ SameUpTo(fs, gs, t)
  /\ t >= n \/ (rs.loop = 0 /\ t = n - 1)

LEMMA JumpFacts ==
  ASSUME NEW fs, NEW gs, NEW cxs, NEW rs, NEW n, NEW t, JumpedTo(fs, gs, cxs, rs, n, t)
  PROVE  /\ CutOf(fs, gs, cxs, cxs)
         /\ n \in Nat /\ n > 0 /\ n \in 1 .. Len(fs) /\ Len(gs) = t /\ t \in 1 .. Len(fs) /\ t \in Nat
         /\ Len(cxs) \in Nat /\ Static(fs) /\ Zones(fs, cxs, Len(cxs))
         /\ fs[n].fn \in {"perl_run", "docatch", "call_sv_eval"} /\ fs[n].base \in Nat
         /\ \A i \in n + 1 .. Len(fs) : /\ fs[i].fn \notin {"call_sv_eval", "my_exit"}
                                        /\ fs[i].fn # "leave" => fs[i].base > Len(cxs)
         /\ CStack(fs) /\ CStack(gs) /\ PStack(cxs) /\ SameUpTo(fs, gs, t)
<1>1. /\ CStack(fs) /\ CStack(gs) /\ PStack(cxs) /\ Len(gs) = t /\ t \in 1 .. Len(fs)
      /\ SameUpTo(fs, gs, t) /\ (t >= n \/ (rs.loop = 0 /\ t = n - 1)) /\ n \in 1 .. Len(fs)
      /\ Static(fs) /\ Zones(fs, cxs, Len(cxs))
  BY DEF JumpedTo, JumpsTo, Core
<1>2. Len(fs) \in Nat /\ Len(cxs) \in Nat /\ n \in Nat /\ n > 0 /\ t \in Nat /\ fs[n].base \in Nat
  BY <1>1 DEF CStack, PStack
<1>3. \A i \in n + 1 .. Len(fs) : /\ fs[i].fn \notin {"call_sv_eval", "my_exit"}
                                  /\ fs[i].fn # "leave" => fs[i].base > Len(cxs)
  BY DEF JumpedTo, JumpsTo
<1>4. /\ rs.loop = 0 => fs[n].fn = "call_sv_eval" /\ fs[n].base = Len(cxs)
      /\ rs.loop # 0 => fs[n].fn \in {"perl_run", "docatch", "call_sv_eval"}
  BY DEF JumpedTo, JumpsTo
<1>5. NoExit(fs, t + 1, Len(fs))
  <2>1. \A i \in t + 1 .. Len(fs) : i = n \/ i \in n + 1 .. Len(fs)
    BY <1>1, <1>2
  <2> QED BY <1>3, <1>4, <2>1 DEF NoExit
<1>6. \A k \in 1 .. Len(cxs), m \in 1 .. Len(fs) :
        cxs[k].type = "eval" /\ Owner(fs, k, cxs[k], m) => m <= t
  <2>1. \A k \in 1 .. Len(cxs), m \in 1 .. Len(fs) :
          cxs[k].type = "eval" /\ Owner(fs, k, cxs[k], m) => m <= n /\ (rs.loop = 0 => m < n)
    BY DEF JumpedTo, JumpsTo
  <2> QED BY <1>1, <1>2, <2>1
<1>7. ASSUME t < Len(fs), fs[t].fn = "my_exit" PROVE Len(cxs) <= fs[t + 1].base
  <2>1. t # n /\ ~(t > n)
    <3>1. t > n => t \in n + 1 .. Len(fs)
      BY <1>1, <1>2
    <3> QED BY <1>3, <1>4, <1>7, <3>1
  <2>2. t + 1 = n /\ rs.loop = 0
    BY <1>1, <1>2, <2>1
  <2> QED BY <1>2, <1>4, <2>2
<1>8. CutOf(fs, gs, cxs, cxs)
  <2>1. Len(cxs) <= Len(cxs) /\ \A k \in 1 .. Len(cxs) : cxs[k] = cxs[k]
    BY <1>2
  <2> QED BY <1>1, <1>5, <1>6, <1>7, <2>1 DEF CutOf
<1> QED
  BY <1>1, <1>2, <1>3, <1>4, <1>8

LEMMA JumpedCore ==
  ASSUME NEW fs, NEW gs, NEW cxs, NEW rs, NEW n, NEW t, JumpedTo(fs, gs, cxs, rs, n, t),
         NEW m \in Nat, m <= Len(cxs), t < n => m < Len(cxs)
  PROVE  Core(gs, cxs, m)
<1>1. Zones(gs, cxs, m)
  <2>1. ASSUME NEW j \in t + 1 .. Len(fs), fs[j].fn \notin {"docatch", "leave"} PROVE m <= Low(fs[j])
    <3>1. j \in Nat /\ (j = n \/ j \in n + 1 .. Len(fs))
      BY JumpFacts DEF JumpedTo
    <3>2. CASE j = n
      <4>1. t < n /\ rs.loop = 0
        BY <3>2, JumpFacts DEF JumpedTo
      <4>2. fs[j].fn = "call_sv_eval" /\ fs[j].base = Len(cxs)
        BY <3>2, <4>1 DEF JumpedTo, JumpsTo
      <4> QED BY <4>1, <4>2, JumpFacts DEF Low
    <3>3. CASE j \in n + 1 .. Len(fs)
      <4>1. fs[j].base > Len(cxs) /\ fs[j].fn # "call_sv_eval"
        BY <2>1, <3>3, JumpFacts
      <4>2. fs[j].base \in Nat
        <5>1. j \in 1 .. Len(fs)
          BY <3>3, JumpFacts
        <5> QED BY <5>1, JumpFacts DEF CStack
      <4> QED BY <4>1, <4>2, JumpFacts DEF Low
    <3> QED BY <3>1, <3>2, <3>3
  <2>2. \A k \in 1 .. m : SameEntry(cxs[k], cxs[k])
    BY DEF SameEntry
  <2>3. Len(gs) <= Len(fs) /\ Len(gs) = t /\ Len(cxs) \in Nat
    BY JumpFacts DEF CStack
  <2> QED
    BY <2>1, <2>2, <2>3, JumpFacts, ZonesCut
<1>2. Static(fs) /\ Evals(fs, cxs) /\ Ordered(fs, cxs) /\ ExitsClean(fs, cxs)
  BY DEF JumpedTo, Core
<1> QED
  BY <1>1, <1>2, JumpFacts, CutCore DEF Core

LEMMA JumpedSpares ==
  ASSUME NEW fs, NEW gs, NEW cxs, NEW rs, NEW n, NEW t, JumpedTo(fs, gs, cxs, rs, n, t),
         NEW u \in Nat, u <= t, Guards(fs, cxs, u)
  PROVE  Spares(fs, cxs, u, Len(cxs)) /\ Guards(gs, cxs, u)
<1>1. Spares(fs, cxs, u, Len(cxs))
  <2>1. ASSUME NEW i \in 1 .. u, Guarded(fs, i), NoExit(fs, i + 1, Len(fs)) PROVE Guard(fs[i]) <= Len(cxs)
    <3>1. i \in 1 .. Len(fs)
      BY JumpFacts
    <3>2. Len(cxs) >= Guard(fs[i])
      BY <2>1 DEF Guards, Kept
    <3>3. Guard(fs[i]) \in Nat
      BY <2>1, <3>1, JumpFacts, GuardIs
    <3> QED BY <3>2, <3>3, JumpFacts
  <2>2. \A k \in 1 .. Len(cxs) : k <= Len(cxs)
    BY JumpFacts
  <2> QED BY <2>1, <2>2 DEF Spares
<1>2. u <= Len(gs)
  BY JumpFacts
<1> QED
  BY <1>1, <1>2, JumpFacts, CutGuards

\* A jump that goes on.
LEMMA JumpGoesOn ==
  ASSUME NEW fs, NEW gs, NEW cxs, NEW rs, NEW n, NEW t, JumpedTo(fs, gs, cxs, rs, n, t), t >= n
  PROVE  Core(gs, cxs, Len(cxs)) /\ JumpsTo(gs, cxs, rs, n)
<1>1. Core(gs, cxs, Len(cxs))
  <2>1. Len(cxs) \in Nat /\ Len(cxs) <= Len(cxs) /\ ~(t < n)
    BY JumpFacts
  <2> QED BY <2>1, JumpedCore
<1>2. /\ n \in 1 .. Len(gs) /\ n - 1 \in Nat /\ n \in Nat /\ n - 1 <= t /\ n <= t /\ n \in 1 .. t /\ t \in Nat
      /\ \A i \in n + 1 .. Len(gs) : /\ i \in n + 1 .. Len(fs) /\ i \in 1 .. Len(gs)
                                     /\ gs[i].fn = fs[i].fn /\ gs[i].base = fs[i].base
      /\ gs[n].fn = fs[n].fn /\ gs[n].base = fs[n].base
  <2>1. n \in Nat /\ n > 0 /\ t \in Nat /\ Len(gs) = t /\ t \in 1 .. Len(fs)
    BY JumpFacts
  <2>2. /\ n \in 1 .. Len(gs) /\ n - 1 \in Nat /\ n - 1 <= t /\ n <= t /\ n \in 1 .. t
        /\ \A i \in n + 1 .. Len(gs) : i \in n + 1 .. Len(fs) /\ i \in 1 .. Len(gs)
    BY <2>1
  <2> QED BY <2>1, <2>2, JumpFacts, CutFacts, SMTT(30)
<1>3. \A i \in n + 1 .. Len(gs) : /\ gs[i].fn \notin {"call_sv_eval", "my_exit"}
                                  /\ gs[i].fn # "leave" => gs[i].base > Len(cxs)
  BY <1>2, JumpFacts
<1>4. ASSUME NEW k \in 1 .. Len(cxs), NEW m \in 1 .. Len(gs),
             cxs[k].type = "eval", Owner(gs, k, cxs[k], m)
      PROVE  m <= n /\ (rs.loop = 0 => m < n)
  <2>1. Evals(fs, cxs)
    BY DEF JumpedTo, Core
  <2>2. PICK o \in 1 .. Len(fs) : Owner(fs, k, cxs[k], o)
    BY <1>4, <2>1 DEF Evals
  <2>3. o <= n /\ (rs.loop = 0 => o < n)
    BY <1>4, <2>2 DEF JumpedTo, JumpsTo
  <2>4. o \in 1 .. Len(gs)
    BY <2>3, JumpFacts
  <2>5. Owner(gs, k, cxs[k], o)
    BY <2>2, <2>4, JumpFacts, CutOwner
  <2>6. o = m
    BY <1>4, <2>5, JumpFacts, OwnerUnique
  <2> QED BY <2>3, <2>6
<1>5. Guards(fs, cxs, n - 1)
  <2>1. CASE rs.loop = 0
    BY <2>1 DEF JumpedTo, JumpsTo
  <2>2. CASE rs.loop # 0
    <3>1. Guards(fs, cxs, n)
      BY <2>2 DEF JumpedTo, JumpsTo
    <3>2. \A i \in 1 .. n - 1 : i \in 1 .. n
      BY <1>2
    <3> QED BY <3>1, <3>2 DEF Guards
  <2> QED BY <2>1, <2>2
<1>6. Guards(gs, cxs, n - 1) /\ Dies(gs, cxs, n - 1)
  <2>1. Spares(fs, cxs, n - 1, Len(cxs)) /\ Guards(gs, cxs, n - 1)
    BY <1>2, <1>5, JumpedSpares
  <2>2. Dies(fs, cxs, n - 1)
    BY DEF JumpedTo, JumpsTo
  <2>3. n - 1 <= Len(gs)
    BY <1>2, JumpFacts
  <2> QED BY <1>2, <2>1, <2>2, <2>3, JumpFacts, CutDies
<1>7. CASE rs.loop = 0
  <2>1. /\ fs[n].fn = "call_sv_eval" /\ fs[n].base = Len(cxs) /\ rs.env < n
        /\ fs[n].base > 0 /\ cxs[fs[n].base].onleave = ""
        /\ \A i \in n + 1 .. Len(fs) : fs[i].fn # "yyparse"
    BY <1>7 DEF JumpedTo, JumpsTo
  <2> QED
    BY <1>1, <1>2, <1>3, <1>4, <1>6, <1>7, <2>1 DEF JumpsTo
<1>8. CASE rs.loop # 0
  <2>1. /\ rs.loop = n /\ rs.env = n /\ fs[n].fn \in {"perl_run", "docatch", "call_sv_eval"}
        /\ MayRun(fs, n, Len(cxs)) /\ Guards(fs, cxs, n)
        /\ \A i \in n + 2 .. Len(fs) : fs[i].fn # "yyparse"
    BY <1>8 DEF JumpedTo, JumpsTo
  <2>2. Guards(gs, cxs, n)
    BY <1>2, <2>1, JumpedSpares
  <2>3. MayRun(gs, n, Len(cxs))
    BY <1>2, <2>1, JumpFacts, LoopSame
  <2>4. \A i \in n + 2 .. Len(gs) : gs[i].fn # "yyparse"
    <3>1. \A i \in n + 2 .. Len(gs) : i \in n + 2 .. Len(fs) /\ i \in n + 1 .. Len(gs)
      BY <1>2, JumpFacts
    <3> QED BY <1>2, <2>1, <3>1
  <2> QED
    BY <1>1, <1>2, <1>3, <1>4, <1>6, <1>8, <2>1, <2>2, <2>3, <2>4 DEF JumpsTo
<1> QED BY <1>7, <1>8

\* A jump that has come to its catcher.
LEMMA JumpEnds ==
  ASSUME NEW fs, NEW gs, NEW cxs, NEW rs, NEW n, JumpedTo(fs, gs, cxs, rs, n, n), rs.loop # 0
  PROVE  /\ Core(gs, cxs, Len(cxs)) /\ Held(gs, cxs) /\ rs.loop = Len(gs)
         /\ gs[Len(gs)].fn \in Loops /\ MayRun(gs, Len(gs), Len(cxs))
<1>1. n \in Nat /\ n >= n /\ n > 0 /\ Len(gs) = n /\ n \in 1 .. n
  BY JumpFacts
<1>2. Core(gs, cxs, Len(cxs)) /\ JumpsTo(gs, cxs, rs, n)
  BY <1>1, JumpGoesOn
<1>3. /\ rs.loop = n /\ gs[n].fn \in {"perl_run", "docatch", "call_sv_eval"}
      /\ MayRun(gs, n, Len(cxs)) /\ Guards(gs, cxs, n) /\ Dies(gs, cxs, n - 1)
  BY <1>2 DEF JumpsTo
<1>4. Dies(gs, cxs, n)
  <2>1. \A d \in 1 .. n : gs[d].fn = "die_unwind" => d \in 1 .. n - 1
    <3>1. \A d \in 1 .. n : d = n \/ d \in 1 .. n - 1
      BY <1>1
    <3> QED BY <1>3, <3>1
  <2> QED BY <1>3, <2>1 DEF Dies
<1> QED
  BY <1>1, <1>2, <1>3, <1>4 DEF Held, Loops

LEMMA JumpReturns ==
  ASSUME NEW fs, NEW gs, NEW cxs, NEW rs, NEW n, JumpedTo(fs, gs, cxs, rs, n, n - 1)
  PROVE  /\ Core(gs, cxs, Len(cxs) - 1) /\ Held(gs, cxs)
         /\ Len(cxs) > 0 /\ Len(cxs) = fs[n].base /\ cxs[Len(cxs)].onleave = ""
         /\ fs[n].fn = "call_sv_eval" /\ gs[Len(gs)].fn = fs[n - 1].fn /\ gs[Len(gs)].base = fs[n - 1].base
<1>1. /\ n \in Nat /\ n > 0 /\ n - 1 \in Nat /\ Len(gs) = n - 1 /\ n - 1 <= n - 1 /\ ~(n - 1 >= n)
      /\ Len(cxs) \in Nat /\ n - 1 < n
  BY JumpFacts
<1>2. rs.loop = 0
  BY <1>1 DEF JumpedTo
<1>3. /\ fs[n].fn = "call_sv_eval" /\ fs[n].base = Len(cxs) /\ fs[n].base > 0
      /\ cxs[fs[n].base].onleave = "" /\ Guards(fs, cxs, n - 1) /\ Dies(fs, cxs, n - 1)
  BY <1>2 DEF JumpedTo, JumpsTo
<1>4. Len(cxs) - 1 \in Nat /\ Len(cxs) - 1 < Len(cxs) /\ Len(cxs) - 1 <= Len(cxs)
  <2>1. Len(cxs) > 0
    BY <1>3
  <2> QED BY <1>1, <2>1
<1>5. Core(gs, cxs, Len(cxs) - 1)
  BY <1>4, JumpedCore
<1>6. Held(gs, cxs)
  <2>1. Spares(fs, cxs, n - 1, Len(cxs))
    <3>1. n - 1 \in Nat /\ n - 1 <= n - 1
      BY <1>1
    <3> QED BY <1>3, <3>1, JumpedSpares
  <2>2. /\ Guards(fs, cxs, Len(gs)) /\ Dies(fs, cxs, Len(gs)) /\ Spares(fs, cxs, Len(gs), Len(cxs))
        /\ CutOf(fs, gs, cxs, cxs) /\ Static(fs)
    BY <1>1, <1>3, <2>1, JumpFacts
  <2> QED BY <2>2, CutHeld
<1>7. gs[Len(gs)].fn = fs[n - 1].fn /\ gs[Len(gs)].base = fs[n - 1].base
  BY <1>1, JumpFacts, CutFacts
<1> QED
  BY <1>3, <1>5, <1>6, <1>7

-----------------------------------------------------------------------------
(* What a step does to the stacks.                                         *)

\* One more, one less, the first n, and another one at n.
LEMMA Added ==
  ASSUME NEW S, NEW s \in Seq(S), NEW x \in S
  PROVE  /\ Append(s, x) \in Seq(S) /\ Len(Append(s, x)) = Len(s) + 1
         /\ Append(s, x)[Len(s) + 1] = x /\ \A i \in 1 .. Len(s) : Append(s, x)[i] = s[i]
BY AppendProperties

LEMMA Taken ==
  ASSUME NEW S, NEW s \in Seq(S), NEW n \in 0 .. Len(s)
  PROVE  /\ SubSeq(s, 1, n) \in Seq(S) /\ Len(SubSeq(s, 1, n)) = n
         /\ \A i \in 1 .. n : SubSeq(s, 1, n)[i] = s[i]
<1>1. Len(s) \in Nat
  BY LenProperties
<1>2. n \in Nat /\ n \in Int /\ 1 \in Int /\ \A i \in 1 .. n : i \in 1 .. Len(s)
  BY <1>1
<1>3. \A i \in 1 .. n : s[i] \in S
  BY <1>2, ElementOfSeq
<1>4. /\ SubSeq(s, 1, n) \in Seq(S) /\ Len(SubSeq(s, 1, n)) = IF 1 <= n THEN n - 1 + 1 ELSE 0
      /\ \A i \in 1 .. n - 1 + 1 : SubSeq(s, 1, n)[i] = s[1 + i - 1]
  BY <1>2, <1>3, SubSeqProperties
<1>5. Len(SubSeq(s, 1, n)) = n /\ n - 1 + 1 = n /\ \A i \in 1 .. n : 1 + i - 1 = i
  BY <1>2, <1>4
<1> QED BY <1>4, <1>5

LEMMA FrontIs ==
  ASSUME NEW S, NEW s \in Seq(S), Len(s) > 0
  PROVE  /\ Front(s) \in Seq(S) /\ Len(Front(s)) = Len(s) - 1 /\ Len(s) = Len(Front(s)) + 1
         /\ \A i \in 1 .. Len(s) - 1 : Front(s)[i] = s[i]
<1>1. Len(s) \in Nat
  BY LenProperties
<1>2. Len(s) - 1 \in 0 .. Len(s) /\ Len(s) - 1 + 1 = Len(s)
  BY <1>1
<1> QED BY <1>2, Taken DEF Front

LEMMA NotEmpty ==
  ASSUME NEW S, NEW s \in Seq(S)
  PROVE  (s # <<>>) <=> Len(s) > 0
<1>1. Len(s) \in Nat /\ Len(<<>>) = 0
  BY LenProperties, EmptySeq
<1>2. s # <<>> => Len(s) \in Nat \ {0}
  BY EmptySeq
<1> QED BY <1>1, <1>2

LEMMA TwoAdded ==
  ASSUME NEW S, NEW s \in Seq(S), NEW a \in S, NEW b \in S
  PROVE  /\ s \o <<a, b>> \in Seq(S) /\ Len(s \o <<a, b>>) = Len(s) + 2
         /\ \A i \in 1 .. Len(s) : (s \o <<a, b>>)[i] = s[i]
         /\ (s \o <<a, b>>)[Len(s) + 1] = a /\ (s \o <<a, b>>)[Len(s) + 2] = b
<1>1. <<a, b>> \in Seq(S) /\ Len(<<a, b>>) = 2 /\ <<a, b>>[1] = a /\ <<a, b>>[2] = b
  OBVIOUS
<1>2. Len(s) \in Nat
  BY LenProperties
<1>3. /\ s \o <<a, b>> \in Seq(S) /\ Len(s \o <<a, b>>) = Len(s) + Len(<<a, b>>)
      /\ \A i \in 1 .. Len(s) + Len(<<a, b>>) : (s \o <<a, b>>)[i] =
            IF i <= Len(s) THEN s[i] ELSE <<a, b>>[i - Len(s)]
  BY <1>1, ConcatProperties
<1>4. Len(s) + Len(<<a, b>>) = Len(s) + 2
  BY <1>1
<1>5. /\ Len(s) + 1 \in 1 .. Len(s) + Len(<<a, b>>) /\ ~(Len(s) + 1 <= Len(s)) /\ Len(s) + 1 - Len(s) = 1
      /\ Len(s) + 2 \in 1 .. Len(s) + Len(<<a, b>>) /\ ~(Len(s) + 2 <= Len(s)) /\ Len(s) + 2 - Len(s) = 2
  BY <1>2, <1>4
<1>6. \A i \in 1 .. Len(s) : i \in 1 .. Len(s) + Len(<<a, b>>) /\ i <= Len(s)
  BY <1>2, <1>4
<1>7. (s \o <<a, b>>)[Len(s) + 1] = <<a, b>>[1] /\ (s \o <<a, b>>)[Len(s) + 2] = <<a, b>>[2]
  BY <1>3, <1>5
<1>8. \A i \in 1 .. Len(s) : (s \o <<a, b>>)[i] = s[i]
  BY <1>3, <1>6
<1> QED BY <1>1, <1>3, <1>4, <1>7, <1>8

\* gs is fs and f; gs is fs without its last; gs is the first n of fs.
Plus(fs, f, gs) ==
  /\ CStack(fs) /\ CStack(gs) /\ gs \in Seq(CFrames) /\ Len(gs) = Len(fs) + 1 /\ Len(fs) = Len(gs) - 1
  /\ gs[Len(gs)] = f /\ gs[Len(fs) + 1] = f /\ \A i \in 1 .. Len(fs) : gs[i] = fs[i]
  /\ SameUpTo(fs, gs, Len(fs)) /\ FlagsUpTo(fs, gs, Len(fs))
LEMMA FramePlus ==
  ASSUME NEW fs \in Seq(CFrames), NEW f \in CFrames
  PROVE  Plus(fs, f, Append(fs, f))
<1>1. Len(fs) \in Nat
  BY LenProperties
<1>2. /\ Append(fs, f) \in Seq(CFrames) /\ Len(Append(fs, f)) = Len(fs) + 1
      /\ Append(fs, f)[Len(fs) + 1] = f /\ \A i \in 1 .. Len(fs) : Append(fs, f)[i] = fs[i]
  BY Added
<1>3. CStack(fs) /\ CStack(Append(fs, f))
  BY <1>2, StacksOfFrames
<1>4. Len(fs) = Len(Append(fs, f)) - 1
  BY <1>1, <1>2
<1> QED BY <1>2, <1>3, <1>4 DEF Plus, SameUpTo, FlagsUpTo

Minus(fs, gs) ==
  /\ CStack(fs) /\ CStack(gs) /\ gs \in Seq(CFrames) /\ Len(fs) = Len(gs) + 1 /\ Len(gs) = Len(fs) - 1
  /\ \A i \in 1 .. Len(gs) : gs[i] = fs[i]
  /\ SameUpTo(fs, gs, Len(gs)) /\ FlagsUpTo(fs, gs, Len(gs))
LEMMA FrameMinus ==
  ASSUME NEW fs \in Seq(CFrames), Len(fs) > 0
  PROVE  Minus(fs, Front(fs))
<1>1. /\ Front(fs) \in Seq(CFrames) /\ Len(Front(fs)) = Len(fs) - 1 /\ Len(fs) = Len(Front(fs)) + 1
      /\ \A i \in 1 .. Len(fs) - 1 : Front(fs)[i] = fs[i]
  BY FrontIs
<1>2. CStack(fs) /\ CStack(Front(fs))
  BY <1>1, StacksOfFrames
<1> QED BY <1>1, <1>2 DEF Minus, SameUpTo, FlagsUpTo

Flagged(fs, e, c) == [fs EXCEPT ![e].catch = c]
LEMMA FrameFlagged ==
  ASSUME NEW fs \in Seq(CFrames), NEW e \in 1 .. Len(fs), NEW c \in BOOLEAN
  PROVE  /\ Flagged(fs, e, c) \in Seq(CFrames) /\ CStack(Flagged(fs, e, c))
         /\ Len(Flagged(fs, e, c)) = Len(fs) /\ SameUpTo(fs, Flagged(fs, e, c), Len(fs))
         /\ Flagged(fs, e, c)[e].catch = c
         /\ \A i \in 1 .. Len(fs) : i # e => Flagged(fs, e, c)[i] = fs[i]
<1> DEFINE f == [fs[e] EXCEPT !.catch = c]
<1>1. fs[e] \in CFrames
  BY ElementOfSeq
<1>2. f \in CFrames /\ f.catch = c /\ f.fn = fs[e].fn /\ f.base = fs[e].base
  BY <1>1 DEF CFrames
<1>3. Flagged(fs, e, c) = [fs EXCEPT ![e] = f]
  BY DEF Flagged
<1> HIDE DEF f
<1>4. /\ [fs EXCEPT ![e] = f] \in Seq(CFrames) /\ Len([fs EXCEPT ![e] = f]) = Len(fs)
      /\ \A j \in 1 .. Len(fs) : [fs EXCEPT ![e] = f][j] = IF j = e THEN f ELSE fs[j]
  BY <1>2, ExceptSeq
<1>5. /\ Flagged(fs, e, c) \in Seq(CFrames) /\ Len(Flagged(fs, e, c)) = Len(fs)
      /\ Flagged(fs, e, c)[e] = f
      /\ \A j \in 1 .. Len(fs) : j # e => Flagged(fs, e, c)[j] = fs[j]
  BY <1>3, <1>4
<1>6. CStack(Flagged(fs, e, c))
  BY <1>5, StacksOfFrames
<1>7. SameUpTo(fs, Flagged(fs, e, c), Len(fs))
  BY <1>2, <1>5 DEF SameUpTo
<1> QED BY <1>2, <1>5, <1>6, <1>7

LEMMA Counts ==
  ASSUME NEW n \in Nat
  PROVE  /\ \A k \in 1 .. n : /\ k \in Nat /\ k > 0 /\ k <= n /\ (k = n \/ k < n)
                            /\ (k < n => k # n) /\ (k # n => k \in 1 .. n - 1)
         /\ \A k \in 1 .. n - 1 : k \in 1 .. n /\ k < n
         /\ n > 0 => /\ n - 1 \in Nat /\ n - 1 <= n /\ n - 1 < n /\ n - 1 + 1 = n /\ n \in 1 .. n
                     /\ n - 1 \in 0 .. n
OBVIOUS

LEMMA EntryFacts ==
  ASSUME NEW cxs \in Seq(Entries), NEW ds \in Seq(Entries)
  PROVE  /\ PStack(cxs) /\ PStack(ds) /\ Len(cxs) \in Nat /\ Len(ds) \in Nat
         /\ (\A k \in 1 .. Len(ds) : ds[k] = cxs[k]) => Prefix(cxs, ds, Len(ds))
         /\ \A k \in 1 .. Len(cxs) : cxs[k] \in Entries
BY StacksOfEntries, LenProperties DEF Prefix

LEMMA EntryPlus ==
  ASSUME NEW cxs \in Seq(Entries), NEW x \in Entries
  PROVE  /\ Append(cxs, x) \in Seq(Entries) /\ PStack(cxs) /\ PStack(Append(cxs, x))
         /\ Len(cxs) \in Nat /\ Len(Append(cxs, x)) = Len(cxs) + 1
         /\ Append(cxs, x)[Len(cxs) + 1] = x /\ \A k \in 1 .. Len(cxs) : Append(cxs, x)[k] = cxs[k]
<1>1. /\ Append(cxs, x) \in Seq(Entries) /\ Len(Append(cxs, x)) = Len(cxs) + 1
      /\ Append(cxs, x)[Len(cxs) + 1] = x /\ \A k \in 1 .. Len(cxs) : Append(cxs, x)[k] = cxs[k]
  BY Added
<1>2. PStack(cxs) /\ PStack(Append(cxs, x)) /\ Len(cxs) \in Nat
  BY <1>1, EntryFacts
<1> QED BY <1>1, <1>2

LEMMA EntryMinus ==
  ASSUME NEW cxs \in Seq(Entries), Len(cxs) > 0
  PROVE  /\ Front(cxs) \in Seq(Entries) /\ PStack(cxs) /\ PStack(Front(cxs))
         /\ Len(cxs) \in Nat /\ Len(cxs) > 0 /\ Len(Front(cxs)) = Len(cxs) - 1
         /\ Len(cxs) = Len(Front(cxs)) + 1 /\ Len(Front(cxs)) \in Nat
         /\ Prefix(cxs, Front(cxs), Len(cxs) - 1) /\ Prefix(cxs, Front(cxs), Len(Front(cxs)))
<1>1. Len(cxs) \in Nat /\ Len(cxs) > 0
  BY NotEmpty, LenProperties
<1>2. /\ Front(cxs) \in Seq(Entries) /\ Len(Front(cxs)) = Len(cxs) - 1 /\ Len(cxs) = Len(Front(cxs)) + 1
      /\ \A i \in 1 .. Len(cxs) - 1 : Front(cxs)[i] = cxs[i]
  BY <1>1, FrontIs
<1>3. PStack(cxs) /\ PStack(Front(cxs)) /\ Len(Front(cxs)) \in Nat
  BY <1>2, EntryFacts
<1> QED BY <1>1, <1>2, <1>3 DEF Prefix

LEMMA EntriesTaken ==
  ASSUME NEW cxs \in Seq(Entries), NEW n \in 0 .. Len(cxs)
  PROVE  /\ SubSeq(cxs, 1, n) \in Seq(Entries) /\ PStack(cxs) /\ PStack(SubSeq(cxs, 1, n))
         /\ Len(SubSeq(cxs, 1, n)) = n /\ Prefix(cxs, SubSeq(cxs, 1, n), n)
BY Taken, EntryFacts, ZenonT(30) DEF Prefix

LEMMA LastPut ==
  ASSUME NEW cxs \in Seq(Entries), NEW x \in Entries, Len(cxs) \in 1 .. Len(cxs)
  PROVE  /\ [cxs EXCEPT ![Len(cxs)] = x] \in Seq(Entries)
         /\ Len([cxs EXCEPT ![Len(cxs)] = x]) = Len(cxs)
         /\ [cxs EXCEPT ![Len(cxs)] = x][Len(cxs)] = x
         /\ \A j \in 1 .. Len(cxs) : j # Len(cxs) => [cxs EXCEPT ![Len(cxs)] = x][j] = cxs[j]
<1>1. [cxs EXCEPT ![Len(cxs)] = x] \in Seq(Entries)
  BY ExceptSeq
<1>2. Len([cxs EXCEPT ![Len(cxs)] = x]) = Len(cxs)
  BY ExceptSeq
<1>3. \A j \in 1 .. Len(cxs) : [cxs EXCEPT ![Len(cxs)] = x][j] = IF j = Len(cxs) THEN x ELSE cxs[j]
  BY ExceptSeq
<1> QED BY <1>1, <1>2, <1>3, ZenonT(30)

Labelled(cxs, w) == [cxs EXCEPT ![Len(cxs)].onleave = w]
LEMMA EntryLabelled ==
  ASSUME NEW cxs \in Seq(Entries), Len(cxs) > 0, NEW w \in {"", "DESTROY", "STORE"}
  PROVE  /\ Labelled(cxs, w) \in Seq(Entries) /\ PStack(cxs) /\ PStack(Labelled(cxs, w))
         /\ Len(cxs) \in Nat /\ Len(cxs) > 0 /\ Len(Labelled(cxs, w)) = Len(cxs)
         /\ Labelled(cxs, w)[Len(cxs)].onleave = w
         /\ \A k \in 1 .. Len(cxs) : /\ SameEntry(cxs[k], Labelled(cxs, w)[k])
                                     /\ k < Len(cxs) => Labelled(cxs, w)[k] = cxs[k]
<1>1. Len(cxs) \in Nat /\ Len(cxs) > 0
  BY NotEmpty, LenProperties
<1>2. Len(cxs) \in 1 .. Len(cxs) /\ \A k \in 1 .. Len(cxs) : k = Len(cxs) \/ k < Len(cxs)
  BY <1>1, Counts
<1>3. cxs[Len(cxs)] \in Entries
  BY <1>2, ElementOfSeq
<1>4. PICK x : x = [cxs[Len(cxs)] EXCEPT !.onleave = w]
  OBVIOUS
<1>5. x \in Entries /\ x.onleave = w /\ SameEntry(cxs[Len(cxs)], x)
  BY <1>3, <1>4 DEF Entries, SameEntry
<1>6. /\ Labelled(cxs, w) \in Seq(Entries) /\ Len(Labelled(cxs, w)) = Len(cxs)
      /\ Labelled(cxs, w)[Len(cxs)] = x
      /\ \A k \in 1 .. Len(cxs) : k # Len(cxs) => Labelled(cxs, w)[k] = cxs[k]
  <2>1. Labelled(cxs, w) = [cxs EXCEPT ![Len(cxs)] = x]
    BY <1>4 DEF Labelled
  <2>2. x \in Entries /\ Len(cxs) \in 1 .. Len(cxs)
    BY <1>2, <1>5
  <2>3. [cxs EXCEPT ![Len(cxs)] = x] \in Seq(Entries) /\ Len([cxs EXCEPT ![Len(cxs)] = x]) = Len(cxs)
    BY <2>2, LastPut
  <2>4. [cxs EXCEPT ![Len(cxs)] = x][Len(cxs)] = x
    BY <2>2, LastPut
  <2>5. \A j \in 1 .. Len(cxs) : j # Len(cxs) => [cxs EXCEPT ![Len(cxs)] = x][j] = cxs[j]
    BY <2>2, LastPut
  <2> QED BY <2>1, <2>3, <2>4, <2>5
<1>8. \A k \in 1 .. Len(cxs) : k < Len(cxs) => k # Len(cxs)
  BY <1>1, Counts
<1>9. \A k \in 1 .. Len(cxs) : SameEntry(cxs[k], Labelled(cxs, w)[k])
  <2>1. \A k \in 1 .. Len(cxs) : SameEntry(cxs[k], cxs[k])
    BY DEF SameEntry
  <2> QED BY <1>5, <1>6, <2>1
<1>10. PStack(cxs) /\ PStack(Labelled(cxs, w))
  BY <1>6, EntryFacts
<1> QED BY <1>1, <1>5, <1>6, <1>8, <1>9, <1>10

-----------------------------------------------------------------------------
(* What the invariant says at each point.                                  *)

\* What is always so.
Always(fs, cxs) ==
  /\ fs \in Seq(CFrames) /\ cxs \in Seq(Entries)
  /\ CStack(fs) /\ PStack(cxs) /\ DOMAIN fs = 1 .. Len(fs) /\ DOMAIN cxs = 1 .. Len(cxs)
  /\ Len(fs) \in Nat /\ Len(fs) > 0 /\ Len(fs) \in 1 .. Len(fs) /\ Len(cxs) \in Nat
  /\ Len(fs) <= MaxDepth_c + 1 /\ Len(cxs) <= MaxDepth_cx
  /\ Bottom(fs) /\ CatchFlags(fs) /\ OldFlags(fs)
  /\ fs[Len(fs)] \in CFrames /\ fs[Len(fs)].fn \in Fns /\ fs[Len(fs)].base \in Nat
  /\ TopEnv(fs) \in 1 .. Len(fs) /\ fs[TopEnv(fs)].fn \in Envs
  /\ \A i \in TopEnv(fs) + 1 .. Len(fs) : fs[i].fn \notin Envs

LEMMA Bounds ==
  MaxDepth_c \in Nat /\ MaxDepth_c > 0 /\ MaxDepth_cx \in Nat /\ 0 \notin Errors /\ Errors \subseteq Int
BY ExceptionsAssumption

LEMMA AlwaysIs ==
  ASSUME NEW fs \in Seq(CFrames), NEW cxs \in Seq(Entries), FlagInv(fs),
         Len(fs) <= MaxDepth_c + 1, Len(cxs) <= MaxDepth_cx
  PROVE  Always(fs, cxs)
<1>1. Bottom(fs) /\ CatchFlags(fs) /\ OldFlags(fs)
  BY DEF FlagInv
<1>2. /\ CStack(fs) /\ DOMAIN fs = 1 .. Len(fs) /\ PStack(cxs) /\ DOMAIN cxs = 1 .. Len(cxs)
      /\ Len(fs) \in Nat /\ Len(cxs) \in Nat
  BY StacksOfFrames, StacksOfEntries, LenProperties
<1>3. Len(fs) > 0
  BY <1>1 DEF Bottom
<1>4. Len(fs) \in 1 .. Len(fs)
  BY <1>2, <1>3
<1>5. /\ TopEnv(fs) \in 1 .. Len(fs) /\ fs[TopEnv(fs)].fn \in Envs
      /\ \A i \in TopEnv(fs) + 1 .. Len(fs) : fs[i].fn \notin Envs
  BY <1>1, <1>2, TopEnvIs
<1>6. fs[Len(fs)] \in CFrames /\ fs[Len(fs)].fn \in Fns /\ fs[Len(fs)].base \in Nat
  BY <1>2, <1>4, ElementOfSeq DEF CStack
<1> QED BY <1>1, <1>2, <1>3, <1>4, <1>5, <1>6 DEF Always

LEMMA InvAlways ==
  ASSUME ExceptionInv
  PROVE  /\ Always(cstack, cxstack) /\ errsv \in {0} \cup Errors
         /\ ctl \in [at : {"run", "work", "null", "jump2", "jump3", "exited"}, loop : 0 .. MaxDepth_c]
         /\ restart \in [env : 0 .. MaxDepth_c, loop : 0 .. MaxDepth_c]
BY AlwaysIs DEF ExceptionInv, Typed

LEMMA InvRun ==
  ASSUME ExceptionInv, ctl.at = "run"
  PROVE  /\ Core(cstack, cxstack, Len(cxstack)) /\ Held(cstack, cxstack)
         /\ Static(cstack) /\ Zones(cstack, cxstack, Len(cxstack))
         /\ cstack[Len(cstack)].fn \in Loops /\ ctl.loop = Len(cstack)
         /\ MayRun(cstack, Len(cstack), Len(cxstack))
<1>1. Whole(cstack, cxstack, ctl, restart)
  BY DEF ExceptionInv, Exiting
<1> QED BY <1>1 DEF Whole, Control, AtRun, Settled, Core

LEMMA InvNull ==
  ASSUME ExceptionInv, ctl.at = "null"
  PROVE  /\ Core(cstack, cxstack, Len(cxstack)) /\ Held(cstack, cxstack)
         /\ Static(cstack) /\ Zones(cstack, cxstack, Len(cxstack))
         /\ cstack[Len(cstack)].fn \in Loops
         /\ HasEnded(cstack, Len(cstack), Len(cxstack))
<1>1. Whole(cstack, cxstack, ctl, restart)
  BY DEF ExceptionInv, Exiting
<1> QED BY <1>1 DEF Whole, Control, AtNull, Settled, Core

LEMMA InvWork ==
  ASSUME ExceptionInv, ctl.at = "work", cxstack # <<>> \/ cstack[Len(cstack)].fn # "my_exit"
  PROVE  /\ Core(cstack, cxstack, Settled(cstack, cxstack, ctl)) /\ Held(cstack, cxstack)
         /\ Static(cstack) /\ AtWork(cstack, cxstack)
<1>1. Whole(cstack, cxstack, ctl, restart)
  BY DEF ExceptionInv, Exiting
<1> QED BY <1>1 DEF Whole, Control, AtWork, Core

LEMMA InvJump ==
  ASSUME ExceptionInv, ctl.at = "jump3"
  PROVE  /\ Core(cstack, cxstack, Len(cxstack)) /\ Static(cstack)
         /\ AtJump(cstack, cxstack, restart)
<1>1. Whole(cstack, cxstack, ctl, restart)
  BY DEF ExceptionInv, Exiting
<1> QED BY <1>1 DEF Whole, Control, Settled, Core

LEMMA InvExit ==
  ASSUME ExceptionInv, ctl.at = "jump2"
  PROVE  cxstack = <<>>
<1>1. ~Whole(cstack, cxstack, ctl, restart)
  BY DEF Whole, Control
<1> QED BY <1>1 DEF ExceptionInv, Exiting

\* Fewer entries are looked at.
LEMMA CoreDown ==
  ASSUME NEW fs, NEW cxs, NEW n \in Nat, NEW m \in Nat, m <= n, Core(fs, cxs, n)
  PROVE  Core(fs, cxs, m)
<1>1. \A p \in 1 .. m : p \in 1 .. n
  OBVIOUS
<1>2. Zones(fs, cxs, n) => Zones(fs, cxs, m)
  BY <1>1 DEF Zones
<1> QED BY <1>2 DEF Core

\* The whole invariant at each point.
LEMMA WholeRun ==
  ASSUME NEW fs, NEW cxs, NEW rs, Core(fs, cxs, Len(cxs)), Held(fs, cxs), fs[Len(fs)].fn \in Loops,
         MayRun(fs, Len(fs), Len(cxs))
  PROVE  Whole(fs, cxs, [at |-> "run", loop |-> Len(fs)], rs)
BY DEF Whole, Control, AtRun, Settled

LEMMA WholeNull ==
  ASSUME NEW fs, NEW cxs, NEW rs, Core(fs, cxs, Len(cxs)), Held(fs, cxs), fs[Len(fs)].fn \in Loops,
         HasEnded(fs, Len(fs), Len(cxs))
  PROVE  Whole(fs, cxs, [at |-> "null", loop |-> 0], rs)
BY DEF Whole, Control, AtNull, Settled

LEMMA WholeWork ==
  ASSUME NEW fs, NEW cxs, NEW rs, NEW c, c.at = "work", Len(cxs) \in Nat,
         \/ Core(fs, cxs, Len(cxs))
         \/ /\ fs[Len(fs)].fn \in Unwinders /\ Len(cxs) > 0 /\ cxs[Len(cxs)].onleave = ""
            /\ ~(fs[Len(fs)].fn = "leave" /\ Len(cxs) = fs[Len(fs)].base + 1)
            /\ Core(fs, cxs, Len(cxs) - 1),
         AtWork(fs, cxs)
  PROVE  Whole(fs, cxs, c, rs)
<1>1. CASE /\ fs[Len(fs)].fn \in Unwinders /\ Len(cxs) > 0 /\ cxs[Len(cxs)].onleave = ""
           /\ ~(fs[Len(fs)].fn = "leave" /\ Len(cxs) = fs[Len(fs)].base + 1)
  <2>a. Len(cxs) > 0
    BY <1>1
  <2>1. Len(cxs) - 1 \in Nat /\ Len(cxs) - 1 <= Len(cxs)
    BY <2>a, Counts
  <2>2. Core(fs, cxs, Len(cxs) - 1)
    BY <2>1, CoreDown
  <2>3. Settled(fs, cxs, c) = Len(cxs) - 1
    BY <1>1 DEF Settled
  <2> QED BY <2>2, <2>3 DEF Whole, Control
<1>2. CASE ~(/\ fs[Len(fs)].fn \in Unwinders /\ Len(cxs) > 0 /\ cxs[Len(cxs)].onleave = ""
             /\ ~(fs[Len(fs)].fn = "leave" /\ Len(cxs) = fs[Len(fs)].base + 1))
  <2>1. Settled(fs, cxs, c) = Len(cxs)
    BY <1>2 DEF Settled
  <2>2. Core(fs, cxs, Len(cxs))
    BY <1>2
  <2> QED BY <2>1, <2>2 DEF Whole, Control
<1> QED BY <1>1, <1>2

LEMMA WholeJump ==
  ASSUME NEW fs, NEW cxs, NEW rs, NEW c, c.at = "jump3", Core(fs, cxs, Len(cxs)),
         AtJump(fs, cxs, rs)
  PROVE  Whole(fs, cxs, c, rs)
BY DEF Whole, Control, Settled

-----------------------------------------------------------------------------
(* From one state to the next.                                             *)

\* What every state must have, for a next state with these stacks.
Fits(gs, ds, c, rs, e) ==
  /\ gs \in Seq(CFrames) /\ ds \in Seq(Entries)
  /\ Len(gs) <= MaxDepth_c + 1 /\ Len(ds) <= MaxDepth_cx
  /\ c \in [at : {"run", "work", "null", "jump2", "jump3", "exited"}, loop : 0 .. MaxDepth_c]
  /\ rs \in [env : 0 .. MaxDepth_c, loop : 0 .. MaxDepth_c]
  /\ e \in {0} \cup Errors /\ FlagInv(gs)

LEMMA StepTo ==
  ASSUME Fits(cstack', cxstack', ctl', restart', errsv'),
         \/ Whole(cstack', cxstack', ctl', restart') /\ ctl'.at # "jump3"
         \/ Exiting(cstack', cxstack', ctl')
         \/ ctl'.at = "exited"
  PROVE  ExceptionInv'
<1>1. Typed(cstack', cxstack', ctl', restart') /\ errsv' \in {0} \cup Errors /\ FlagInv(cstack')
  BY DEF Fits, Typed
<1>2. ctl'.at # "jump3" => ErrorArrives'
  BY DEF ErrorArrives, Jumps
<1> QED BY <1>1, <1>2 DEF ExceptionInv

LEMMA AtRunTyped ==
  ASSUME NEW n \in 0 .. MaxDepth_c
  PROVE  [at |-> "run", loop |-> n] \in
           [at : {"run", "work", "null", "jump2", "jump3", "exited"}, loop : 0 .. MaxDepth_c]
OBVIOUS

LEMMA AtTyped ==
  ASSUME NEW at \in {"run", "work", "null", "jump2", "jump3", "exited"}
  PROVE  [at |-> at, loop |-> 0] \in
           [at : {"run", "work", "null", "jump2", "jump3", "exited"}, loop : 0 .. MaxDepth_c]
BY Bounds

\* A frame, and the ones that the program makes.
CFrame(fn, c, b, e) == [fn |-> fn, catch |-> c, base |-> b, err |-> e]

LEMMA FrameIs ==
  ASSUME NEW fn \in Fns, NEW c \in BOOLEAN, NEW b \in 0 .. MaxDepth_cx, NEW e \in {0} \cup Errors
  PROVE  /\ CFrame(fn, c, b, e) \in CFrames /\ CFrame(fn, c, b, e).fn = fn
         /\ CFrame(fn, c, b, e).catch = c /\ CFrame(fn, c, b, e).base = b
BY DEF CFrame, CFrames

LEMMA PlainFrameIs ==
  ASSUME NEW fn \in Fns, NEW b \in 0 .. MaxDepth_cx, NEW e \in {0} \cup Errors
  PROVE  /\ CFrame(fn, FALSE, b, e) \in CFrames /\ CFrame(fn, FALSE, b, e).fn = fn
         /\ CFrame(fn, FALSE, b, e).base = b
<1>1. PICK no \in BOOLEAN : no = FALSE
  OBVIOUS
<1>2. /\ CFrame(fn, no, b, e) \in CFrames /\ CFrame(fn, no, b, e).fn = fn
      /\ CFrame(fn, no, b, e).catch = no /\ CFrame(fn, no, b, e).base = b
  BY FrameIs
<1> QED BY <1>1, <1>2

LEMMA FlagDown ==
  ASSUME NEW fn, NEW b, NEW e
  PROVE  CFrame(fn, FALSE, b, e).catch = FALSE
BY DEF CFrame

LEMMA FrameWith ==
  ASSUME NEW fn, NEW c, NEW b, NEW e, NEW x
  PROVE  /\ [CFrame(fn, c, b, e) EXCEPT !.catch = x] = CFrame(fn, x, b, e)
         /\ [CFrame(fn, c, b, e) EXCEPT !.base = x] = CFrame(fn, c, x, e)
         /\ [CFrame(fn, c, b, e) EXCEPT !.err = x] = CFrame(fn, c, b, x)
BY DEF CFrame

LEMMA EnteredIs ==
  ASSUME NEW fn
  PROVE  /\ Entered(fn) = CFrame(fn, FALSE, Len(cxstack), 0)
         /\ \A c : [Entered(fn) EXCEPT !.catch = c] = CFrame(fn, c, Len(cxstack), 0)
         /\ \A b : [Entered(fn) EXCEPT !.base = b] = CFrame(fn, FALSE, b, 0)
         /\ \A e : [Entered(fn) EXCEPT !.err = e] = CFrame(fn, FALSE, Len(cxstack), e)
<1>1. Entered(fn) = CFrame(fn, FALSE, Len(cxstack), 0)
  BY DEF Entered, CFrame
<1>2. PICK no : no = FALSE
  OBVIOUS
<1>3. Entered(fn) = CFrame(fn, no, Len(cxstack), 0)
  BY <1>1, <1>2
<1>4. ASSUME NEW x
      PROVE  /\ [Entered(fn) EXCEPT !.catch = x] = CFrame(fn, x, Len(cxstack), 0)
             /\ [Entered(fn) EXCEPT !.base = x] = CFrame(fn, no, x, 0)
             /\ [Entered(fn) EXCEPT !.err = x] = CFrame(fn, no, Len(cxstack), x)
  BY <1>3, FrameWith
<1> QED BY <1>1, <1>2, <1>4

LEMMA CxIs ==
  ASSUME NEW type \in {"sub", "eval", "stackinfo"}, NEW retop \in BOOLEAN
  PROVE  /\ Cx(type, retop) \in Entries /\ Cx(type, retop).type = type
         /\ Cx(type, retop).retop = retop /\ Cx(type, retop).onleave = ""
         /\ \A k \in BOOLEAN, n \in 0 .. MaxDepth_c :
              LET x == [Cx(type, retop) EXCEPT !.keeperr = k, !.env = n]
              IN  x \in Entries /\ x.type = type /\ x.loop = 0 /\ x.env = n
         /\ \A m, n \in 0 .. MaxDepth_c :
              LET x == [Cx(type, retop) EXCEPT !.env = m, !.loop = n]
              IN  x \in Entries /\ x.type = type /\ x.env = m /\ x.loop = n /\ ~x.keeperr
                  /\ x.retop = retop
<1>1. 0 \in 0 .. MaxDepth_c
  BY Bounds
<1> QED BY <1>1, ZenonT(60) DEF Cx, Entries

LEMMA FlagsPlus ==
  ASSUME NEW fs, NEW f, NEW gs, Plus(fs, f, gs), FlagInv(fs), f.fn \notin {"call_sv", "perl_run"},
         f.catch = FALSE
  PROVE  FlagInv(gs)
<1>1. /\ CStack(fs) /\ CStack(gs) /\ Len(gs) = Len(fs) + 1 /\ FlagsUpTo(fs, gs, Len(fs))
      /\ gs[Len(gs)] = f /\ Bottom(fs) /\ CatchFlags(fs) /\ OldFlags(fs)
      /\ \A i \in 1 .. Len(fs) : gs[i] = fs[i]
  BY DEF Plus, FlagInv
<1>2. CatchFlags(gs) /\ OldFlags(gs)
  BY <1>1, FlagPush
<1>3. Len(fs) \in Nat /\ Len(gs) \in Nat
  BY <1>1 DEF CStack
<1>4. Len(gs) > 0 /\ \A i \in 1 .. Len(gs) : (i \in 1 .. Len(fs) /\ i <= Len(fs)) \/ (i = Len(gs) /\ i > Len(fs))
  BY <1>1, <1>3
<1>5. \A i \in 1 .. Len(gs) : \/ i <= Len(fs) /\ gs[i].fn = fs[i].fn /\ gs[i].base = fs[i].base
                              \/ i > Len(fs) /\ gs[i].fn # "perl_run"
  BY <1>1, <1>4
<1>6. Bottom(gs)
  BY <1>1, <1>3, <1>4, <1>5, BottomSame
<1> QED BY <1>2, <1>6 DEF FlagInv

LEMMA FlagsMinus ==
  ASSUME NEW fs, NEW gs, Minus(fs, gs), FlagInv(fs), Len(gs) > 0, fs[Len(fs)].fn # "call_sv"
  PROVE  FlagInv(gs)
<1>1. /\ CStack(fs) /\ CStack(gs) /\ Len(fs) = Len(gs) + 1 /\ FlagsUpTo(fs, gs, Len(gs))
      /\ Bottom(fs) /\ CatchFlags(fs) /\ OldFlags(fs)
      /\ \A i \in 1 .. Len(gs) : gs[i] = fs[i]
  BY DEF Minus, FlagInv
<1>2. CatchFlags(gs) /\ OldFlags(gs)
  BY <1>1, FlagPop
<1>3. Len(fs) \in Nat /\ Len(gs) \in Nat
  BY <1>1 DEF CStack
<1>4. \A i \in 1 .. Len(gs) : i <= Len(fs)
  BY <1>1, <1>3
<1>5. \A i \in 1 .. Len(gs) : \/ i <= Len(fs) /\ gs[i].fn = fs[i].fn /\ gs[i].base = fs[i].base
                              \/ i > Len(fs) /\ gs[i].fn # "perl_run"
  BY <1>1, <1>4
<1>6. Bottom(gs)
  BY <1>1, <1>3, <1>5, BottomSame
<1> QED BY <1>2, <1>6 DEF FlagInv

LEMMA PushesIs ==
  ASSUME NEW fs, NEW f, NEW gs, NEW cxs, NEW ds, Plus(fs, f, gs), PStack(cxs), PStack(ds),
         Len(cxs) <= Len(ds), \A k \in 1 .. Len(cxs) : ds[k] = cxs[k], Calls(fs, cxs, f, ds)
  PROVE  Pushes(fs, gs, cxs, ds)
BY DEF Plus, Pushes

\* A function has just been called, and runs a loop of its own.
LEMMA RunsItsOwn ==
  ASSUME NEW fs, NEW n, Len(fs) \in Nat, Len(fs) > 0, fs[Len(fs)].fn \in CallFns,
         n >= fs[Len(fs)].base + 2
  PROVE  MayRun(fs, Len(fs), n)
<1>1. \A r \in 1 .. Len(fs) : r = Len(fs) \/ Len(fs) \in r + 1 .. Len(fs)
  OBVIOUS
<1>2. fs[Len(fs)].fn # "docatch"
  BY DEF CallFns
<1> QED BY <1>1, <1>2 DEF MayRun, LoopFor

-----------------------------------------------------------------------------
(* die, exit and leaving.                                                  *)

LEMMA AlwaysHas ==
  ASSUME NEW fs, NEW cxs, Always(fs, cxs)
  PROVE  /\ fs \in Seq(CFrames) /\ cxs \in Seq(Entries) /\ CStack(fs) /\ PStack(cxs)
         /\ Len(fs) \in Nat /\ Len(fs) > 0 /\ Len(fs) \in 1 .. Len(fs) /\ Len(cxs) \in Nat
         /\ Len(fs) <= MaxDepth_c + 1 /\ Len(cxs) <= MaxDepth_cx /\ Len(cxs) \in 0 .. MaxDepth_cx
         /\ FlagInv(fs) /\ fs[Len(fs)].fn \in Fns /\ fs[Len(fs)].base \in Nat
<1>1. Len(cxs) \in Nat /\ Len(cxs) <= MaxDepth_cx /\ MaxDepth_cx \in Nat
  BY Bounds DEF Always
<1>2. Len(cxs) \in 0 .. MaxDepth_cx
  BY <1>1
<1> QED BY <1>2 DEF Always, FlagInv

\* A function that leaves Perl's stack alone at first.
LEMMA PushWork ==
  ASSUME NEW fs, NEW cxs, NEW f \in CFrames, Always(fs, cxs), Core(fs, cxs, Len(cxs)), Held(fs, cxs),
         f.fn \in {"die_unwind", "my_exit", "leave", "yyparse"}, f.catch = FALSE,
         Calls(fs, cxs, f, cxs), f.fn = "leave" => Len(cxs) >= f.base + 1
  PROVE  /\ Append(fs, f) \in Seq(CFrames) /\ Len(Append(fs, f)) = Len(fs) + 1
         /\ FlagInv(Append(fs, f))
         /\ \A rs : Whole(Append(fs, f), cxs, [at |-> "work", loop |-> 0], rs)
<1> DEFINE gs == Append(fs, f)
<1>1. /\ fs \in Seq(CFrames) /\ PStack(cxs) /\ Len(cxs) \in Nat /\ Len(cxs) <= Len(cxs)
      /\ FlagInv(fs)
  BY AlwaysHas
<1>2. Plus(fs, f, gs)
  BY <1>1, FramePlus
<1> HIDE DEF gs
<1>3. Pushes(fs, gs, cxs, cxs)
  BY <1>1, <1>2, PushesIs
<1>4. Core(gs, cxs, Len(cxs)) /\ Held(gs, cxs)
  BY <1>3, PushKeeps
<1>5. gs[Len(gs)] = f /\ gs \in Seq(CFrames) /\ Len(gs) = Len(fs) + 1
  BY <1>2 DEF Plus
<1>6. AtWork(gs, cxs)
  <2>1. f.fn = "yyparse" => Len(cxs) = f.base
    BY DEF Calls, Low
  <2>2. f.fn # "call_list" /\ f.fn \in Unwinders \cup {"yyparse", "call_list"}
    BY DEF Unwinders
  <2> QED BY <1>4, <1>5, <2>1, <2>2 DEF AtWork
<1>7. ASSUME NEW rs PROVE Whole(gs, cxs, [at |-> "work", loop |-> 0], rs)
  BY <1>1, <1>4, <1>6, WholeWork
<1>8. FlagInv(gs)
  BY <1>1, <1>2, FlagsPlus
<1> QED BY <1>5, <1>7, <1>8 DEF gs

LEMMA NoEvalIs ==
  ASSUME NEW cxs, DOMAIN cxs = 1 .. Len(cxs), Len(cxs) \in Nat
  PROVE  {k \in DOMAIN cxs : cxs[k].type = "eval"} = {} <=> NoEval(cxs, Len(cxs))
<1>1. \A k \in 1 .. Len(cxs) : k <= Len(cxs)
  OBVIOUS
<1> QED BY <1>1 DEF NoEval

\* die, in a loop or in C code.
LEMMA DieStep ==
  ASSUME NEW fs, NEW err \in Errors, Always(fs, cxstack), Core(fs, cxstack, Len(cxstack)),
         Held(fs, cxstack), Len(fs) <= MaxDepth_c, fs[Len(fs)].fn \in Loops \cup {"yyparse"},
         fs[Len(fs)].fn \in Loops => MayRun(fs, Len(fs), Len(cxstack)),
         errsv \in {0} \cup Errors, restart \in [env : 0 .. MaxDepth_c, loop : 0 .. MaxDepth_c],
         DieWith(fs, err)
  PROVE  ExceptionInv'
<1> DEFINE evals == {k \in DOMAIN cxstack : cxstack[k].type = "eval"}
           fn == IF evals = {} THEN "my_exit" ELSE "die_unwind"
           e == IF evals = {} THEN 0 ELSE err
           f == CFrame(fn, FALSE, Len(cxstack), e)
<1>1. /\ cstack' = Append(fs, [Entered(fn) EXCEPT !.err = e])
      /\ ctl' = [at |-> "work", loop |-> 0] /\ errsv' \in {err, errsv}
      /\ cxstack' = cxstack /\ restart' = restart
  BY DEF DieWith, Unwind, Goto
<1>2. cstack' = Append(fs, f)
  BY <1>1, EnteredIs
<1>3. fn \in {"die_unwind", "my_exit"} /\ fn \in Fns /\ e \in {0} \cup Errors
  BY DEF Fns, Unwinders
<1>4. /\ Len(cxstack) \in Nat /\ Len(fs) \in Nat /\ Len(cxstack) \in 0 .. MaxDepth_cx
      /\ Len(cxstack) <= MaxDepth_cx /\ cxstack \in Seq(Entries)
  BY AlwaysHas
<1>5. evals = {} <=> NoEval(cxstack, Len(cxstack))
  BY <1>4, NoEvalIs DEF Always
<1> HIDE DEF evals
<1>6. /\ fn = "die_unwind" => ~NoEval(cxstack, Len(cxstack))
      /\ fn = "my_exit" => NoEval(cxstack, Len(cxstack))
  BY <1>5
<1> HIDE DEF fn, e
<1>7. f \in CFrames /\ f.fn = fn /\ f.catch = FALSE /\ f.base = Len(cxstack)
  <2>1. f \in CFrames /\ f.fn = fn /\ f.base = Len(cxstack)
    <3>1. fn \in Fns /\ e \in {0} \cup Errors /\ Len(cxstack) \in 0 .. MaxDepth_cx
      BY <1>3, <1>4
    <3>2. \A b \in 0 .. MaxDepth_cx, x \in {0} \cup Errors :
             /\ CFrame(fn, FALSE, b, x) \in CFrames /\ CFrame(fn, FALSE, b, x).fn = fn
             /\ CFrame(fn, FALSE, b, x).base = b
      BY <3>1, PlainFrameIs
    <3> QED BY <3>1, <3>2
  <2>2. f.catch = FALSE
    BY FlagDown
  <2> QED BY <2>1, <2>2
<1> HIDE DEF f
<1>8. Calls(fs, cxstack, f, cxstack)
  <2>1. MayCall(fs, f)
    <3>1. f.fn \notin {"leave", "call_list", "yyparse", "call_sv_eval"} /\ Callers(f.fn) = Loops \cup {"yyparse"}
      BY <1>3, <1>7 DEF Callers
    <3>2. fs[Len(fs)].fn \notin {"leave", "call_list"}
      BY DEF Loops
    <3> QED BY <1>7, <3>1, <3>2 DEF MayCall
  <2>2. f.fn \notin {"leave", "yyparse", "call_sv", "call_sv_eval"} /\ f.fn \notin CallFns /\ Low(f) = Len(cxstack)
    BY <1>3, <1>7 DEF CallFns, Low
  <2> QED BY <1>6, <1>7, <2>1, <2>2 DEF Calls
<1>9. f.fn \in {"die_unwind", "my_exit", "leave", "yyparse"} /\ f.fn # "leave"
  BY <1>3, <1>7
<1>10. /\ Append(fs, f) \in Seq(CFrames) /\ Len(Append(fs, f)) = Len(fs) + 1 /\ FlagInv(Append(fs, f))
       /\ Whole(Append(fs, f), cxstack, [at |-> "work", loop |-> 0], restart)
  BY <1>7, <1>8, <1>9, PushWork
<1>11. Len(Append(fs, f)) <= MaxDepth_c + 1
  BY <1>4, <1>10, Bounds
<1>12. errsv' \in {0} \cup Errors
  BY <1>1
<1>13. Fits(cstack', cxstack', ctl', restart', errsv')
  BY <1>1, <1>2, <1>4, <1>10, <1>11, <1>12, AtTyped DEF Fits
<1>14. Whole(cstack', cxstack', ctl', restart') /\ ctl'.at # "jump3"
  BY <1>1, <1>2, <1>10
<1> QED BY <1>13, <1>14, StepTo

\* What holds in a loop.
AtLoop(fs, cxs) ==
  /\ Always(fs, cxs) /\ Core(fs, cxs, Len(cxs)) /\ Held(fs, cxs) /\ Static(fs)
  /\ Zones(fs, cxs, Len(cxs)) /\ fs[Len(fs)].fn \in Loops /\ MayRun(fs, Len(fs), Len(cxs))

LEMMA InvLoop ==
  ASSUME ExceptionInv, InLoop
  PROVE  AtLoop(cstack, cxstack) /\ ctl.loop = Len(cstack)
BY InvRun, InvAlways DEF AtLoop, InLoop

LEMMA DieKeeps ==
  ASSUME ExceptionInv, NEW err \in Errors, Die(err)
  PROVE  ExceptionInv'
<1>1. InLoop /\ RoomFor(1, 0) /\ DieWith(cstack, err)
  BY DEF Die
<1>2. AtLoop(cstack, cxstack)
  BY <1>1, InvLoop
<1>3. Len(cstack) \in Nat /\ Len(cstack) + 1 <= MaxDepth_c /\ MaxDepth_c \in Nat
  BY <1>1, <1>2, AlwaysHas, Bounds DEF RoomFor, AtLoop
<1>4. Len(cstack) <= MaxDepth_c
  BY <1>3
<1> QED BY <1>1, <1>2, <1>4, InvAlways, DieStep DEF AtLoop

LEMMA CallExitKeeps ==
  ASSUME ExceptionInv, ~ExitsOverTied, CallExit
  PROVE  ExceptionInv'
<1> DEFINE fs == cstack
           f == CFrame("my_exit", FALSE, Len(cxstack), 0)
<1>1. /\ InLoop /\ RoomFor(1, 0) /\ \A k \in DOMAIN cxstack : cxstack[k].onleave # "STORE"
      /\ cstack' = Append(cstack, [Entered("my_exit") EXCEPT !.err = 0])
      /\ ctl' = [at |-> "work", loop |-> 0]
      /\ cxstack' = cxstack /\ errsv' = errsv /\ restart' = restart
  BY DEF CallExit, Unwind, Goto
<1>2. cstack' = Append(cstack, f)
  BY <1>1, EnteredIs
<1>3. AtLoop(cstack, cxstack)
  BY <1>1, InvLoop
<1>4. /\ Len(cxstack) \in Nat /\ Len(cstack) \in Nat /\ Len(cxstack) \in 0 .. MaxDepth_cx
      /\ Len(cxstack) <= MaxDepth_cx /\ cxstack \in Seq(Entries) /\ DOMAIN cxstack = 1 .. Len(cxstack)
  BY <1>3, AlwaysHas DEF AtLoop, Always
<1>5. f \in CFrames /\ f.fn = "my_exit" /\ f.catch = FALSE /\ f.base = Len(cxstack)
  <2>1. "my_exit" \in Fns /\ 0 \in {0} \cup Errors
    BY DEF Fns, Unwinders
  <2>2. f \in CFrames /\ f.fn = "my_exit" /\ f.base = Len(cxstack)
    BY <1>4, <2>1, PlainFrameIs
  <2>3. f.catch = FALSE
    BY FlagDown
  <2> QED BY <2>2, <2>3
<1> HIDE DEF f
<1>6. NoStore(cxstack, Len(cxstack))
  BY <1>1, <1>4 DEF NoStore
<1>7. Calls(cstack, cxstack, f, cxstack)
  <2>1. MayCall(cstack, f)
    <3>1. Callers(f.fn) = Loops \cup {"yyparse"}
      BY <1>5 DEF Callers
    <3>2. cstack[Len(cstack)].fn \notin {"leave", "call_list"} /\ cstack[Len(cstack)].fn \in Loops
      BY <1>3 DEF Loops, AtLoop
    <3>3. MayRun(cstack, Len(cstack), f.base)
      BY <1>3, <1>5 DEF AtLoop
    <3> QED BY <1>5, <3>1, <3>2, <3>3 DEF MayCall
  <2>2. Low(f) = Len(cxstack) /\ f.fn \notin CallFns
    BY <1>5 DEF Low, CallFns
  <2> QED BY <1>5, <1>6, <2>1, <2>2 DEF Calls
<1>8. /\ Append(cstack, f) \in Seq(CFrames) /\ Len(Append(cstack, f)) = Len(cstack) + 1
      /\ FlagInv(Append(cstack, f))
      /\ Whole(Append(cstack, f), cxstack, [at |-> "work", loop |-> 0], restart)
  BY <1>3, <1>5, <1>7, PushWork DEF AtLoop
<1>9. Len(cstack) + 1 <= MaxDepth_c + 1
  BY <1>1, <1>4, Bounds DEF RoomFor
<1>10. Fits(cstack', cxstack', ctl', restart', errsv')
  BY <1>1, <1>2, <1>4, <1>8, <1>9, AtTyped, InvAlways DEF Fits
<1>11. Whole(cstack', cxstack', ctl', restart') /\ ctl'.at # "jump3"
  BY <1>1, <1>2, <1>8
<1> QED BY <1>10, <1>11, StepTo

LEMMA LeaveToKeeps ==
  ASSUME ExceptionInv, NEW base \in 0 .. Len(cxstack) - 1, LeaveTo(base)
  PROVE  ExceptionInv'
<1> DEFINE f == CFrame("leave", FALSE, base, 0)
<1>1. /\ InLoop /\ RoomFor(1, 0)
      /\ base = Len(cxstack) - 1 \/ \A k \in base + 1 .. Len(cxstack) : cxstack[k].retop
      /\ cstack' = Append(cstack, [Entered("leave") EXCEPT !.base = base])
      /\ ctl' = [at |-> "work", loop |-> 0]
      /\ cxstack' = cxstack /\ errsv' = errsv /\ restart' = restart
  BY DEF LeaveTo, Goto
<1>2. cstack' = Append(cstack, f)
  BY <1>1, EnteredIs
<1>3. AtLoop(cstack, cxstack)
  BY <1>1, InvLoop
<1>4. /\ Len(cxstack) \in Nat /\ Len(cstack) \in Nat /\ Len(cxstack) \in 0 .. MaxDepth_cx
      /\ Len(cxstack) <= MaxDepth_cx /\ cxstack \in Seq(Entries) /\ CStack(cstack)
  BY <1>3, AlwaysHas DEF AtLoop
<1>5. base \in Nat /\ base <= Len(cxstack) /\ base + 1 <= Len(cxstack) /\ base \in 0 .. MaxDepth_cx
  BY <1>4, Bounds
<1>6. f \in CFrames /\ f.fn = "leave" /\ f.catch = FALSE /\ f.base = base
  <2>1. "leave" \in Fns /\ 0 \in {0} \cup Errors
    BY DEF Fns, Unwinders
  <2>2. f \in CFrames /\ f.fn = "leave" /\ f.base = base
    BY <1>5, <2>1, PlainFrameIs, ZenonT(60)
  <2>3. f.catch = FALSE
    BY FlagDown
  <2> QED BY <2>2, <2>3
<1> HIDE DEF f
<1>7. Calls(cstack, cxstack, f, cxstack)
  <2>1. MayRun(cstack, Len(cstack), base) \/ HasEnded(cstack, Len(cstack), base)
    BY <1>1, <1>3, <1>4, MayLeave DEF AtLoop
  <2>2. MayCall(cstack, f)
    <3>1. Callers(f.fn) = Loops
      BY <1>6 DEF Callers
    <3>2. cstack[Len(cstack)].fn \notin {"leave", "call_list"} /\ cstack[Len(cstack)].fn \in Loops
      BY <1>3 DEF Loops, AtLoop
    <3> QED BY <1>6, <2>1, <3>1, <3>2 DEF MayCall
  <2>3. f.fn \notin CallFns /\ f.fn \notin {"yyparse", "die_unwind", "my_exit", "call_sv", "call_sv_eval"}
    BY <1>6 DEF CallFns
  <2> QED BY <1>5, <1>6, <2>2, <2>3 DEF Calls
<1>8. Len(cxstack) >= f.base + 1 /\ f.fn \in {"die_unwind", "my_exit", "leave", "yyparse"}
  BY <1>4, <1>5, <1>6
<1>9. /\ Append(cstack, f) \in Seq(CFrames) /\ Len(Append(cstack, f)) = Len(cstack) + 1
      /\ FlagInv(Append(cstack, f))
      /\ Whole(Append(cstack, f), cxstack, [at |-> "work", loop |-> 0], restart)
  BY <1>3, <1>6, <1>7, <1>8, PushWork DEF AtLoop
<1>10. Len(cstack) + 1 <= MaxDepth_c + 1
  BY <1>1, <1>4, Bounds DEF RoomFor
<1>11. Fits(cstack', cxstack', ctl', restart', errsv')
  BY <1>1, <1>2, <1>4, <1>9, <1>10, AtTyped, InvAlways DEF Fits
<1>12. Whole(cstack', cxstack', ctl', restart') /\ ctl'.at # "jump3"
  BY <1>1, <1>2, <1>9
<1> QED BY <1>11, <1>12, StepTo

-----------------------------------------------------------------------------
(* Subs and evals are entered.                                             *)

LEMMA LoopStep ==
  ASSUME AtLoop(cstack', cxstack'), ctl'.at = "run", ctl'.loop = Len(cstack'),
         Len(cstack') <= MaxDepth_c, errsv' \in {0} \cup Errors,
         ctl' \in [at : {"run", "work", "null", "jump2", "jump3", "exited"}, loop : 0 .. MaxDepth_c],
         restart' \in [env : 0 .. MaxDepth_c, loop : 0 .. MaxDepth_c]
  PROVE  ExceptionInv'
<1>1. /\ cstack' \in Seq(CFrames) /\ cxstack' \in Seq(Entries) /\ FlagInv(cstack')
      /\ Len(cstack') <= MaxDepth_c + 1 /\ Len(cxstack') <= MaxDepth_cx
  BY AlwaysHas DEF AtLoop
<1>2. Fits(cstack', cxstack', ctl', restart', errsv')
  BY <1>1 DEF Fits
<1>3. Whole(cstack', cxstack', ctl', restart') /\ ctl'.at # "jump3"
  BY DEF Whole, Control, AtRun, Settled, AtLoop
<1> QED BY <1>2, <1>3, StepTo

LEMMA LoopIs ==
  ASSUME NEW fs, NEW cxs, NEW ds, AtLoop(fs, cxs), ds \in Seq(Entries), Len(ds) <= MaxDepth_cx,
         Core(fs, ds, Len(ds)), Held(fs, ds), MayRun(fs, Len(fs), Len(ds))
  PROVE  AtLoop(fs, ds)
<1>1. fs \in Seq(CFrames) /\ FlagInv(fs) /\ Len(fs) <= MaxDepth_c + 1
  BY AlwaysHas DEF AtLoop
<1>2. Always(fs, ds)
  BY <1>1, AlwaysIs
<1> QED BY <1>2 DEF AtLoop, Core

LEMMA RunFits ==
  ASSUME ExceptionInv, InLoop
  PROVE  /\ ctl \in [at : {"run", "work", "null", "jump2", "jump3", "exited"}, loop : 0 .. MaxDepth_c]
         /\ ctl.at = "run" /\ ctl.loop = Len(cstack) /\ Len(cstack) <= MaxDepth_c
         /\ errsv \in {0} \cup Errors /\ restart \in [env : 0 .. MaxDepth_c, loop : 0 .. MaxDepth_c]
<1>1. /\ ctl \in [at : {"run", "work", "null", "jump2", "jump3", "exited"}, loop : 0 .. MaxDepth_c]
      /\ errsv \in {0} \cup Errors /\ restart \in [env : 0 .. MaxDepth_c, loop : 0 .. MaxDepth_c]
      /\ ctl.at = "run" /\ ctl.loop = Len(cstack)
  BY InvAlways, InvLoop DEF InLoop
<1>2. ctl.loop \in 0 .. MaxDepth_c
  BY <1>1
<1>3. \A n \in 0 .. MaxDepth_c : n <= MaxDepth_c
  OBVIOUS
<1> QED BY <1>1, <1>2, <1>3

LEMMA SubCx ==
  /\ Cx("sub", TRUE) \in Entries /\ Cx("sub", TRUE).retop /\ Cx("sub", TRUE).type = "sub"
  /\ Cx("sub", FALSE) \in Entries /\ Cx("sub", FALSE).retop = FALSE /\ Cx("sub", FALSE).type = "sub"
  /\ Cx("stackinfo", FALSE) \in Entries /\ Cx("stackinfo", FALSE).type = "stackinfo"
  /\ Cx("stackinfo", FALSE).onleave = ""
<1>1. 0 \in 0 .. MaxDepth_c
  BY Bounds
<1> QED BY <1>1 DEF Cx, Entries

LEMMA EnterSubKeeps ==
  ASSUME ExceptionInv, EnterSub
  PROVE  ExceptionInv'
<1>1. /\ InLoop /\ RoomFor(0, 1) /\ cxstack' = Append(cxstack, Cx("sub", TRUE))
      /\ cstack' = cstack /\ ctl' = ctl /\ errsv' = errsv /\ restart' = restart
  BY DEF EnterSub
<1>2. AtLoop(cstack, cxstack)
  BY <1>1, InvLoop
<1>3. /\ cxstack \in Seq(Entries) /\ CStack(cstack) /\ Len(cxstack) \in Nat
  BY <1>2, AlwaysHas DEF AtLoop
<1>4. /\ cxstack' \in Seq(Entries) /\ PStack(cxstack) /\ PStack(cxstack')
      /\ Len(cxstack') = Len(cxstack) + 1 /\ cxstack'[Len(cxstack) + 1] = Cx("sub", TRUE)
      /\ \A k \in 1 .. Len(cxstack) : cxstack'[k] = cxstack[k]
  BY <1>1, <1>3, SubCx, EntryPlus
<1>5. Len(cxstack') <= MaxDepth_cx
  BY <1>1, <1>4 DEF RoomFor
<1>6. EntryPushed(cstack, cxstack, cxstack')
  BY <1>2, <1>4, SubCx DEF EntryPushed, AtLoop
<1>7. Core(cstack, cxstack', Len(cxstack')) /\ Held(cstack, cxstack') /\ MayRun(cstack, Len(cstack), Len(cxstack'))
  BY <1>2, <1>3, <1>6, PushEntryKeeps DEF AtLoop
<1>8. AtLoop(cstack, cxstack')
  BY <1>2, <1>4, <1>5, <1>7, LoopIs
<1> QED BY <1>1, <1>8, RunFits, LoopStep

LEMMA AtLeaveKeeps ==
  ASSUME ExceptionInv, NEW what \in {"DESTROY", "STORE"}, AtLeave(what)
  PROVE  ExceptionInv'
<1>1. /\ InLoop /\ cxstack # <<>> /\ cxstack' = Labelled(cxstack, what)
      /\ cstack' = cstack /\ ctl' = ctl /\ errsv' = errsv /\ restart' = restart
  BY DEF AtLeave, Labelled
<1>2. AtLoop(cstack, cxstack)
  BY <1>1, InvLoop
<1>3. /\ cxstack \in Seq(Entries) /\ CStack(cstack) /\ Len(cxstack) <= MaxDepth_cx
  BY <1>2, AlwaysHas DEF AtLoop
<1>4. Len(cxstack) > 0
  BY <1>1, <1>3, NotEmpty
<1>5. /\ cxstack' \in Seq(Entries) /\ PStack(cxstack) /\ PStack(cxstack') /\ Len(cxstack') = Len(cxstack)
      /\ \A k \in 1 .. Len(cxstack) : /\ SameEntry(cxstack[k], cxstack'[k])
                                      /\ k < Len(cxstack) => cxstack'[k] = cxstack[k]
  <2>1. what \in {"", "DESTROY", "STORE"}
    OBVIOUS
  <2>2. Labelled(cxstack, what) \in Seq(Entries) /\ PStack(cxstack) /\ PStack(Labelled(cxstack, what))
        /\ Len(Labelled(cxstack, what)) = Len(cxstack)
        /\ \A k \in 1 .. Len(cxstack) :
             /\ SameEntry(cxstack[k], Labelled(cxstack, what)[k])
             /\ k < Len(cxstack) => Labelled(cxstack, what)[k] = cxstack[k]
    BY <1>3, <1>4, <2>1, EntryLabelled
  <2> QED BY <1>1, <2>2
<1>6. cstack[Len(cstack)].fn # "my_exit"
  BY <1>2 DEF AtLoop, Loops
<1>7. Relabels(cstack, cxstack, cxstack')
  BY <1>5, <1>6 DEF Relabels
<1>8. Core(cstack, cxstack', Len(cxstack')) /\ Held(cstack, cxstack')
  BY <1>2, <1>3, <1>7, RelabelKeeps DEF AtLoop
<1>9. AtLoop(cstack, cxstack')
  BY <1>2, <1>3, <1>5, <1>8, LoopIs DEF AtLoop
<1> QED BY <1>1, <1>9, RunFits, LoopStep

\* The end of the main program is the end of the outermost loop.
LEMMA MainEndsKeeps ==
  ASSUME ExceptionInv, MainEnds
  PROVE  ExceptionInv'
<1>1. /\ InLoop /\ cxstack = <<>> /\ ctl' = [at |-> "null", loop |-> 0]
      /\ cstack' = cstack /\ cxstack' = cxstack /\ errsv' = errsv /\ restart' = restart
  BY DEF MainEnds, Goto
<1>2. AtLoop(cstack, cxstack)
  BY <1>1, InvLoop
<1>3. cxstack \in Seq(Entries) /\ Always(cstack, cxstack) /\ CStack(cstack)
  BY <1>2, AlwaysHas DEF AtLoop
<1>4. Len(cxstack) = 0
  BY <1>1, EmptySeq
<1>5. HasEnded(cstack, Len(cstack), Len(cxstack))
  <2>1. \A r \in 1 .. Len(cstack) : cstack[r].base \in Nat
    BY <1>3 DEF CStack
  <2>2. \A b \in Nat : ~(0 >= b + 2)
    OBVIOUS
  <2>3. \A r \in 1 .. Len(cstack) : LoopFor(cstack, r, Len(cstack)) => cstack[r].fn = "perl_run"
    BY <1>2, <1>4, <2>1, <2>2 DEF AtLoop, MayRun
  <2> QED BY <1>4, <2>3 DEF HasEnded
<1>6. Whole(cstack', cxstack', ctl', restart') /\ ctl'.at # "jump3"
  BY <1>1, <1>2, <1>5, WholeNull DEF AtLoop
<1>7. Fits(cstack', cxstack', ctl', restart', errsv')
  BY <1>1, <1>3, InvAlways, AlwaysHas, AtTyped DEF Fits
<1> QED BY <1>6, <1>7, StepTo

\* docatch() is called, or is not needed: then the catcher runs this loop.
LEMMA Catchers ==
  ASSUME AtLoop(cstack, cxstack), Len(cstack) + 1 <= MaxDepth_c
  PROVE  /\ AtLoop(Catching, cxstack) /\ Len(Catching) <= Len(cstack) + 1
         /\ Len(Catching) <= MaxDepth_c
         /\ Catching[Len(Catching)].fn \in {"perl_run", "docatch", "call_sv_eval"}
<1> DEFINE e == TopEnv(cstack)
           n == Len(cstack)
<1>1. /\ cstack \in Seq(CFrames) /\ cxstack \in Seq(Entries) /\ PStack(cxstack)
      /\ n \in Nat /\ n > 0 /\ n \in 1 .. n /\ Len(cxstack) \in 0 .. MaxDepth_cx /\ FlagInv(cstack)
      /\ Len(cxstack) \in Nat /\ Len(cxstack) <= MaxDepth_cx /\ CStack(cstack)
  BY AlwaysHas DEF AtLoop
<1>2. /\ e \in 1 .. n /\ cstack[e].fn \in Envs /\ CatchFlags(cstack)
      /\ \A i \in e + 1 .. n : cstack[i].fn \notin Envs
  BY DEF AtLoop, Always
<1>3. n <= MaxDepth_c /\ n <= n + 1
  BY <1>1, Bounds
<1>4. CASE cstack[e].catch
  <2> DEFINE f == CFrame("docatch", FALSE, Len(cxstack), 0)
             gs == Append(cstack, f)
  <2>1. Catching = gs
    BY <1>4, EnteredIs DEF Catching
  <2>2. f \in CFrames /\ f.fn = "docatch" /\ f.base = Len(cxstack)
    <3>1. "docatch" \in Fns /\ 0 \in {0} \cup Errors
      BY DEF Fns, Envs
    <3> QED BY <1>1, <3>1, PlainFrameIs, ZenonT(30)
  <2>3. f.catch = FALSE
    BY FlagDown
  <2> HIDE DEF f
  <2>4. Plus(cstack, f, gs)
    BY <1>1, <2>2, FramePlus
  <2> HIDE DEF gs
  <2>5. Calls(cstack, cxstack, f, cxstack)
    <3>1. Callers(f.fn) = Loops
      BY <2>2 DEF Callers
    <3>2. cstack[n].fn \notin {"leave", "call_list"} /\ cstack[n].fn \in Loops /\ MayRun(cstack, n, f.base)
      BY <2>2 DEF Loops, AtLoop
    <3>3. MayCall(cstack, f)
      BY <2>2, <3>1, <3>2 DEF MayCall
    <3>4. Low(f) = Len(cxstack) /\ f.fn \notin CallFns
      BY <2>2 DEF Low, CallFns
    <3> QED BY <2>2, <3>3, <3>4 DEF Calls
  <2>6. Pushes(cstack, gs, cxstack, cxstack)
    BY <1>1, <2>4, <2>5, PushesIs
  <2>7. Core(gs, cxstack, Len(cxstack)) /\ Held(gs, cxstack)
    BY <2>6, PushKeeps DEF AtLoop
  <2>8. /\ gs \in Seq(CFrames) /\ Len(gs) = n + 1 /\ gs[n + 1] = f /\ SameUpTo(cstack, gs, n)
    BY <2>4 DEF Plus
  <2>9. FlagInv(gs)
    BY <1>1, <2>2, <2>3, <2>4, FlagsPlus
  <2>10. MayRun(gs, n + 1, Len(cxstack))
    <3>1. MayRun(gs, n, Len(cxstack))
      BY <1>1, <2>8, LoopSame DEF AtLoop
    <3>2. \A r \in 1 .. n + 1 : r = n + 1 \/ r \in 1 .. n
      BY <1>1
    <3>3. \A r \in 1 .. n + 1 : LoopFor(gs, r, n + 1) => r # n + 1
      BY <2>2, <2>8 DEF LoopFor, CallFns
    <3>4. \A r \in 1 .. n : LoopFor(gs, r, n + 1) => LoopFor(gs, r, n)
      <4>1. \A r \in 1 .. n : \A q \in r + 1 .. n : q \in r + 1 .. n + 1
        BY <1>1
      <4> QED BY <4>1 DEF LoopFor
    <3> QED BY <3>1, <3>2, <3>3, <3>4 DEF MayRun
  <2>11. Always(gs, cxstack)
    <3>1. n + 1 <= MaxDepth_c + 1
      BY <1>1, <1>3, Bounds
    <3> QED BY <1>1, <2>8, <2>9, <3>1, AlwaysIs
  <2>12. AtLoop(gs, cxstack)
    BY <2>2, <2>7, <2>8, <2>10, <2>11 DEF AtLoop, Core, Loops
  <2> QED BY <2>1, <2>2, <2>8, <2>12
<1>5. CASE ~cstack[e].catch
  <2>1. Catching = cstack
    BY <1>5 DEF Catching
  <2>2. ~Waits(cstack, e, n)
    BY <1>2, <1>5 DEF CatchFlags
  <2>3. cstack[n].fn # "call_sv"
    <3>1. SUFFICES ASSUME cstack[n].fn = "call_sv" PROVE FALSE
      OBVIOUS
    <3>2. e # n
      BY <1>2, <3>1 DEF Envs
    <3>3. n \in e + 1 .. n
      BY <1>1, <1>2, <3>2
    <3> QED BY <1>2, <2>2, <3>1, <3>3 DEF Waits
  <2>4. cstack[n].fn \in {"perl_run", "docatch", "call_sv_eval"}
    BY <2>3 DEF AtLoop, Loops
  <2> QED BY <1>3, <2>1, <2>4
<1> QED BY <1>4, <1>5

LEMMA EvalCx ==
  ASSUME NEW m \in 0 .. MaxDepth_c, NEW n \in 0 .. MaxDepth_c,
         NEW x, x = [Cx("eval", TRUE) EXCEPT !.env = m, !.loop = n]
  PROVE  x \in Entries /\ x.type = "eval" /\ x.retop /\ ~x.keeperr /\ x.env = m /\ x.loop = n
BY DEF Cx, Entries

\* The entry of an eval is pushed in the loop that is to run it.
LEMMA TryStep ==
  ASSUME NEW fs, AtLoop(fs, cxstack), fs[Len(fs)].fn \in {"perl_run", "docatch", "call_sv_eval"},
         Len(fs) <= MaxDepth_c, Len(cxstack) + 1 <= MaxDepth_cx, PushEval(fs)
  PROVE  /\ AtLoop(fs, cxstack') /\ errsv' = 0 /\ Len(cxstack') = Len(cxstack) + 1
         /\ cxstack'[Len(cxstack')].type = "eval" /\ cxstack'[Len(cxstack')].loop = Len(fs)
<1> DEFINE x == [Cx("eval", TRUE) EXCEPT !.env = TopEnv(fs), !.loop = Len(fs)]
<1>1. cxstack' = Append(cxstack, x) /\ errsv' = 0
  BY DEF PushEval
<1>2. /\ cxstack \in Seq(Entries) /\ CStack(fs) /\ Len(cxstack) \in Nat
      /\ Len(fs) \in Nat /\ Len(fs) \in 1 .. Len(fs) /\ DOMAIN fs = 1 .. Len(fs) /\ Bottom(fs)
  BY AlwaysHas DEF AtLoop, Always
<1>3. TopEnv(fs) = Len(fs)
  <2>1. \A i \in Len(fs) + 1 .. Len(fs) : FALSE
    BY <1>2
  <2>2. fs[Len(fs)].fn \in Envs
    BY DEF Envs
  <2> QED BY <1>2, <2>1, <2>2, TopEnvIs
<1>4. Len(fs) \in 0 .. MaxDepth_c
  BY <1>2, Bounds
<1>5. x \in Entries /\ x.type = "eval" /\ x.retop /\ ~x.keeperr /\ x.env = Len(fs) /\ x.loop = Len(fs)
  <2>1. \A y : y = x => y \in Entries /\ y.type = "eval" /\ y.retop /\ ~y.keeperr
                        /\ y.env = TopEnv(fs) /\ y.loop = Len(fs)
    BY <1>3, <1>4, EvalCx, ZenonT(60)
  <2> QED BY <1>3, <2>1
<1> HIDE DEF x
<1>6. /\ cxstack' \in Seq(Entries) /\ PStack(cxstack) /\ PStack(cxstack')
      /\ Len(cxstack') = Len(cxstack) + 1 /\ cxstack'[Len(cxstack) + 1] = x
      /\ \A k \in 1 .. Len(cxstack) : cxstack'[k] = cxstack[k]
  BY <1>1, <1>2, <1>5, EntryPlus
<1>7. EntryPushed(fs, cxstack, cxstack')
  BY <1>5, <1>6 DEF EntryPushed, AtLoop
<1>8. Core(fs, cxstack', Len(cxstack')) /\ Held(fs, cxstack') /\ MayRun(fs, Len(fs), Len(cxstack'))
  BY <1>2, <1>7, PushEntryKeeps DEF AtLoop
<1>9. AtLoop(fs, cxstack')
  BY <1>6, <1>8, LoopIs
<1> QED BY <1>1, <1>5, <1>6, <1>9

LEMMA EnterTryKeeps ==
  ASSUME ExceptionInv, EnterTry
  PROVE  ExceptionInv'
<1>1. /\ InLoop /\ RoomFor(1, 1) /\ cstack' = Catching /\ PushEval(Catching)
      /\ ctl' = [at |-> "run", loop |-> Len(Catching)] /\ restart' = restart
  BY DEF EnterTry, Run
<1>2. AtLoop(cstack, cxstack)
  BY <1>1, InvLoop
<1>3. Len(cstack) + 1 <= MaxDepth_c /\ Len(cxstack) + 1 <= MaxDepth_cx
  BY <1>1 DEF RoomFor
<1>4. /\ AtLoop(Catching, cxstack) /\ Len(Catching) <= MaxDepth_c
      /\ Catching[Len(Catching)].fn \in {"perl_run", "docatch", "call_sv_eval"}
  BY <1>2, <1>3, Catchers
<1>5. AtLoop(Catching, cxstack') /\ errsv' = 0
  BY <1>1, <1>3, <1>4, TryStep
<1>6. Len(Catching) \in 0 .. MaxDepth_c
  <2>1. Len(Catching) \in Nat
    BY <1>5, AlwaysHas DEF AtLoop
  <2> QED BY <1>4, <2>1, Bounds
<1>7. /\ ctl' \in [at : {"run", "work", "null", "jump2", "jump3", "exited"}, loop : 0 .. MaxDepth_c]
      /\ ctl'.at = "run" /\ ctl'.loop = Len(cstack')
  BY <1>1, <1>6, AtRunTyped
<1>8. errsv' \in {0} \cup Errors /\ restart' \in [env : 0 .. MaxDepth_c, loop : 0 .. MaxDepth_c]
  BY <1>1, <1>5, InvAlways
<1> QED BY <1>1, <1>4, <1>5, <1>7, <1>8, LoopStep

LEMMA EnterEvalKeeps ==
  ASSUME ExceptionInv, EnterEval
  PROVE  ExceptionInv'
<1> DEFINE fs == Catching
           f == CFrame("yyparse", FALSE, Len(cxstack) + 1, 0)
<1>1. /\ InLoop /\ RoomFor(2, 1) /\ PushEval(fs)
      /\ cstack' = Append(fs, [Entered("yyparse") EXCEPT !.base = Len(cxstack) + 1])
      /\ ctl' = [at |-> "work", loop |-> 0] /\ restart' = restart
  BY DEF EnterEval, Goto
<1>2. cstack' = Append(fs, f)
  BY <1>1, EnteredIs
<1>3. AtLoop(cstack, cxstack)
  BY <1>1, InvLoop
<1>4. /\ Len(cstack) \in Nat /\ Len(cxstack) \in Nat /\ MaxDepth_c \in Nat /\ MaxDepth_cx \in Nat
      /\ Len(cstack) + 2 <= MaxDepth_c /\ Len(cxstack) + 1 <= MaxDepth_cx
  BY <1>1, <1>3, Bounds, AlwaysHas DEF RoomFor, AtLoop
<1>5. Len(cstack) + 1 <= MaxDepth_c /\ Len(cxstack) + 1 \in 0 .. MaxDepth_cx
  BY <1>4
<1>6. /\ AtLoop(fs, cxstack) /\ Len(fs) <= Len(cstack) + 1 /\ Len(fs) <= MaxDepth_c
      /\ fs[Len(fs)].fn \in {"perl_run", "docatch", "call_sv_eval"}
  BY <1>3, <1>5, Catchers
<1> HIDE DEF fs
<1>7. /\ AtLoop(fs, cxstack') /\ errsv' = 0 /\ Len(cxstack') = Len(cxstack) + 1
      /\ cxstack'[Len(cxstack')].type = "eval" /\ cxstack'[Len(cxstack')].loop = Len(fs)
  BY <1>1, <1>4, <1>6, TryStep
<1>8. f \in CFrames /\ f.fn = "yyparse" /\ f.base = Len(cxstack')
  <2>1. "yyparse" \in Fns /\ 0 \in {0} \cup Errors
    BY DEF Fns, Envs
  <2> QED BY <1>5, <1>7, <2>1, PlainFrameIs, ZenonT(60)
<1>9. f.catch = FALSE
  BY FlagDown
<1> HIDE DEF f
<1>10. /\ Len(cxstack') > 0 /\ Len(cxstack') \in Nat /\ Len(fs) \in Nat /\ cxstack' \in Seq(Entries)
       /\ Len(cxstack') <= MaxDepth_cx
  <2>1. Len(cxstack') \in Nat /\ Len(fs) \in Nat /\ cxstack' \in Seq(Entries) /\ Len(cxstack') <= MaxDepth_cx
    BY <1>7, AlwaysHas DEF AtLoop
  <2>2. Len(cxstack') > 0
    BY <1>4, <1>7
  <2> QED BY <2>1, <2>2
<1>11. Calls(fs, cxstack', f, cxstack')
  <2>1. MayCall(fs, f)
    <3>1. Callers(f.fn) = Loops
      BY <1>8 DEF Callers
    <3>2. fs[Len(fs)].fn \in Loops /\ fs[Len(fs)].fn \notin {"leave", "call_list"}
      BY <1>6 DEF Loops
    <3>3. MayRun(fs, Len(fs), f.base)
      BY <1>7, <1>8 DEF AtLoop
    <3> QED BY <1>8, <1>10, <3>1, <3>2, <3>3 DEF MayCall
  <2>2. Low(f) = Len(cxstack') /\ f.fn \notin CallFns
    BY <1>8 DEF Low, CallFns
  <2> QED BY <1>7, <1>8, <1>10, <2>1, <2>2 DEF Calls
<1>12. /\ Append(fs, f) \in Seq(CFrames) /\ Len(Append(fs, f)) = Len(fs) + 1
       /\ FlagInv(Append(fs, f))
       /\ Whole(Append(fs, f), cxstack', [at |-> "work", loop |-> 0], restart')
  <2>1. f.fn \in {"die_unwind", "my_exit", "leave", "yyparse"} /\ f.fn # "leave"
    BY <1>8
  <2> QED BY <1>7, <1>8, <1>9, <1>11, <2>1, PushWork DEF AtLoop
<1>13. Len(fs) + 1 <= MaxDepth_c + 1
  BY <1>4, <1>6, <1>10
<1>14. Fits(cstack', cxstack', ctl', restart', errsv')
  <2>1. errsv' \in {0} \cup Errors
    BY <1>7
  <2> QED BY <1>1, <1>2, <1>10, <1>12, <1>13, <2>1, AtTyped, InvAlways DEF Fits
<1>15. Whole(cstack', cxstack', ctl', restart') /\ ctl'.at # "jump3"
  BY <1>1, <1>2, <1>12
<1> QED BY <1>14, <1>15, StepTo

-----------------------------------------------------------------------------
(* Perl code is called from C.                                             *)

\* call_sv() without G_EVAL: what it is called from, and on which stack.
MayCallPlain(fs, cxs) ==
  /\ fs[Len(fs)].fn \in Loops \cup Unwinders \cup {"call_list"}
  /\ fs[Len(fs)].fn \in Loops => MayRun(fs, Len(fs), Len(cxs))
  /\ fs[Len(fs)].fn = "call_list" => Len(cxs) = fs[Len(fs)].base + 1
  /\ fs[Len(fs)].fn = "leave" => Len(cxs) >= fs[Len(fs)].base + 1
  /\ fs[Len(fs)].fn = "my_exit" => NoEval(cxs, Len(cxs))

LEMMA PlainCalls ==
  ASSUME NEW fs, NEW cxs, NEW f, NEW ds, MayCallPlain(fs, cxs), f.fn = "call_sv", f.base = Len(cxs),
         Len(ds) = Len(cxs) + 2, ds[Len(cxs) + 1] = Cx("stackinfo", FALSE),
         ds[Len(cxs) + 2] = Cx("sub", FALSE)
  PROVE  Calls(fs, cxs, f, ds)
<1>1. Low(f) = Len(cxs) /\ Callers(f.fn) = Loops \cup Unwinders \cup {"call_list"}
  BY DEF Low, Callers
<1>2. MayCall(fs, f)
  BY <1>1 DEF MayCall, MayCallPlain
<1>3. /\ ds[Len(cxs) + 1].type = "stackinfo" /\ ds[Len(cxs) + 2].type = "sub"
      /\ ds[Len(cxs) + 2].retop = FALSE
  BY SubCx
<1>4. fs[Len(fs)].fn = "my_exit" => NoEval(cxs, Len(cxs))
  BY DEF MayCallPlain
<1>5. f.fn \in CallFns
  BY DEF CallFns
<1> QED BY <1>1, <1>2, <1>3, <1>4, <1>5 DEF Calls

LEMMA CallEntries ==
  ASSUME NEW cxs \in Seq(Entries), NEW a, a \in Entries, NEW b, b \in Entries,
         NEW ds, ds = cxs \o <<a, b>>
  PROVE  /\ ds \in Seq(Entries) /\ Len(ds) = Len(cxs) + 2 /\ \A k \in 1 .. Len(cxs) : ds[k] = cxs[k]
         /\ ds[Len(cxs) + 1] = a /\ ds[Len(cxs) + 2] = b
BY TwoAdded

LEMMA PlainStep ==
  ASSUME Always(cstack, cxstack), NEW cxs \in Seq(Entries), Len(cxs) = Len(cxstack),
         Core(cstack, cxs, Len(cxs)), Held(cstack, cxs), MayCallPlain(cstack, cxs),
         RoomFor(1, 2), CallPlain(cxs), errsv' \in {0} \cup Errors,
         restart' \in [env : 0 .. MaxDepth_c, loop : 0 .. MaxDepth_c]
  PROVE  ExceptionInv'
<1> DEFINE e == TopEnv(cstack)
           n == Len(cstack)
           f == CFrame("call_sv", cstack[e].catch, Len(cxstack), 0)
           hs == Flagged(cstack, e, TRUE)
           gs == Append(hs, f)
<1>1. /\ cstack' = Append([cstack EXCEPT ![e].catch = TRUE],
                          [Entered("call_sv") EXCEPT !.catch = cstack[e].catch])
      /\ cxstack' = cxs \o <<Cx("stackinfo", FALSE), Cx("sub", FALSE)>>
      /\ ctl' = [at |-> "run", loop |-> Len(cstack')]
  BY DEF CallPlain, Run
<1>2. cstack' = gs
  BY <1>1, EnteredIs DEF Flagged
<1>3. /\ cstack \in Seq(CFrames) /\ CStack(cstack) /\ n \in Nat /\ n > 0
      /\ Len(cxstack) \in Nat /\ Len(cxstack) \in 0 .. MaxDepth_cx /\ FlagInv(cstack)
  BY AlwaysHas
<1>4. /\ e \in 1 .. n /\ cstack[e].fn \in Envs /\ Bottom(cstack) /\ CatchFlags(cstack) /\ OldFlags(cstack)
      /\ \A i \in e + 1 .. n : cstack[i].fn \notin Envs
  BY DEF Always
<1>5. f \in CFrames /\ f.fn = "call_sv" /\ f.base = Len(cxs) /\ f.catch = cstack[e].catch
  <2>1. cstack[e].catch \in BOOLEAN
    BY <1>3, <1>4 DEF CStack
  <2>2. "call_sv" \in Fns /\ 0 \in {0} \cup Errors
    BY DEF Fns, Loops
  <2> QED BY <1>3, <2>1, <2>2, FrameIs
<1>6. /\ hs \in Seq(CFrames) /\ Len(hs) = n /\ SameUpTo(cstack, hs, n) /\ hs[e].catch = TRUE
      /\ \A i \in 1 .. n : i # e => hs[i] = cstack[i]
  <2>1. PICK yes \in BOOLEAN : yes = TRUE
    OBVIOUS
  <2>2. /\ Flagged(cstack, e, yes) \in Seq(CFrames) /\ Len(Flagged(cstack, e, yes)) = n
        /\ SameUpTo(cstack, Flagged(cstack, e, yes), n) /\ Flagged(cstack, e, yes)[e].catch = yes
        /\ \A i \in 1 .. n : i # e => Flagged(cstack, e, yes)[i] = cstack[i]
    BY <1>3, <1>4, FrameFlagged
  <2> QED BY <2>1, <2>2
<1> HIDE DEF hs, f
<1>7. /\ gs \in Seq(CFrames) /\ CStack(gs) /\ Len(gs) = n + 1 /\ gs[n + 1] = f
      /\ \A i \in 1 .. n : gs[i] = hs[i]
  BY <1>5, <1>6, FramePlus DEF Plus
<1> HIDE DEF gs
<1>8. SameUpTo(cstack, gs, n)
  BY <1>6, <1>7 DEF SameUpTo
<1>9. /\ cxstack' \in Seq(Entries) /\ Len(cxstack') = Len(cxs) + 2
      /\ \A k \in 1 .. Len(cxs) : cxstack'[k] = cxs[k]
      /\ cxstack'[Len(cxs) + 1] = Cx("stackinfo", FALSE)
      /\ cxstack'[Len(cxs) + 2] = Cx("sub", FALSE)
  <2>1. PICK a \in Entries, b \in Entries : a = Cx("stackinfo", FALSE) /\ b = Cx("sub", FALSE)
    BY SubCx
  <2>2. cxstack' = cxs \o <<a, b>>
    BY <1>1, <2>1
  <2>3. /\ cxstack' \in Seq(Entries) /\ Len(cxstack') = Len(cxs) + 2
        /\ \A k \in 1 .. Len(cxs) : cxstack'[k] = cxs[k]
        /\ cxstack'[Len(cxs) + 1] = a /\ cxstack'[Len(cxs) + 2] = b
    BY <2>2, CallEntries
  <2> QED BY <2>1, <2>3
<1>10. PStack(cxs) /\ PStack(cxstack') /\ Len(cxs) \in Nat /\ Len(cxs) <= Len(cxstack')
  <2>1. PStack(cxs) /\ PStack(cxstack') /\ Len(cxs) \in Nat
    BY <1>9, EntryFacts
  <2> QED BY <1>9, <2>1
<1>11. Pushes(cstack, gs, cxs, cxstack')
  <2>1. Calls(cstack, cxs, f, cxstack')
    BY <1>5, <1>9, PlainCalls
  <2> QED BY <1>3, <1>7, <1>8, <1>9, <1>10, <2>1 DEF Pushes
<1>12. Core(gs, cxstack', Len(cxstack')) /\ Held(gs, cxstack')
  BY <1>11, PushKeeps
<1>13. FlagInv(gs)
  <2>1. CatchFlags(gs) /\ OldFlags(gs)
    <3>1. \A i \in 1 .. n : gs[i].fn = cstack[i].fn /\ (i # e => gs[i].catch = cstack[i].catch)
      BY <1>6, <1>7 DEF SameUpTo
    <3>2. gs[e].catch = TRUE
      BY <1>4, <1>6, <1>7
    <3>3. gs[Len(gs)].fn = "call_sv" /\ gs[Len(gs)].catch = cstack[e].catch
      BY <1>5, <1>7
    <3> QED BY <1>3, <1>4, <1>7, <3>1, <3>2, <3>3, FlagPushCall
  <2>2. Bottom(gs)
    <3>1. Len(gs) \in Nat /\ Len(gs) > 0 /\ \A i \in 1 .. Len(gs) : (i \in 1 .. n /\ i <= n) \/ (i = n + 1 /\ i > n)
      BY <1>3, <1>7
    <3>2. \A i \in 1 .. Len(gs) : \/ i <= n /\ gs[i].fn = cstack[i].fn /\ gs[i].base = cstack[i].base
                                  \/ i > n /\ gs[i].fn # "perl_run"
      BY <1>5, <1>7, <1>8, <3>1 DEF SameUpTo
    <3> QED BY <1>3, <1>4, <3>1, <3>2, BottomSame
  <2> QED BY <2>1, <2>2 DEF FlagInv
<1>14. /\ Len(gs) \in Nat /\ Len(gs) > 0 /\ Len(gs) <= MaxDepth_c /\ Len(cxstack') <= MaxDepth_cx
       /\ Len(gs) \in 0 .. MaxDepth_c /\ Len(gs) <= MaxDepth_c + 1
  <2>1. n + 1 <= MaxDepth_c /\ Len(cxstack) + 2 <= MaxDepth_cx /\ MaxDepth_c \in Nat
    BY Bounds DEF RoomFor
  <2> QED BY <1>3, <1>7, <1>9, <2>1
<1>15. MayRun(gs, Len(gs), Len(cxstack')) /\ gs[Len(gs)].fn \in Loops
  <2>1. gs[Len(gs)].fn = "call_sv" /\ gs[Len(gs)].base = Len(cxs)
    BY <1>5, <1>7
  <2>2. gs[Len(gs)].fn \in CallFns /\ gs[Len(gs)].fn \in Loops
    BY <2>1 DEF CallFns, Loops
  <2>3. Len(cxstack') >= gs[Len(gs)].base + 2
    BY <1>9, <1>10, <2>1
  <2> QED BY <1>14, <2>2, <2>3, RunsItsOwn
<1>16. Fits(cstack', cxstack', ctl', restart', errsv')
  BY <1>1, <1>2, <1>7, <1>9, <1>13, <1>14, AtRunTyped DEF Fits
<1>17. Whole(cstack', cxstack', ctl', restart') /\ ctl'.at # "jump3"
  BY <1>1, <1>2, <1>12, <1>15, WholeRun
<1> QED BY <1>16, <1>17, StepTo

LEMMA CallTiedKeeps ==
  ASSUME ExceptionInv, CallTied
  PROVE  ExceptionInv'
<1>1. InLoop /\ RoomFor(1, 2) /\ CallPlain(cxstack) /\ errsv' = errsv /\ restart' = restart
  BY DEF CallTied
<1>2. AtLoop(cstack, cxstack)
  BY <1>1, InvLoop
<1>3. MayCallPlain(cstack, cxstack)
  BY <1>2 DEF AtLoop, Loops, MayCallPlain
<1>4. cxstack \in Seq(Entries)
  BY <1>2, AlwaysHas DEF AtLoop
<1>5. errsv' \in {0} \cup Errors /\ restart' \in [env : 0 .. MaxDepth_c, loop : 0 .. MaxDepth_c]
  BY <1>1, InvAlways
<1> QED BY <1>1, <1>2, <1>3, <1>4, <1>5, PlainStep DEF AtLoop

\* call_sv() with G_EVAL, after a stackinfo.
MayCallEval(fs, cs) ==
  /\ fs[Len(fs)].fn \in Unwinders \cup {"call_list"}
  /\ fs[Len(fs)].fn = "call_list" => Len(cs) = fs[Len(fs)].base
  /\ fs[Len(fs)].fn = "leave" => Len(cs) >= fs[Len(fs)].base + 1

LEMMA EvalCalls ==
  ASSUME NEW fs, NEW cs, NEW f, NEW ds, NEW x, MayCallEval(fs, cs), Len(cs) \in Nat,
         f.fn = "call_sv_eval", f.base = Len(cs) + 1, x.type = "eval", x.loop = 0, x.env <= Len(fs),
         Len(ds) = Len(cs) + 3, ds[Len(cs) + 1] = Cx("stackinfo", FALSE), ds[Len(cs) + 2] = x,
         ds[Len(cs) + 3] = Cx("sub", FALSE)
  PROVE  Calls(fs, cs, f, ds)
<1>1. Low(f) = Len(cs) /\ f.base > 0
  BY DEF Low
<1>2. Callers(f.fn) = Unwinders \cup {"call_list"}
  BY DEF Callers
<1>3. fs[Len(fs)].fn \notin Loops
  BY DEF MayCallEval, Loops, Unwinders
<1>4. MayCall(fs, f)
  BY <1>1, <1>2, <1>3 DEF MayCall, MayCallEval
<1>5. /\ ds[Len(cs) + 1].type = "stackinfo" /\ ds[Len(cs) + 1].onleave = ""
      /\ ds[Len(cs) + 3].type = "sub" /\ ds[Len(cs) + 3].retop = FALSE
  BY SubCx
<1>6. f.fn \in CallFns
  BY DEF CallFns
<1> QED BY <1>1, <1>4, <1>5, <1>6 DEF Calls

LEMMA CallCx ==
  ASSUME NEW m \in 0 .. MaxDepth_c, NEW kept \in BOOLEAN,
         NEW x, x = [Cx("eval", FALSE) EXCEPT !.keeperr = kept, !.env = m]
  PROVE  x \in Entries /\ x.type = "eval" /\ x.env = m /\ x.loop = 0
<1>1. 0 \in 0 .. MaxDepth_c
  BY Bounds
<1> QED BY <1>1 DEF Cx, Entries

LEMMA EvalStep ==
  ASSUME Always(cstack, cxstack), NEW cs \in Seq(Entries), Len(cs) = Len(cxstack),
         NEW fs, NEW kept \in BOOLEAN, Always(fs, cs), Core(fs, cs, Len(cs)), Held(fs, cs),
         MayCallEval(fs, cs), Len(fs) + 1 <= MaxDepth_c, Len(cxstack) + 3 <= MaxDepth_cx,
         CallEval(fs, Append(cs, Cx("stackinfo", FALSE)), kept), errsv \in {0} \cup Errors,
         restart' \in [env : 0 .. MaxDepth_c, loop : 0 .. MaxDepth_c]
  PROVE  ExceptionInv'
<1> DEFINE bs == Append(cs, Cx("stackinfo", FALSE))
<1>0. PICK x : x = [Cx("eval", FALSE) EXCEPT !.keeperr = kept, !.env = TopEnv(fs)]
  OBVIOUS
<1>f. PICK f : f = CFrame("call_sv_eval", FALSE, Len(bs), 0)
  OBVIOUS
<1> DEFINE gs == Append(fs, f)
<1>1. /\ cxstack' = bs \o <<x, Cx("sub", FALSE)>>
      /\ cstack' = Append(fs, [Entered("call_sv_eval") EXCEPT !.base = Len(bs)])
      /\ errsv' = (IF kept THEN errsv ELSE 0)
      /\ ctl' = [at |-> "run", loop |-> Len(cstack')]
  BY <1>0 DEF CallEval, Run
<1>2. cstack' = gs
  BY <1>f, <1>1, EnteredIs
<1>3. /\ fs \in Seq(CFrames) /\ CStack(fs) /\ Len(fs) \in Nat /\ Len(fs) > 0 /\ Len(cs) \in Nat
      /\ FlagInv(fs) /\ TopEnv(fs) \in 1 .. Len(fs)
  BY AlwaysHas DEF Always
<1>4. /\ bs \in Seq(Entries) /\ Len(bs) = Len(cs) + 1 /\ bs[Len(cs) + 1] = Cx("stackinfo", FALSE)
      /\ \A k \in 1 .. Len(cs) : bs[k] = cs[k]
  BY SubCx, EntryPlus
<1> HIDE DEF bs
<1>5. TopEnv(fs) \in 0 .. MaxDepth_c /\ TopEnv(fs) <= Len(fs) /\ Len(bs) \in 0 .. MaxDepth_cx
  BY <1>3, <1>4, Bounds
<1>6. x \in Entries /\ x.type = "eval" /\ x.env = TopEnv(fs) /\ x.loop = 0
  BY <1>0, <1>5, CallCx, ZenonT(60)
<1>7. f \in CFrames /\ f.fn = "call_sv_eval" /\ f.base = Len(bs)
  <2>1. "call_sv_eval" \in Fns /\ 0 \in {0} \cup Errors
    BY DEF Fns, Envs
  <2>2. PICK b \in 0 .. MaxDepth_cx : b = Len(bs)
    BY <1>5
  <2>3. f = CFrame("call_sv_eval", FALSE, b, 0)
    BY <1>f, <2>2
  <2>4. f \in CFrames
    BY <2>1, <2>3, PlainFrameIs
  <2>5. f.fn = "call_sv_eval" /\ f.base = b
    BY <2>3 DEF CFrame
  <2> QED BY <2>2, <2>4, <2>5
<1>8. f.catch = FALSE
  BY <1>f, FlagDown
<1>9. Plus(fs, f, gs)
  BY <1>3, <1>7, FramePlus
<1> HIDE DEF gs
<1>10. gs \in Seq(CFrames) /\ Len(gs) = Len(fs) + 1 /\ gs[Len(gs)] = f
  BY <1>9 DEF Plus
<1>11. /\ cxstack' \in Seq(Entries) /\ Len(cxstack') = Len(bs) + 2
       /\ \A k \in 1 .. Len(bs) : cxstack'[k] = bs[k]
       /\ cxstack'[Len(bs) + 1] = x /\ cxstack'[Len(bs) + 2] = Cx("sub", FALSE)
  <2>1. PICK b \in Entries : b = Cx("sub", FALSE)
    BY SubCx
  <2>2. cxstack' = bs \o <<x, b>>
    BY <1>1, <2>1
  <2>3. /\ cxstack' \in Seq(Entries) /\ Len(cxstack') = Len(bs) + 2
        /\ \A k \in 1 .. Len(bs) : cxstack'[k] = bs[k]
        /\ cxstack'[Len(bs) + 1] = x /\ cxstack'[Len(bs) + 2] = b
    BY <1>4, <1>6, <2>2, CallEntries
  <2> QED BY <2>1, <2>3
<1>12. /\ Len(cs) + 1 \in 1 .. Len(bs) /\ Len(bs) + 1 = Len(cs) + 2 /\ Len(bs) + 2 = Len(cs) + 3
       /\ \A k \in 1 .. Len(cs) : k \in 1 .. Len(bs)
  BY <1>3, <1>4
<1>13. /\ Len(cxstack') = Len(cs) + 3 /\ \A k \in 1 .. Len(cs) : cxstack'[k] = cs[k]
       /\ cxstack'[Len(cs) + 1] = Cx("stackinfo", FALSE) /\ cxstack'[Len(cs) + 2] = x
       /\ cxstack'[Len(cs) + 3] = Cx("sub", FALSE)
  BY <1>4, <1>11, <1>12
<1>14. PStack(cs) /\ PStack(cxstack') /\ Len(cs) <= Len(cxstack')
  <2>1. PStack(cs) /\ PStack(cxstack')
    BY <1>11, EntryFacts
  <2> QED BY <1>3, <1>13, <2>1
<1>15. Pushes(fs, gs, cs, cxstack')
  <2>1. Calls(fs, cs, f, cxstack')
    BY <1>3, <1>4, <1>5, <1>6, <1>7, <1>13, EvalCalls
  <2> QED BY <1>9, <1>13, <1>14, <2>1, PushesIs
<1>16. Core(gs, cxstack', Len(cxstack')) /\ Held(gs, cxstack')
  BY <1>15, PushKeeps
<1>17. FlagInv(gs)
  <2>1. f.fn \notin {"call_sv", "perl_run"}
    BY <1>7
  <2> QED BY <1>3, <1>8, <1>9, <2>1, FlagsPlus
<1>18. /\ Len(gs) \in Nat /\ Len(gs) > 0 /\ Len(gs) \in 0 .. MaxDepth_c /\ Len(gs) <= MaxDepth_c + 1
       /\ Len(cxstack') <= MaxDepth_cx
  BY <1>3, <1>10, <1>13, Bounds
<1>19. MayRun(gs, Len(gs), Len(cxstack')) /\ gs[Len(gs)].fn \in Loops
  <2>1. gs[Len(gs)].fn \in CallFns /\ gs[Len(gs)].fn \in Loops
    BY <1>7, <1>10 DEF CallFns, Loops
  <2>2. Len(cxstack') >= gs[Len(gs)].base + 2
    BY <1>3, <1>4, <1>7, <1>10, <1>13
  <2> QED BY <1>18, <2>1, <2>2, RunsItsOwn
<1>20. Fits(cstack', cxstack', ctl', restart', errsv')
  <2>1. errsv' \in {0} \cup Errors
    BY <1>1
  <2> QED BY <1>1, <1>2, <1>10, <1>11, <1>17, <1>18, <2>1, AtRunTyped DEF Fits
<1>21. Whole(cstack', cxstack', ctl', restart') /\ ctl'.at # "jump3"
  BY <1>1, <1>2, <1>16, <1>19, WholeRun
<1> QED BY <1>20, <1>21, StepTo

LEMMA WorkIs ==
  ASSUME ExceptionInv, NEW fns, Innermost(fns), cxstack # <<>> \/ "my_exit" \notin fns
  PROVE  /\ ctl.at = "work" /\ cstack[Len(cstack)].fn \in fns /\ Always(cstack, cxstack)
         /\ Core(cstack, cxstack, Settled(cstack, cxstack, ctl)) /\ Held(cstack, cxstack)
         /\ Static(cstack) /\ AtWork(cstack, cxstack)
<1>1. ctl.at = "work" /\ cstack[Len(cstack)].fn \in fns
  BY DEF Innermost, Inner, Last
<1>2. cxstack # <<>> \/ cstack[Len(cstack)].fn # "my_exit"
  BY <1>1
<1> QED BY <1>1, <1>2, InvWork, InvAlways

\* What is to be done when a scope is left is done with the stack as it is.
LEMMA LeaveScopeKeeps ==
  ASSUME ExceptionInv, LeaveScope
  PROVE  ExceptionInv'
<1> DEFINE cxs == Labelled(cxstack, "")
           fs == cstack
<1>1. /\ Innermost(Unwinders) /\ cxstack # <<>> /\ RoomFor(1, 3) /\ restart' = restart
      /\ \/ /\ cxstack[Len(cxstack)].onleave = "DESTROY"
            /\ CallEval(cstack, Append(cxs, Cx("stackinfo", FALSE)), TRUE)
         \/ /\ cxstack[Len(cxstack)].onleave = "STORE"
            /\ CallPlain(cxs) /\ errsv' = errsv
  BY DEF LeaveScope, Last, Labelled
<1>2. /\ ctl.at = "work" /\ fs[Len(fs)].fn \in Unwinders /\ Always(fs, cxstack)
      /\ Core(fs, cxstack, Settled(fs, cxstack, ctl)) /\ Held(fs, cxstack)
      /\ AtWork(fs, cxstack)
  BY <1>1, WorkIs
<1>3. Settled(fs, cxstack, ctl) = Len(cxstack)
  BY <1>1 DEF Settled
<1>4. Core(fs, cxstack, Len(cxstack))
  BY <1>2, <1>3
<1>5. cxstack \in Seq(Entries) /\ fs \in Seq(CFrames) /\ CStack(fs) /\ Len(cxstack) \in Nat
      /\ Len(fs) \in Nat /\ Len(fs) \in 1 .. Len(fs) /\ FlagInv(fs)
      /\ Len(fs) <= MaxDepth_c + 1 /\ Len(cxstack) <= MaxDepth_cx
  BY <1>2, AlwaysHas
<1>6. Len(cxstack) > 0
  BY <1>1, <1>5, NotEmpty
<1>7. /\ cxs \in Seq(Entries) /\ PStack(cxstack) /\ PStack(cxs) /\ Len(cxs) = Len(cxstack)
      /\ cxs[Len(cxstack)].onleave = ""
      /\ \A k \in 1 .. Len(cxstack) : /\ SameEntry(cxstack[k], cxs[k])
                                      /\ k < Len(cxstack) => cxs[k] = cxstack[k]
  BY <1>5, <1>6, EntryLabelled
<1> HIDE DEF cxs
<1>8. Relabels(fs, cxstack, cxs)
  BY <1>7 DEF Relabels
<1>9. Core(fs, cxs, Len(cxs)) /\ Held(fs, cxs)
  BY <1>2, <1>4, <1>5, <1>8, RelabelKeeps
<1>10. Always(fs, cxs)
  BY <1>5, <1>7, AlwaysIs
<1>11. fs[Len(fs)].fn = "leave" => Len(cxs) >= fs[Len(fs)].base + 1
  BY <1>2, <1>7 DEF AtWork
<1>12. restart' \in [env : 0 .. MaxDepth_c, loop : 0 .. MaxDepth_c] /\ errsv \in {0} \cup Errors
  BY <1>1, InvAlways
<1>13. CASE /\ cxstack[Len(cxstack)].onleave = "DESTROY"
            /\ CallEval(cstack, Append(cxs, Cx("stackinfo", FALSE)), TRUE)
  <2>1. MayCallEval(fs, cxs)
    BY <1>2, <1>11 DEF MayCallEval, Unwinders
  <2>2. Len(fs) + 1 <= MaxDepth_c /\ Len(cxstack) + 3 <= MaxDepth_cx
    BY <1>1 DEF RoomFor
  <2>3. PICK kept \in BOOLEAN : kept = TRUE
    OBVIOUS
  <2>4. CallEval(cstack, Append(cxs, Cx("stackinfo", FALSE)), kept)
    BY <1>13, <2>3
  <2> QED BY <1>2, <1>7, <1>9, <1>10, <1>12, <2>1, <2>2, <2>4, EvalStep
<1>14. CASE /\ cxstack[Len(cxstack)].onleave = "STORE" /\ CallPlain(cxs) /\ errsv' = errsv
  <2>1. fs[Len(fs)].fn = "my_exit" => NoEval(cxs, Len(cxs))
    <3>1. SUFFICES ASSUME fs[Len(fs)].fn = "my_exit" PROVE NoEval(cxs, Len(cxs))
      OBVIOUS
    <3>2. NoExit(fs, Len(fs) + 1, Len(fs))
      <4>1. \A i \in Len(fs) + 1 .. Len(fs) : FALSE
        BY <1>5
      <4> QED BY <4>1 DEF NoExit
    <3>3. NoEval(cxstack, Len(cxstack)) \/ NoStore(cxstack, Len(cxstack))
      BY <1>4, <1>5, <3>1, <3>2 DEF Core, ExitsClean
    <3>4. Len(cxstack) \in 1 .. Len(cxstack) /\ Len(cxstack) <= Len(cxstack)
      BY <1>5, <1>6
    <3>5. NoEval(cxstack, Len(cxstack))
      BY <1>14, <3>3, <3>4 DEF NoStore
    <3>6. \A p \in 1 .. Len(cxstack) : cxs[p].type = cxstack[p].type
      BY <1>7 DEF SameEntry
    <3> QED BY <1>7, <3>5, <3>6 DEF NoEval
  <2>2. MayCallPlain(fs, cxs)
    BY <1>2, <1>11, <2>1 DEF MayCallPlain, Unwinders, Loops
  <2>3. RoomFor(1, 2)
    <3>1. Len(fs) + 1 <= MaxDepth_c /\ Len(cxstack) + 3 <= MaxDepth_cx
      BY <1>1 DEF RoomFor
    <3>2. Len(cxstack) + 2 <= MaxDepth_cx
      BY <1>5, <3>1, Bounds
    <3> QED BY <3>1, <3>2 DEF RoomFor
  <2>4. errsv' \in {0} \cup Errors
    BY <1>12, <1>14
  <2> QED BY <1>2, <1>7, <1>9, <1>12, <1>14, <2>2, <2>3, <2>4, PlainStep
<1> QED BY <1>1, <1>13, <1>14

\* BEGIN is called by the parser.
LEMMA BeginKeeps ==
  ASSUME ExceptionInv, Begin
  PROVE  ExceptionInv'
<1> DEFINE f == CFrame("call_list", FALSE, Len(cxstack), 0)
           gs == Append(cstack, f)
<1>1. /\ Innermost({"yyparse"}) /\ RoomFor(2, 3) /\ restart' = restart
      /\ CallEval(Append(cstack, Entered("call_list")), Append(cxstack, Cx("stackinfo", FALSE)), FALSE)
  BY DEF Begin
<1>2. /\ cstack[Len(cstack)].fn = "yyparse" /\ Always(cstack, cxstack)
      /\ Core(cstack, cxstack, Settled(cstack, cxstack, ctl)) /\ Held(cstack, cxstack)
      /\ Static(cstack) /\ AtWork(cstack, cxstack)
  BY <1>1, WorkIs
<1>3. Core(cstack, cxstack, Len(cxstack)) /\ cstack[Len(cstack)].base = Len(cxstack)
  BY <1>2 DEF Settled, Unwinders, AtWork
<1>4. /\ cxstack \in Seq(Entries) /\ cstack \in Seq(CFrames) /\ Len(cxstack) \in 0 .. MaxDepth_cx
      /\ Len(cstack) \in Nat /\ FlagInv(cstack) /\ Len(cxstack) \in Nat /\ Len(cxstack) <= MaxDepth_cx
      /\ PStack(cxstack) /\ Len(cxstack) <= Len(cxstack)
  BY <1>2, AlwaysHas
<1>5. f \in CFrames /\ f.fn = "call_list" /\ f.base = Len(cxstack)
  <2>1. "call_list" \in Fns /\ 0 \in {0} \cup Errors
    BY DEF Fns, Envs
  <2> QED BY <1>4, <2>1, PlainFrameIs
<1>6. f.catch = FALSE
  BY FlagDown
<1>7. f = Entered("call_list")
  BY EnteredIs
<1> HIDE DEF f
<1>8. Plus(cstack, f, gs)
  BY <1>4, <1>5, FramePlus
<1>9. Calls(cstack, cxstack, f, cxstack)
  <2>1. Callers(f.fn) = {"yyparse"}
    BY <1>5 DEF Callers
  <2>2. MayCall(cstack, f)
    BY <1>2, <1>3, <1>5, <2>1 DEF MayCall, Loops
  <2>3. Low(f) = Len(cxstack) /\ f.fn \notin CallFns
    BY <1>5 DEF Low, CallFns
  <2> QED BY <1>5, <2>2, <2>3 DEF Calls
<1>10. Pushes(cstack, gs, cxstack, cxstack)
  BY <1>4, <1>8, <1>9, PushesIs
<1>11. Core(gs, cxstack, Len(cxstack)) /\ Held(gs, cxstack)
  BY <1>2, <1>3, <1>10, PushKeeps
<1>12. gs \in Seq(CFrames) /\ Len(gs) = Len(cstack) + 1 /\ gs[Len(gs)] = f
  BY <1>8 DEF Plus
<1>13. FlagInv(gs)
  BY <1>4, <1>5, <1>6, <1>8, FlagsPlus
<1>14. CallEval(gs, Append(cxstack, Cx("stackinfo", FALSE)), FALSE)
  BY <1>1, <1>7
<1> HIDE DEF gs
<1>15. /\ Len(gs) + 1 <= MaxDepth_c /\ Len(gs) <= MaxDepth_c + 1
       /\ Len(cxstack) + 3 <= MaxDepth_cx
  <2>1. Len(cstack) + 2 <= MaxDepth_c /\ Len(cxstack) + 3 <= MaxDepth_cx
    BY <1>1 DEF RoomFor
  <2> QED BY <1>4, <1>12, <2>1, Bounds
<1>16. Always(gs, cxstack)
  BY <1>4, <1>12, <1>13, <1>15, AlwaysIs
<1>17. MayCallEval(gs, cxstack)
  BY <1>5, <1>12 DEF MayCallEval
<1>18. PICK kept \in BOOLEAN : kept = FALSE
  OBVIOUS
<1>19. CallEval(gs, Append(cxstack, Cx("stackinfo", FALSE)), kept)
  BY <1>14, <1>18
<1>20. restart' \in [env : 0 .. MaxDepth_c, loop : 0 .. MaxDepth_c] /\ errsv \in {0} \cup Errors
  BY <1>1, InvAlways
<1> QED BY <1>2, <1>4, <1>11, <1>15, <1>16, <1>17, <1>19, <1>20, EvalStep

-----------------------------------------------------------------------------
(* Perl's stack is left.                                                   *)

\* An unwinder is about to pop an entry with nothing more to do.
LEMMA LeavesIs ==
  ASSUME ExceptionInv, NEW fn \in Unwinders, Leaves(fn)
  PROVE  /\ ctl.at = "work" /\ cstack[Len(cstack)].fn = fn /\ Always(cstack, cxstack)
         /\ Core(cstack, cxstack, Len(cxstack) - 1) /\ Held(cstack, cxstack)
         /\ Static(cstack) /\ AtWork(cstack, cxstack)
         /\ fn = "leave" /\ Len(cxstack) = cstack[Len(cstack)].base + 1 =>
              Core(cstack, cxstack, Len(cxstack))
         /\ Len(cxstack) > 0 /\ Len(cxstack) - 1 \in Nat /\ Len(cxstack) \in Nat
         /\ Front(cxstack) \in Seq(Entries) /\ PStack(cxstack) /\ PStack(Front(cxstack))
         /\ Len(Front(cxstack)) = Len(cxstack) - 1 /\ Len(cxstack) = Len(Front(cxstack)) + 1
         /\ Prefix(cxstack, Front(cxstack), Len(cxstack) - 1)
         /\ Prefix(cxstack, Front(cxstack), Len(Front(cxstack)))
         /\ Len(Front(cxstack)) <= MaxDepth_cx
<1>1. Innermost({fn}) /\ cxstack # <<>> /\ cxstack[Len(cxstack)].onleave = ""
  BY DEF Leaves, Last
<1>2. /\ ctl.at = "work" /\ cstack[Len(cstack)].fn = fn /\ Always(cstack, cxstack)
      /\ Core(cstack, cxstack, Settled(cstack, cxstack, ctl)) /\ Held(cstack, cxstack)
      /\ Static(cstack) /\ AtWork(cstack, cxstack)
  <2>1. PICK fns : fns = {fn}
    OBVIOUS
  <2>2. Innermost(fns)
    BY <1>1, <2>1
  <2>3. cstack[Len(cstack)].fn \in fns
    BY <1>1, <2>2, WorkIs
  <2> QED BY <1>1, <2>1, <2>2, <2>3, WorkIs
<1>3. cxstack \in Seq(Entries) /\ Len(cxstack) \in Nat /\ Len(cxstack) <= MaxDepth_cx
  BY <1>2, AlwaysHas
<1>4. Len(cxstack) > 0
  BY <1>1, <1>3, NotEmpty
<1>5. /\ Front(cxstack) \in Seq(Entries) /\ PStack(cxstack) /\ PStack(Front(cxstack))
      /\ Len(Front(cxstack)) = Len(cxstack) - 1 /\ Len(cxstack) = Len(Front(cxstack)) + 1
      /\ Prefix(cxstack, Front(cxstack), Len(cxstack) - 1)
      /\ Prefix(cxstack, Front(cxstack), Len(Front(cxstack)))
  BY <1>3, <1>4, EntryMinus
<1>6. Len(cxstack) - 1 \in Nat /\ Len(cxstack) - 1 <= Len(cxstack) /\ Len(cxstack) - 1 <= MaxDepth_cx
  BY <1>3, <1>4, Bounds
<1>7. \/ Settled(cstack, cxstack, ctl) = Len(cxstack) - 1
      \/ Settled(cstack, cxstack, ctl) = Len(cxstack)
  BY DEF Settled
<1>8. Core(cstack, cxstack, Len(cxstack) - 1)
  BY <1>2, <1>3, <1>6, <1>7, CoreDown
<1>9. fn = "leave" /\ Len(cxstack) = cstack[Len(cstack)].base + 1 =>
        Settled(cstack, cxstack, ctl) = Len(cxstack)
  BY <1>2 DEF Settled
<1> QED BY <1>2, <1>3, <1>4, <1>5, <1>6, <1>8, <1>9

\* One more entry is off, and the function goes on.
LEMMA EntryPopped ==
  ASSUME ExceptionInv, NEW fn \in Unwinders, Leaves(fn), cstack' = cstack, cxstack' = Front(cxstack),
         ctl' = ctl, errsv' = errsv, restart' = restart,
         fn = "leave" => Len(cxstack') > cstack[Len(cstack)].base,
         fn = "die_unwind" => cxstack[Len(cxstack)].type # "eval"
  PROVE  ExceptionInv'
<1>1. /\ ctl.at = "work" /\ cstack[Len(cstack)].fn = fn /\ Always(cstack, cxstack)
      /\ Core(cstack, cxstack, Len(cxstack) - 1) /\ Held(cstack, cxstack)
      /\ Len(cxstack) > 0 /\ Len(cxstack) \in Nat
      /\ cxstack' \in Seq(Entries) /\ PStack(cxstack) /\ PStack(cxstack')
      /\ Len(cxstack') = Len(cxstack) - 1 /\ Len(cxstack) = Len(cxstack') + 1
      /\ Prefix(cxstack, cxstack', Len(cxstack) - 1) /\ Len(cxstack') <= MaxDepth_cx
  BY LeavesIs
<1>2. /\ cstack \in Seq(CFrames) /\ CStack(cstack) /\ FlagInv(cstack)
      /\ Len(cstack) <= MaxDepth_c + 1 /\ cstack[Len(cstack)].base \in Nat
  BY <1>1, AlwaysHas
<1>3. Len(cxstack') \in Nat
  BY <1>1, EntryFacts
<1>4. fn = "leave" => /\ Len(cxstack) > cstack[Len(cstack)].base
                      /\ Len(cxstack') >= cstack[Len(cstack)].base + 1
  BY <1>1, <1>2, <1>3
<1>5. PopsAt(cstack, cxstack)
  BY <1>1, <1>4 DEF PopsAt
<1>6. Core(cstack, cxstack', Len(cxstack')) /\ Held(cstack, cxstack')
  BY <1>1, <1>2, <1>5, PopKeeps
<1>7. AtWork(cstack, cxstack')
  BY <1>1, <1>4, <1>6 DEF AtWork, Unwinders
<1>8. Whole(cstack', cxstack', ctl', restart') /\ ctl'.at # "jump3"
  BY <1>1, <1>3, <1>6, <1>7, WholeWork
<1>9. Fits(cstack', cxstack', ctl', restart', errsv')
  BY <1>1, <1>2, InvAlways DEF Fits
<1> QED BY <1>8, <1>9, StepTo

\* What is under a function that is not perl_run().
LEMMA Callee ==
  ASSUME NEW fs, NEW cxs, Always(fs, cxs), fs[Len(fs)].fn # "perl_run"
  PROVE  /\ Minus(fs, Front(fs)) /\ Len(Front(fs)) \in Nat /\ Len(Front(fs)) > 0
         /\ Len(fs) = Len(Front(fs)) + 1
         /\ Len(Front(fs)) <= MaxDepth_c /\ Len(Front(fs)) \in 0 .. MaxDepth_c
         /\ Len(Front(fs)) <= MaxDepth_c + 1 /\ Front(fs) \in Seq(CFrames)
         /\ CStack(fs) /\ CStack(Front(fs)) /\ SameUpTo(fs, Front(fs), Len(Front(fs)))
<1>1. /\ fs \in Seq(CFrames) /\ Len(fs) \in Nat /\ Len(fs) > 0 /\ Len(fs) <= MaxDepth_c + 1
      /\ fs[1].fn = "perl_run"
  BY AlwaysHas DEF Always, Bottom
<1>2. Minus(fs, Front(fs))
  BY <1>1, FrameMinus
<1>3. /\ Front(fs) \in Seq(CFrames) /\ Len(fs) = Len(Front(fs)) + 1 /\ Len(Front(fs)) = Len(fs) - 1
      /\ CStack(fs) /\ CStack(Front(fs)) /\ SameUpTo(fs, Front(fs), Len(Front(fs)))
  BY <1>2 DEF Minus
<1>4. Len(fs) # 1
  BY <1>1
<1>5. /\ Len(Front(fs)) \in Nat /\ Len(Front(fs)) > 0 /\ Len(Front(fs)) <= MaxDepth_c
      /\ Len(Front(fs)) \in 0 .. MaxDepth_c /\ Len(Front(fs)) <= MaxDepth_c + 1
  BY <1>1, <1>3, <1>4, Bounds
<1> QED BY <1>2, <1>3, <1>5

\* A return to a loop, or to its end.
LEMMA ToLoop ==
  ASSUME cstack' \in Seq(CFrames), cxstack' \in Seq(Entries), Len(cxstack') <= MaxDepth_cx,
         FlagInv(cstack'), Core(cstack', cxstack', Len(cxstack')), Held(cstack', cxstack'),
         cstack'[Len(cstack')].fn \in Loops, Len(cstack') \in 0 .. MaxDepth_c,
         \/ MayRun(cstack', Len(cstack'), Len(cxstack')) /\ ctl' = [at |-> "run", loop |-> Len(cstack')]
         \/ HasEnded(cstack', Len(cstack'), Len(cxstack')) /\ ctl' = [at |-> "null", loop |-> 0],
         errsv' \in {0} \cup Errors, restart' \in [env : 0 .. MaxDepth_c, loop : 0 .. MaxDepth_c]
  PROVE  ExceptionInv'
<1>1. Whole(cstack', cxstack', ctl', restart') /\ ctl'.at # "jump3"
  BY WholeRun, WholeNull
<1>2. Len(cstack') <= MaxDepth_c + 1
  BY Bounds
<1>3. ctl' \in [at : {"run", "work", "null", "jump2", "jump3", "exited"}, loop : 0 .. MaxDepth_c]
  BY AtRunTyped, AtTyped
<1>4. Fits(cstack', cxstack', ctl', restart', errsv')
  BY <1>2, <1>3 DEF Fits
<1> QED BY <1>1, <1>4, StepTo

LEMMA Leave1Keeps ==
  ASSUME ExceptionInv, Leave1
  PROVE  ExceptionInv'
<1> DEFINE fs == cstack
           gs == Front(cstack)
           cx == cxstack[Len(cxstack)]
<1>1. /\ Leaves("leave") /\ cxstack' = Front(cxstack) /\ restart' = restart
      /\ IF Len(cxstack') > cstack[Len(cstack)].base
           THEN cstack' = cstack /\ ctl' = ctl /\ errsv' = errsv
           ELSE /\ cstack' = Front(cstack) /\ errsv' = (IF cx.type = "eval" THEN 0 ELSE errsv)
                /\ IF cx.retop THEN GoesOn(cstack') ELSE Goto("null")
  BY DEF Leave1, Last, Inner
<1>2. "leave" \in Unwinders
  BY DEF Unwinders
<1>3. CASE Len(cxstack') > cstack[Len(cstack)].base
  BY <1>1, <1>2, <1>3, EntryPopped
<1>4. CASE ~(Len(cxstack') > cstack[Len(cstack)].base)
  <2>1. /\ cstack' = Front(cstack) /\ errsv' = (IF cx.type = "eval" THEN 0 ELSE errsv)
        /\ IF cx.retop THEN GoesOn(cstack') ELSE Goto("null")
    BY <1>1, <1>4
  <2>2. /\ fs[Len(fs)].fn = "leave" /\ Always(fs, cxstack) /\ Static(fs) /\ Held(fs, cxstack)
        /\ Len(cxstack) > 0 /\ Len(cxstack) \in Nat
        /\ Len(cxstack) = fs[Len(fs)].base + 1 => Core(fs, cxstack, Len(cxstack))
        /\ cxstack' \in Seq(Entries) /\ PStack(cxstack) /\ PStack(cxstack')
        /\ Len(cxstack') = Len(cxstack) - 1 /\ Len(cxstack) = Len(cxstack') + 1
        /\ Prefix(cxstack, cxstack', Len(cxstack')) /\ Len(cxstack') <= MaxDepth_cx
        /\ AtWork(fs, cxstack)
    BY <1>1, <1>2, LeavesIs
  <2>3. Len(cxstack) >= fs[Len(fs)].base + 1
    BY <2>2 DEF AtWork
  <2>4. fs[Len(fs)].base \in Nat /\ FlagInv(fs)
    BY <2>2, AlwaysHas
  <2>5. Len(cxstack') \in Nat /\ Len(cxstack') <= Len(cxstack) /\ Len(cxstack') <= Len(cxstack')
    BY <2>2
  <2>6. Len(cxstack') = fs[Len(fs)].base /\ Len(cxstack) = fs[Len(fs)].base + 1
    BY <1>4, <2>2, <2>3, <2>4, <2>5
  <2>7. Core(fs, cxstack, Len(cxstack))
    BY <2>2, <2>6
  <2>8. /\ Minus(fs, gs) /\ Len(gs) > 0 /\ Len(fs) = Len(gs) + 1
        /\ Len(gs) \in 0 .. MaxDepth_c /\ gs \in Seq(CFrames)
        /\ CStack(fs) /\ CStack(gs) /\ SameUpTo(fs, gs, Len(gs))
    BY <2>2, Callee
  <2> HIDE DEF gs
  <2>9. Returns(fs, gs, cxstack, cxstack')
    BY <2>2, <2>5, <2>6, <2>8 DEF Returns
  <2>10. Core(gs, cxstack', Len(cxstack')) /\ Held(gs, cxstack')
    BY <2>2, <2>5, <2>7, <2>9, ReturnKeeps
  <2>11. /\ gs[Len(gs)].fn \in Loops
         /\ cxstack[Len(cxstack)].retop => MayRun(gs, Len(gs), Len(cxstack'))
         /\ ~cxstack[Len(cxstack)].retop => HasEnded(gs, Len(gs), Len(cxstack'))
    <3>1. Zones(fs, cxstack, Len(cxstack))
      BY <2>7 DEF Core
    <3> QED BY <2>2, <2>9, <3>1, LeaveGoesTo
  <2>12. FlagInv(gs)
    BY <2>2, <2>4, <2>8, FlagsMinus
  <2>13. cstack' = gs
    BY <2>1 DEF gs
  <2>14. IF cx.retop THEN ctl' = [at |-> "run", loop |-> Len(cstack')] ELSE ctl' = [at |-> "null", loop |-> 0]
    BY <2>1, <2>11, <2>13 DEF GoesOn, Goto, Run, Last
  <2>15. errsv' \in {0} \cup Errors /\ restart' \in [env : 0 .. MaxDepth_c, loop : 0 .. MaxDepth_c]
    BY <1>1, <2>1, InvAlways
  <2>16. \/ MayRun(cstack', Len(cstack'), Len(cxstack')) /\ ctl' = [at |-> "run", loop |-> Len(cstack')]
         \/ HasEnded(cstack', Len(cstack'), Len(cxstack')) /\ ctl' = [at |-> "null", loop |-> 0]
    BY <2>11, <2>13, <2>14
  <2> QED BY <2>2, <2>8, <2>10, <2>11, <2>12, <2>13, <2>15, <2>16, ToLoop
<1> QED BY <1>3, <1>4

LEMMA Unwind1Keeps ==
  ASSUME ExceptionInv, Unwind1
  PROVE  ExceptionInv'
<1> DEFINE fs == cstack
           cx == cxstack[Len(cxstack)]
<1>1. /\ Leaves("die_unwind") /\ cxstack' = Front(cxstack) /\ cstack' = cstack
      /\ IF cx.type = "eval"
           THEN /\ errsv' = (IF cx.keeperr THEN errsv ELSE fs[Len(fs)].err)
                /\ restart' = [env |-> cx.env, loop |-> cx.loop]
                /\ ctl' = [at |-> "jump3", loop |-> 0]
           ELSE ctl' = ctl /\ errsv' = errsv /\ restart' = restart
  BY DEF Unwind1, Last, Inner, Goto
<1>2. "die_unwind" \in Unwinders
  BY DEF Unwinders
<1>3. CASE cx.type # "eval"
  BY <1>1, <1>2, <1>3, EntryPopped
<1>4. CASE cx.type = "eval"
  <2>1. /\ fs[Len(fs)].fn = "die_unwind" /\ Always(fs, cxstack) /\ Held(fs, cxstack)
        /\ Core(fs, cxstack, Len(cxstack) - 1) /\ Len(cxstack) > 0 /\ Len(cxstack) \in Nat
        /\ cxstack' \in Seq(Entries) /\ PStack(cxstack) /\ PStack(cxstack')
        /\ Prefix(cxstack, cxstack', Len(cxstack) - 1) /\ Len(cxstack') <= MaxDepth_cx
    BY <1>1, <1>2, LeavesIs
  <2>2. /\ errsv' = (IF cx.keeperr THEN errsv ELSE fs[Len(fs)].err)
        /\ restart' = [env |-> cx.env, loop |-> cx.loop] /\ ctl' = [at |-> "jump3", loop |-> 0]
    BY <1>1, <1>4
  <2>3. restart'.env = cx.env /\ restart'.loop = cx.loop
    BY <2>2
  <2>4. /\ cxstack \in Seq(Entries) /\ CStack(fs) /\ fs \in Seq(CFrames) /\ FlagInv(fs)
        /\ Len(fs) <= MaxDepth_c + 1 /\ Len(fs) \in 1 .. Len(fs)
    BY <2>1, AlwaysHas
  <2>5. JumpStart(fs, cxstack, cxstack', restart')
    BY <1>4, <2>1, <2>3, <2>4 DEF JumpStart
  <2>6. /\ Core(fs, cxstack', Len(cxstack')) /\ AtJump(fs, cxstack', restart')
        /\ restart'.loop # 0 => ~cx.keeperr
    BY <2>5, JumpStarts
  <2>7. Len(cxstack) \in 1 .. Len(cxstack)
    BY <2>1
  <2>8. cx \in Entries /\ fs[Len(fs)] \in CFrames
    BY <2>4, <2>7, ElementOfSeq
  <2>9. restart' \in [env : 0 .. MaxDepth_c, loop : 0 .. MaxDepth_c]
    BY <2>2, <2>8 DEF Entries
  <2>10. errsv' \in {0} \cup Errors
    <3>1. errsv \in {0} \cup Errors
      BY InvAlways
    <3>2. fs[Len(fs)].err \in {0} \cup Errors
      BY <2>8 DEF CFrames
    <3> QED BY <2>2, <3>1, <3>2
  <2>11. Fits(cstack', cxstack', ctl', restart', errsv')
    BY <1>1, <2>1, <2>2, <2>4, <2>9, <2>10, AtTyped DEF Fits
  <2>12. Whole(cstack', cxstack', ctl', restart')
    BY <1>1, <2>2, <2>6, WholeJump
  <2>13. ErrorArrives'
    BY <1>1, <2>2, <2>6 DEF ErrorArrives, Inner, Last
  <2> QED BY <2>11, <2>12, <2>13 DEF ExceptionInv, Fits, Typed
<1> QED BY <1>3, <1>4

LEMMA Exit1Keeps ==
  ASSUME ExceptionInv, Exit1
  PROVE  ExceptionInv'
<1>1. CASE cxstack = <<>>
  <2>1. /\ ctl' = [at |-> "jump2", loop |-> 0] /\ cxstack' = cxstack /\ cstack' = cstack
        /\ errsv' = errsv /\ restart' = restart
    BY <1>1 DEF Exit1, Goto
  <2>2. Always(cstack, cxstack)
    BY InvAlways
  <2>3. Fits(cstack', cxstack', ctl', restart', errsv')
    BY <2>1, <2>2, InvAlways, AlwaysHas, AtTyped DEF Fits
  <2>4. Exiting(cstack', cxstack', ctl')
    BY <1>1, <2>1 DEF Exiting
  <2> QED BY <2>3, <2>4, StepTo
<1>2. CASE cxstack # <<>>
  <2>1. /\ Leaves("my_exit") /\ cxstack' = Front(cxstack) /\ ctl' = ctl /\ cstack' = cstack
        /\ errsv' = errsv /\ restart' = restart
    BY <1>2 DEF Exit1
  <2>2. "my_exit" \in Unwinders
    BY DEF Unwinders
  <2> QED BY <2>1, <2>2, EntryPopped
<1> QED BY <1>1, <1>2

-----------------------------------------------------------------------------
(* C functions return.                                                     *)

\* What the caller knows of the function that returns.
LEMMA CallerKnows ==
  ASSUME NEW fs, NEW gs, CStack(fs), CStack(gs), Static(fs), Len(fs) = Len(gs) + 1, Len(gs) > 0,
         SameUpTo(fs, gs, Len(gs))
  PROVE  /\ gs[Len(gs)].fn \in Callers(fs[Len(fs)].fn)
         /\ gs[Len(gs)].fn \in Loops /\ fs[Len(fs)].fn # "leave" => MayRun(gs, Len(gs), fs[Len(fs)].base)
         /\ fs[Len(fs)].fn = "call_list" => fs[Len(fs)].base = gs[Len(gs)].base
         /\ gs[Len(gs)].fn = "call_list" => fs[Len(fs)].base = gs[Len(gs)].base + 1
         /\ gs[Len(gs)].fn = "leave" => Low(fs[Len(fs)]) >= gs[Len(gs)].base + 1
         /\ fs[Len(fs)].fn \in {"yyparse", "call_sv_eval"} => fs[Len(fs)].base > 0
<1>1. Len(fs) \in Nat /\ Len(gs) \in Nat
  BY DEF CStack
<1>2. Len(fs) \in 2 .. Len(fs) /\ Len(fs) - 1 = Len(gs) /\ Len(gs) \in 1 .. Len(gs)
  BY <1>1
<1>3. gs[Len(gs)].fn = fs[Len(fs) - 1].fn /\ gs[Len(gs)].base = fs[Len(fs) - 1].base
  BY <1>2 DEF SameUpTo
<1>4. gs[Len(gs)].fn \in Callers(fs[Len(fs)].fn)
  BY <1>2, <1>3 DEF Static, Under
<1>5. /\ fs[Len(fs) - 1].fn \in Loops =>
           \/ MayRun(fs, Len(fs) - 1, fs[Len(fs)].base)
           \/ fs[Len(fs)].fn = "leave" /\ HasEnded(fs, Len(fs) - 1, fs[Len(fs)].base)
      /\ fs[Len(fs)].fn = "call_list" => fs[Len(fs)].base = fs[Len(fs) - 1].base
      /\ fs[Len(fs) - 1].fn = "call_list" => fs[Len(fs)].base = fs[Len(fs) - 1].base + 1
      /\ fs[Len(fs) - 1].fn = "leave" => Low(fs[Len(fs)]) >= fs[Len(fs) - 1].base + 1
      /\ fs[Len(fs)].fn \in {"yyparse", "call_sv_eval"} => fs[Len(fs)].base > 0
  BY <1>2 DEF Static, Heights
<1>6. MayRun(fs, Len(gs), fs[Len(fs)].base) <=> MayRun(gs, Len(gs), fs[Len(fs)].base)
  BY <1>1, <1>2, LoopSame
<1> QED BY <1>2, <1>3, <1>4, <1>5, <1>6

LEMMA OneOff ==
  \A n, b \in Nat : /\ n - 1 >= b + 1 => n >= b + 1 /\ n # b + 1
                    /\ n = b + 1 => n - 1 >= b
OBVIOUS

\* call_sv() with G_EVAL has returned, and left its stackinfo.
LEMMA EvalReturned ==
  ASSUME NEW gs, NEW ds, NEW c, NEW rs, CStack(gs), Len(gs) > 0, Len(ds) \in Nat, Len(ds) > 0,
         ds[Len(ds)].onleave = "", Core(gs, ds, Len(ds) - 1), Held(gs, ds),
         gs[Len(gs)].fn \in Unwinders \cup {"call_list"},
         gs[Len(gs)].fn = "leave" => Len(ds) - 1 >= gs[Len(gs)].base + 1,
         gs[Len(gs)].fn = "call_list" => Len(ds) = gs[Len(gs)].base + 1, c.at = "work"
  PROVE  Whole(gs, ds, c, rs)
<1>1. gs[Len(gs)].base \in Nat
  <2>1. Len(gs) \in Nat /\ Len(gs) > 0
    BY DEF CStack
  <2>2. Len(gs) \in 1 .. Len(gs)
    BY <2>1, Counts
  <2> QED BY <2>2 DEF CStack
<1>0. Len(ds) \in Nat /\ Len(ds) > 0
  OBVIOUS
<1>2. Len(ds) - 1 \in Nat /\ Len(ds) - 1 + 1 = Len(ds)
  BY <1>0, Counts
<1>3. CASE gs[Len(gs)].fn \in Unwinders
  <2>1. gs[Len(gs)].fn = "leave" => Len(ds) >= gs[Len(gs)].base + 1 /\ Len(ds) # gs[Len(gs)].base + 1
    BY <1>0, <1>1, OneOff
  <2>2. AtWork(gs, ds)
    BY <1>3, <2>1 DEF AtWork, Unwinders
  <2> QED BY <1>3, <2>1, <2>2, WholeWork
<1>4. CASE gs[Len(gs)].fn = "call_list"
  <2>1. Zones(gs, ds, Len(ds) - 1) /\ Low(gs[Len(gs)]) = gs[Len(gs)].base
    BY <1>4 DEF Core, Low
  <2>2. Len(ds) - 1 >= Low(gs[Len(gs)])
    <3>1. Len(ds) = gs[Len(gs)].base + 1
      BY <1>4
    <3>2. Len(ds) - 1 >= gs[Len(gs)].base
      BY <1>0, <1>1, <3>1, OneOff
    <3> QED BY <2>1, <3>2
  <2>3. gs[Len(gs)].fn \notin {"docatch", "leave", "perl_run"} \cup CallFns
    BY <1>4 DEF CallFns
  <2>4. Zones(gs, ds, Len(ds) - 1 + 1)
    BY <1>2, <2>1, <2>2, <2>3, ZonesMore
  <2>5. Core(gs, ds, Len(ds))
    BY <1>2, <2>4 DEF Core
  <2>6. AtWork(gs, ds)
    BY <1>4 DEF AtWork
  <2> QED BY <2>5, <2>6, WholeWork
<1> QED BY <1>3, <1>4

\* The end of a loop is the end of the functions that C has called.
LEMMA EndedAt ==
  ASSUME NEW fs, NEW n, Len(fs) \in Nat, Len(fs) > 0, HasEnded(fs, Len(fs), n),
         fs[Len(fs)].fn \in {"perl_run"} \cup CallFns
  PROVE  n = IF fs[Len(fs)].fn = "perl_run" THEN 0 ELSE fs[Len(fs)].base + 1
<1>1. Len(fs) \in 1 .. Len(fs) /\ \A q \in Len(fs) + 1 .. Len(fs) : FALSE
  OBVIOUS
<1>2. LoopFor(fs, Len(fs), Len(fs))
  BY <1>1 DEF LoopFor
<1> QED BY <1>1, <1>2 DEF HasEnded

\* At the end of a loop: what all cases have.
AtEnd(fs, cxs) ==
  /\ Always(fs, cxs) /\ Core(fs, cxs, Len(cxs)) /\ Held(fs, cxs) /\ Static(fs)
  /\ fs[Len(fs)].fn \in Loops /\ HasEnded(fs, Len(fs), Len(cxs))

LEMMA DocatchEnds ==
  ASSUME ExceptionInv, ctl.at = "null", AtEnd(cstack, cxstack), cstack[Len(cstack)].fn = "docatch",
         cstack' = Front(cstack), cxstack' = cxstack, ctl' = ctl, errsv' = errsv, restart' = restart
  PROVE  ExceptionInv'
<1> DEFINE fs == cstack
           gs == Front(cstack)
<1>1. /\ cxstack \in Seq(Entries) /\ PStack(cxstack) /\ Len(cxstack) \in Nat /\ FlagInv(fs)
      /\ Len(cxstack) <= MaxDepth_cx /\ Len(cxstack) <= Len(cxstack) /\ Len(fs) \in Nat
  BY AlwaysHas DEF AtEnd
<1>2. /\ Minus(fs, gs) /\ Len(gs) \in Nat /\ Len(gs) > 0 /\ Len(fs) = Len(gs) + 1
      /\ Len(gs) <= MaxDepth_c + 1 /\ gs \in Seq(CFrames)
      /\ CStack(fs) /\ CStack(gs) /\ SameUpTo(fs, gs, Len(gs))
  BY Callee DEF AtEnd
<1> HIDE DEF gs
<1>3. Returns(fs, gs, cxstack, cxstack)
  BY <1>1, <1>2 DEF Returns, Prefix, AtEnd
<1>4. Core(gs, cxstack, Len(cxstack)) /\ Held(gs, cxstack)
  BY <1>1, <1>3, ReturnKeeps DEF AtEnd
<1>5. gs[Len(gs)].fn \in Loops
  BY <1>2, CallerKnows DEF AtEnd, Callers
<1>6. HasEnded(gs, Len(gs), Len(cxstack))
  <2>1. Len(gs) \in 1 .. Len(gs)
    BY <1>2
  <2>2. HasEnded(fs, Len(gs), Len(cxstack))
    <3>1. \A r \in 1 .. Len(gs) : LoopFor(fs, r, Len(gs)) => LoopFor(fs, r, Len(fs))
      <4>1. /\ \A r \in 1 .. Len(gs) : r \in 1 .. Len(fs)
            /\ \A r \in 1 .. Len(gs) : \A q \in r + 1 .. Len(fs) : q \in r + 1 .. Len(gs) \/ q = Len(fs)
        BY <1>2
      <4> QED BY <4>1 DEF LoopFor
    <3>2. \A r \in 1 .. Len(gs) : r \in 1 .. Len(fs)
      BY <1>2
    <3> QED BY <3>1, <3>2 DEF HasEnded, AtEnd
  <2> QED BY <1>2, <2>1, <2>2, LoopSame
<1>7. FlagInv(gs)
  BY <1>1, <1>2, FlagsMinus
<1>8. cstack' = gs
  BY DEF gs
<1>9. Fits(cstack', cxstack', ctl', restart', errsv')
  BY <1>1, <1>2, <1>7, <1>8, InvAlways DEF Fits
<1>10. Whole(cstack', cxstack', ctl', restart') /\ ctl'.at # "jump3"
  BY <1>4, <1>5, <1>6, <1>8 DEF Whole, Control, AtNull, Settled
<1> QED BY <1>9, <1>10, StepTo

LEMMA GoOn ==
  ASSUME NEW gs, GoesOn(gs)
  PROVE  /\ gs[Len(gs)].fn \in Loops => ctl' = [at |-> "run", loop |-> Len(gs)]
         /\ gs[Len(gs)].fn \notin Loops => ctl' = [at |-> "work", loop |-> 0]
BY DEF GoesOn, Run, Goto, Last

LEMMA CallEnds ==
  ASSUME ExceptionInv, AtEnd(cstack, cxstack), cstack[Len(cstack)].fn = "call_sv",
         cstack' = Flagged(Front(cstack), TopEnv(Front(cstack)), cstack[Len(cstack)].catch),
         cxstack' = SubSeq(cxstack, 1, cstack[Len(cstack)].base), GoesOn(Front(cstack)),
         errsv' = errsv, restart' = restart
  PROVE  ExceptionInv'
<1> DEFINE fs == cstack
           out == Front(cstack)
           b == cstack[Len(cstack)].base
           e == TopEnv(out)
           gs == Flagged(out, e, cstack[Len(cstack)].catch)
<1>1. /\ cxstack \in Seq(Entries) /\ Len(cxstack) \in Nat /\ FlagInv(fs) /\ b \in Nat
      /\ Len(cxstack) <= MaxDepth_cx /\ Len(fs) \in Nat /\ Len(fs) > 0 /\ Len(fs) \in 1 .. Len(fs)
  BY AlwaysHas DEF AtEnd
<1>2. /\ Minus(fs, out) /\ Len(out) \in Nat /\ Len(out) > 0 /\ Len(fs) = Len(out) + 1
      /\ Len(out) <= MaxDepth_c + 1 /\ Len(out) \in 0 .. MaxDepth_c /\ out \in Seq(CFrames)
      /\ CStack(fs) /\ CStack(out) /\ SameUpTo(fs, out, Len(out))
  BY Callee DEF AtEnd
<1>3. /\ \A i \in 1 .. Len(out) : out[i] = fs[i]
      /\ Bottom(fs) /\ CatchFlags(fs) /\ OldFlags(fs)
  BY <1>1, <1>2 DEF Minus, FlagInv
<1> HIDE DEF out
<1>4. /\ e \in 1 .. Len(out) /\ out[e].fn \in Envs
      /\ \A i \in e + 1 .. Len(out) : out[i].fn \notin Envs
  <2>1. \A i \in 1 .. Len(out) : i <= Len(fs)
    BY <1>2
  <2>2. \A i \in 1 .. Len(out) : \/ i <= Len(fs) /\ out[i].fn = fs[i].fn /\ out[i].base = fs[i].base
                                 \/ i > Len(fs) /\ out[i].fn # "perl_run"
    BY <1>3, <2>1
  <2>3. Bottom(out)
    BY <1>1, <1>2, <1>3, <2>2, BottomSame
  <2>4. DOMAIN out = 1 .. Len(out)
    BY <1>2, LenProperties
  <2> QED BY <1>2, <2>3, <2>4, TopEnvIs
<1> HIDE DEF e
<1>5. /\ gs \in Seq(CFrames) /\ CStack(gs) /\ Len(gs) = Len(out) /\ SameUpTo(out, gs, Len(out))
      /\ gs[e].catch = fs[Len(fs)].catch /\ \A i \in 1 .. Len(out) : i # e => gs[i] = out[i]
  <2>1. fs[Len(fs)].catch \in BOOLEAN
    BY <1>1, <1>2 DEF CStack
  <2> QED BY <1>2, <1>4, <2>1, FrameFlagged
<1> HIDE DEF gs
<1>6. SameUpTo(fs, gs, Len(gs))
  BY <1>2, <1>5 DEF SameUpTo
<1>7. Len(cxstack) = b + 1
  BY <1>1, EndedAt DEF AtEnd, CallFns
<1>8. b \in 0 .. Len(cxstack) /\ b <= Len(cxstack) /\ b <= MaxDepth_cx /\ b <= b
  BY <1>1, <1>7, Bounds
<1>9. /\ cxstack' \in Seq(Entries) /\ PStack(cxstack) /\ PStack(cxstack') /\ Len(cxstack') = b
      /\ Prefix(cxstack, cxstack', b)
  BY <1>1, <1>8, EntriesTaken
<1>10. Returns(fs, gs, cxstack, cxstack')
  BY <1>2, <1>5, <1>6, <1>8, <1>9 DEF Returns
<1>11. Core(gs, cxstack', Len(cxstack')) /\ Held(gs, cxstack')
  <2>1. Core(fs, cxstack, Len(cxstack)) /\ Held(fs, cxstack) /\ fs[Len(fs)].fn # "call_sv_eval"
    BY DEF AtEnd
  <2>2. Len(cxstack') \in Nat /\ Len(cxstack') <= Len(cxstack')
    BY <1>1, <1>8, <1>9
  <2> HIDE DEF fs
  <2> QED BY <1>10, <2>1, <2>2, ReturnKeeps
<1>12. FlagInv(gs)
  <2>1. \A i \in 1 .. Len(gs) : gs[i].fn = fs[i].fn /\ (i # e => gs[i].catch = fs[i].catch)
    BY <1>3, <1>5, <1>6 DEF SameUpTo
  <2>2. e \in 1 .. Len(gs) /\ fs[e].fn \in Envs /\ \A i \in e + 1 .. Len(gs) : fs[i].fn \notin Envs
    <3>1. \A i \in e + 1 .. Len(out) : i \in 1 .. Len(out)
      BY <1>2, <1>4
    <3> QED BY <1>3, <1>4, <1>5, <3>1
  <2>3. CatchFlags(gs) /\ OldFlags(gs)
    BY <1>2, <1>3, <1>5, <2>1, <2>2, FlagCallEnd, ZenonT(30)
  <2>4. \A i \in 1 .. Len(gs) : i <= Len(fs)
    BY <1>2, <1>5
  <2>5. \A i \in 1 .. Len(gs) : \/ i <= Len(fs) /\ gs[i].fn = fs[i].fn /\ gs[i].base = fs[i].base
                                \/ i > Len(fs) /\ gs[i].fn # "perl_run"
    BY <1>6, <2>4 DEF SameUpTo
  <2>6. Bottom(gs)
    BY <1>1, <1>2, <1>3, <1>5, <2>5, BottomSame
  <2> QED BY <2>3, <2>6 DEF FlagInv
<1>13. cstack' = gs
  BY DEF gs, e, out
<1>14. Len(out) \in 1 .. Len(out)
  BY <1>2
<1>15. /\ gs[Len(gs)].fn \in Loops => ctl' = [at |-> "run", loop |-> Len(gs)]
       /\ gs[Len(gs)].fn \notin Loops => ctl' = [at |-> "work", loop |-> 0]
  BY <1>5, <1>14, GoOn DEF SameUpTo, out
<1>16. /\ gs[Len(gs)].fn \in Callers(fs[Len(fs)].fn)
       /\ gs[Len(gs)].fn \in Loops => MayRun(gs, Len(gs), Len(cxstack'))
       /\ gs[Len(gs)].fn = "call_list" => Len(cxstack') = gs[Len(gs)].base + 1
       /\ gs[Len(gs)].fn = "leave" => Len(cxstack') >= gs[Len(gs)].base + 1
  <2>1. Low(fs[Len(fs)]) = b
    BY DEF Low
  <2> QED BY <1>2, <1>5, <1>6, <1>9, <2>1, CallerKnows DEF AtEnd
<1>17. /\ Len(cxstack') <= MaxDepth_cx /\ Len(gs) \in 0 .. MaxDepth_c /\ Len(gs) <= MaxDepth_c + 1
       /\ Len(cxstack') \in Nat
  BY <1>1, <1>2, <1>5, <1>8, <1>9
<1>18. errsv' \in {0} \cup Errors /\ restart' \in [env : 0 .. MaxDepth_c, loop : 0 .. MaxDepth_c]
  BY InvAlways
<1>19. CASE gs[Len(gs)].fn \in Loops
  <2>1. MayRun(gs, Len(gs), Len(cxstack')) /\ ctl' = [at |-> "run", loop |-> Len(gs)]
    BY <1>15, <1>16, <1>19
  <2> QED BY <1>5, <1>9, <1>11, <1>12, <1>13, <1>17, <1>18, <1>19, <2>1, ToLoop
<1>20. CASE gs[Len(gs)].fn \notin Loops
  <2>1. ctl' = [at |-> "work", loop |-> 0]
    BY <1>15, <1>20
  <2>2. gs[Len(gs)].fn \in Unwinders \cup {"call_list"}
    BY <1>16, <1>20 DEF Callers
  <2>3. AtWork(gs, cxstack')
    BY <1>11, <1>16, <2>2 DEF AtWork, Unwinders
  <2>4. Whole(cstack', cxstack', ctl', restart') /\ ctl'.at # "jump3"
    BY <1>11, <1>13, <1>17, <2>1, <2>3, WholeWork
  <2>5. Fits(cstack', cxstack', ctl', restart', errsv')
    BY <1>5, <1>9, <1>12, <1>13, <1>17, <1>18, <2>1, AtTyped DEF Fits
  <2> QED BY <2>4, <2>5, StepTo
<1> QED BY <1>19, <1>20

LEMMA EvalLeaves ==
  ASSUME NEW fs, NEW gs, NEW cxs, NEW ds, Returns(fs, gs, cxs, ds), Core(fs, cxs, Len(cxs)),
         Held(fs, cxs), Len(ds) \in Nat, Len(ds) > 0
  PROVE  Core(gs, ds, Len(ds) - 1) /\ Held(gs, ds)
<1>0. Len(ds) \in Nat /\ Len(ds) > 0
  OBVIOUS
<1>1. PICK m \in Nat : m = Len(ds) - 1
  BY <1>0, Counts
<1>2. m \in Nat /\ m <= Len(ds) /\ m < Len(ds)
  BY <1>0, <1>1, Counts
<1>3. Core(gs, ds, m) /\ Held(gs, ds)
  BY <1>2, ReturnKeeps
<1> QED BY <1>1, <1>3

LEMMA EvalEnds ==
  ASSUME ExceptionInv, AtEnd(cstack, cxstack), cstack[Len(cstack)].fn = "call_sv_eval",
         cstack' = Front(cstack), cxstack' = SubSeq(cxstack, 1, cstack[Len(cstack)].base),
         GoesOn(Front(cstack)), errsv' \in {0, errsv}, restart' = restart
  PROVE  ExceptionInv'
<1> DEFINE fs == cstack
           gs == Front(cstack)
           b == cstack[Len(cstack)].base
<1>1. /\ cxstack \in Seq(Entries) /\ Len(cxstack) \in Nat /\ FlagInv(fs) /\ b \in Nat
      /\ Len(cxstack) <= MaxDepth_cx /\ Len(fs) \in Nat /\ Len(fs) > 0 /\ Len(fs) \in 1 .. Len(fs)
  BY AlwaysHas DEF AtEnd
<1>2. /\ Minus(fs, gs) /\ Len(gs) \in Nat /\ Len(gs) > 0 /\ Len(fs) = Len(gs) + 1
      /\ Len(gs) <= MaxDepth_c + 1 /\ gs \in Seq(CFrames)
      /\ CStack(fs) /\ CStack(gs) /\ SameUpTo(fs, gs, Len(gs))
  BY Callee DEF AtEnd
<1>3. /\ gs[Len(gs)].fn \notin Loops => ctl' = [at |-> "work", loop |-> 0]
      /\ cstack' = gs
  BY GoOn
<1> HIDE DEF gs
<1>4. Len(cxstack) = b + 1
  BY <1>1, EndedAt DEF AtEnd, CallFns
<1>5. b \in 0 .. Len(cxstack) /\ b <= Len(cxstack) /\ b <= MaxDepth_cx
  BY <1>1, <1>4, Bounds
<1>6. /\ cxstack' \in Seq(Entries) /\ PStack(cxstack) /\ PStack(cxstack') /\ Len(cxstack') = b
      /\ Prefix(cxstack, cxstack', b)
  BY <1>1, <1>5, EntriesTaken
<1>7. Returns(fs, gs, cxstack, cxstack')
  BY <1>2, <1>5, <1>6 DEF Returns
<1>8. /\ gs[Len(gs)].fn \in Callers("call_sv_eval") /\ b > 0
      /\ gs[Len(gs)].fn = "call_list" => b = gs[Len(gs)].base + 1
      /\ gs[Len(gs)].fn = "leave" => b - 1 >= gs[Len(gs)].base + 1
  <2>1. Low(fs[Len(fs)]) = b - 1
    BY DEF Low
  <2> QED BY <1>2, <2>1, CallerKnows DEF AtEnd
<1>9. b - 1 \in Nat /\ b - 1 <= Len(cxstack') /\ b - 1 < Len(cxstack')
  BY <1>1, <1>6, <1>8, Counts
<1>10. Core(gs, cxstack', Len(cxstack') - 1) /\ Held(gs, cxstack')
  <2>1. Core(fs, cxstack, Len(cxstack)) /\ Held(fs, cxstack)
    BY DEF AtEnd
  <2>2. Core(gs, cxstack', b - 1) /\ Held(gs, cxstack')
    <3>1. Len(cxstack') \in Nat /\ Len(cxstack') > 0
      BY <1>1, <1>6, <1>8
    <3>2. PICK ds : ds = cxstack'
      OBVIOUS
    <3>3. Returns(fs, gs, cxstack, ds) /\ Len(ds) \in Nat /\ Len(ds) > 0
      BY <1>7, <3>1, <3>2
    <3> HIDE DEF fs
    <3>4. Core(gs, ds, Len(ds) - 1) /\ Held(gs, ds)
      BY <2>1, <3>3, EvalLeaves
    <3> QED BY <1>6, <3>2, <3>4
  <2> QED BY <1>6, <2>2
<1>11. cxstack'[Len(cxstack')].onleave = ""
  <2>1. Guarded(fs, Len(fs)) /\ NoExit(fs, Len(fs) + 1, Len(fs))
    BY <1>1 DEF Guarded, NoExit
  <2>2. Kept(fs, cxstack, Len(fs))
    BY <1>1, <2>1 DEF AtEnd, Held, Guards
  <2>3. cxstack[b].onleave = ""
    BY <2>2 DEF Kept
  <2>4. b \in 1 .. b
    BY <1>1, <1>8, Counts
  <2> QED BY <1>6, <2>3, <2>4 DEF Prefix
<1>12. gs[Len(gs)].fn \in Unwinders \cup {"call_list"}
  BY <1>8 DEF Callers
<1>13. ctl' = [at |-> "work", loop |-> 0] /\ ctl'.at = "work"
  <2>1. gs[Len(gs)].fn \notin Loops
    BY <1>12 DEF Loops, Unwinders
  <2> QED BY <1>3, <2>1
<1>14. Whole(gs, cxstack', ctl', restart')
  <2>1. Len(cxstack') \in Nat /\ Len(cxstack') > 0
    BY <1>1, <1>6, <1>8
  <2>2. /\ gs[Len(gs)].fn = "leave" => Len(cxstack') - 1 >= gs[Len(gs)].base + 1
        /\ gs[Len(gs)].fn = "call_list" => Len(cxstack') = gs[Len(gs)].base + 1
    BY <1>6, <1>8
  <2> HIDE DEF b
  <2> QED BY <1>2, <1>10, <1>11, <1>12, <1>13, <2>1, <2>2, EvalReturned
<1>15. FlagInv(gs)
  BY <1>1, <1>2, FlagsMinus
<1>16. Fits(cstack', cxstack', ctl', restart', errsv')
  BY <1>1, <1>2, <1>3, <1>5, <1>6, <1>13, <1>15, InvAlways, AtTyped DEF Fits
<1> QED BY <1>3, <1>13, <1>14, <1>16, StepTo

\* exit is called when there is nothing on Perl's stack.
LEMMA ExitStep ==
  ASSUME ExceptionInv, NEW gs, Always(gs, <<>>), Len(gs) <= MaxDepth_c, cxstack = <<>>,
         Unwind(gs, "my_exit", 0), cxstack' = cxstack, errsv' = errsv, restart' = restart
  PROVE  ExceptionInv'
<1> DEFINE f == CFrame("my_exit", FALSE, Len(cxstack), 0)
<1>1. /\ cstack' = Append(gs, [Entered("my_exit") EXCEPT !.err = 0])
      /\ ctl' = [at |-> "work", loop |-> 0]
  BY DEF Unwind, Goto
<1>2. cstack' = Append(gs, f)
  BY <1>1, EnteredIs
<1>3. Len(cxstack) \in 0 .. MaxDepth_cx /\ Len(cxstack) <= MaxDepth_cx /\ cxstack \in Seq(Entries)
  BY InvAlways, AlwaysHas
<1>4. f \in CFrames /\ f.fn = "my_exit" /\ f.catch = FALSE
  <2>1. "my_exit" \in Fns /\ 0 \in {0} \cup Errors
    BY DEF Fns, Unwinders
  <2>2. f \in CFrames /\ f.fn = "my_exit"
    BY <1>3, <2>1, PlainFrameIs, ZenonT(60)
  <2>3. f.catch = FALSE
    BY FlagDown
  <2> QED BY <2>2, <2>3
<1> HIDE DEF f
<1>5. gs \in Seq(CFrames) /\ FlagInv(gs) /\ Len(gs) \in Nat
  BY AlwaysHas
<1>6. Plus(gs, f, cstack')
  BY <1>2, <1>4, <1>5, FramePlus
<1>7. /\ cstack' \in Seq(CFrames) /\ Len(cstack') = Len(gs) + 1 /\ cstack'[Len(cstack')] = f
  BY <1>6 DEF Plus
<1>8. FlagInv(cstack')
  BY <1>4, <1>5, <1>6, FlagsPlus
<1>9. Len(cstack') <= MaxDepth_c + 1
  BY <1>5, <1>7, Bounds
<1>10. Fits(cstack', cxstack', ctl', restart', errsv')
  BY <1>1, <1>3, <1>7, <1>8, <1>9, InvAlways, AtTyped DEF Fits
<1>11. Exiting(cstack', cxstack', ctl')
  BY <1>1, <1>4, <1>7 DEF Exiting
<1> QED BY <1>10, <1>11, StepTo

LEMMA RunEnds ==
  ASSUME ExceptionInv, AtEnd(cstack, cxstack), cstack[Len(cstack)].fn = "perl_run",
         Unwind(cstack, "my_exit", 0), cxstack' = cxstack, errsv' = errsv, restart' = restart
  PROVE  ExceptionInv'
<1>1. /\ Len(cstack) \in Nat /\ Len(cstack) > 0 /\ Len(cxstack) \in Nat /\ cxstack \in Seq(Entries)
      /\ Bottom(cstack) /\ Always(cstack, cxstack)
  BY AlwaysHas DEF AtEnd, Static
<1>2. Len(cxstack) = 0
  BY <1>1, EndedAt DEF AtEnd
<1>3. cxstack = <<>>
  BY <1>1, <1>2, NotEmpty
<1>4. Len(cstack) <= MaxDepth_c
  <2>1. Len(cstack) = 1 \/ Len(cstack) \in 2 .. Len(cstack)
    <3>1. \A n \in Nat : n > 0 => n = 1 \/ n \in 2 .. n
      OBVIOUS
    <3>2. Len(cstack) \in Nat /\ Len(cstack) > 0
      BY <1>1
    <3> QED BY <3>1, <3>2
  <2>2. Len(cstack) = 1
    BY <1>1, <2>1 DEF Bottom
  <2> QED BY <2>2, Bounds
<1> QED BY <1>1, <1>3, <1>4, ExitStep

LEMMA LoopEndsKeeps ==
  ASSUME ExceptionInv, LoopEnds
  PROVE  ExceptionInv'
<1>1. /\ ctl.at = "null" /\ restart' = restart
      /\ \/ /\ cstack[Len(cstack)].fn = "docatch" /\ cstack' = Front(cstack)
            /\ cxstack' = cxstack /\ ctl' = ctl /\ errsv' = errsv
         \/ /\ cstack[Len(cstack)].fn = "call_sv"
            /\ cstack' = Flagged(Front(cstack), TopEnv(Front(cstack)), cstack[Len(cstack)].catch)
            /\ cxstack' = SubSeq(cxstack, 1, cstack[Len(cstack)].base)
            /\ GoesOn(Front(cstack)) /\ errsv' = errsv
         \/ /\ cstack[Len(cstack)].fn = "call_sv_eval" /\ cstack' = Front(cstack)
            /\ cxstack' = SubSeq(cxstack, 1, cstack[Len(cstack)].base)
            /\ GoesOn(Front(cstack)) /\ errsv' \in {0, errsv}
         \/ /\ cstack[Len(cstack)].fn = "perl_run" /\ Unwind(cstack, "my_exit", 0)
            /\ cxstack' = cxstack /\ errsv' = errsv
  BY DEF LoopEnds, Inner, Last, Flagged
<1>2. AtEnd(cstack, cxstack)
  BY <1>1, InvNull, InvAlways DEF AtEnd
<1> QED BY <1>1, <1>2, DocatchEnds, CallEnds, EvalEnds, RunEnds

-----------------------------------------------------------------------------
(* Compilation goes on, or is aborted.                                     *)

LEMMA ParsedKeeps ==
  ASSUME ExceptionInv, Parsed
  PROVE  ExceptionInv'
<1> DEFINE fs == cstack
           gs == Front(cstack)
<1>1. /\ Innermost({"yyparse"}) /\ cstack' = gs /\ GoesOn(gs)
      /\ cxstack' = cxstack /\ errsv' = errsv /\ restart' = restart
  BY DEF Parsed
<1>2. /\ ctl.at = "work" /\ fs[Len(fs)].fn = "yyparse" /\ Always(fs, cxstack)
      /\ Core(fs, cxstack, Settled(fs, cxstack, ctl)) /\ Held(fs, cxstack)
      /\ Static(fs) /\ AtWork(fs, cxstack)
  BY <1>1, WorkIs
<1>3. Settled(fs, cxstack, ctl) = Len(cxstack) /\ Len(cxstack) = fs[Len(fs)].base
  BY <1>2 DEF Settled, AtWork, Unwinders
<1>4. /\ cxstack \in Seq(Entries) /\ PStack(cxstack) /\ Len(cxstack) \in Nat /\ FlagInv(fs)
      /\ Len(cxstack) <= MaxDepth_cx /\ Len(cxstack) <= Len(cxstack)
  BY <1>2, AlwaysHas
<1>5. /\ Minus(fs, gs) /\ Len(gs) \in Nat /\ Len(gs) > 0 /\ Len(fs) = Len(gs) + 1
      /\ Len(gs) \in 0 .. MaxDepth_c /\ gs \in Seq(CFrames)
      /\ CStack(fs) /\ CStack(gs) /\ SameUpTo(fs, gs, Len(gs))
  BY <1>2, Callee
<1>6. gs[Len(gs)].fn \in Loops => ctl' = [at |-> "run", loop |-> Len(gs)]
  BY <1>1, GoOn
<1> HIDE DEF gs
<1>7. Returns(fs, gs, cxstack, cxstack)
  BY <1>2, <1>3, <1>4, <1>5 DEF Returns, Prefix
<1>8. Core(gs, cxstack, Len(cxstack)) /\ Held(gs, cxstack)
  <2>1. fs[Len(fs)].fn # "call_sv_eval" /\ Core(fs, cxstack, Len(cxstack))
    BY <1>2, <1>3
  <2> HIDE DEF fs
  <2> QED BY <1>2, <1>4, <1>7, <2>1, ReturnKeeps
<1>9. gs[Len(gs)].fn \in Loops /\ MayRun(gs, Len(gs), Len(cxstack))
  BY <1>2, <1>3, <1>5, CallerKnows DEF Callers
<1>10. FlagInv(gs)
  BY <1>2, <1>4, <1>5, FlagsMinus
<1> QED BY <1>1, <1>4, <1>5, <1>6, <1>8, <1>9, <1>10, InvAlways, ToLoop

\* What the list has called has returned.
LEMMA ListIs ==
  ASSUME ExceptionInv, Innermost({"call_list"})
  PROVE  /\ ctl.at = "work" /\ cstack[Len(cstack)].fn = "call_list" /\ Always(cstack, cxstack)
         /\ Core(cstack, cxstack, Len(cxstack)) /\ Held(cstack, cxstack) /\ Static(cstack)
         /\ Len(cxstack) = cstack[Len(cstack)].base + 1 /\ cstack[Len(cstack)].base \in Nat
         /\ Front(cstack)[Len(Front(cstack))].fn = "yyparse"
         /\ Front(cstack)[Len(Front(cstack))].base = cstack[Len(cstack)].base
<1>1. /\ ctl.at = "work" /\ cstack[Len(cstack)].fn = "call_list" /\ Always(cstack, cxstack)
      /\ Core(cstack, cxstack, Settled(cstack, cxstack, ctl)) /\ Held(cstack, cxstack)
      /\ Static(cstack) /\ AtWork(cstack, cxstack)
  BY WorkIs
<1>2. Settled(cstack, cxstack, ctl) = Len(cxstack) /\ Len(cxstack) = cstack[Len(cstack)].base + 1
  BY <1>1 DEF Settled, AtWork, Unwinders
<1>3. /\ Len(cstack) = Len(Front(cstack)) + 1 /\ Len(Front(cstack)) > 0
      /\ CStack(cstack) /\ CStack(Front(cstack)) /\ SameUpTo(cstack, Front(cstack), Len(Front(cstack)))
  BY <1>1, Callee
<1>4. /\ Front(cstack)[Len(Front(cstack))].fn \in Callers("call_list")
      /\ cstack[Len(cstack)].base = Front(cstack)[Len(Front(cstack))].base
  BY <1>1, <1>3, CallerKnows
<1>5. cstack[Len(cstack)].base \in Nat
  BY <1>1 DEF Always
<1> QED BY <1>1, <1>2, <1>4, <1>5 DEF Callers

LEMMA ListReturns ==
  ASSUME ExceptionInv, Innermost({"call_list"}), cstack' = Front(cstack), cxstack' = Front(cxstack),
         ctl' = ctl, errsv' = errsv, restart' = restart
  PROVE  ExceptionInv'
<1> DEFINE fs == cstack
           gs == Front(cstack)
<1>1. /\ ctl.at = "work" /\ fs[Len(fs)].fn = "call_list" /\ Always(fs, cxstack)
      /\ Core(fs, cxstack, Len(cxstack)) /\ Held(fs, cxstack) /\ Static(fs)
      /\ Len(cxstack) = fs[Len(fs)].base + 1 /\ fs[Len(fs)].base \in Nat
      /\ gs[Len(gs)].fn = "yyparse" /\ gs[Len(gs)].base = fs[Len(fs)].base
  BY ListIs
<1>2. /\ cxstack \in Seq(Entries) /\ Len(cxstack) \in Nat /\ FlagInv(fs)
      /\ Len(cxstack) <= MaxDepth_cx
  BY <1>1, AlwaysHas
<1>3. /\ Minus(fs, gs) /\ Len(gs) \in Nat /\ Len(gs) > 0 /\ Len(fs) = Len(gs) + 1
      /\ Len(gs) <= MaxDepth_c + 1 /\ gs \in Seq(CFrames)
      /\ CStack(fs) /\ CStack(gs) /\ SameUpTo(fs, gs, Len(gs))
  BY <1>1, Callee
<1>4. /\ cstack' = gs
      /\ cxstack' = Front(cxstack)
  OBVIOUS
<1> HIDE DEF gs
<1>5. Len(cxstack) > 0 /\ Len(cxstack) - 1 = fs[Len(fs)].base
  BY <1>1
<1>6. /\ cxstack' \in Seq(Entries) /\ PStack(cxstack) /\ PStack(cxstack')
      /\ Len(cxstack') = Len(cxstack) - 1 /\ Len(cxstack') \in Nat
      /\ Prefix(cxstack, cxstack', Len(cxstack'))
  BY <1>2, <1>4, <1>5, EntryMinus
<1>7. Len(cxstack') = fs[Len(fs)].base /\ Len(cxstack') <= Len(cxstack)
  BY <1>1, <1>5, <1>6
<1>8. Len(cxstack') <= MaxDepth_cx
  BY <1>2, <1>6, <1>7, Bounds
<1>9. Core(gs, cxstack', Len(cxstack')) /\ Held(gs, cxstack')
  <2>1. PICK ds : ds = cxstack'
    OBVIOUS
  <2>2. Returns(fs, gs, cxstack, ds)
    BY <1>1, <1>3, <1>6, <1>7, <2>1 DEF Returns
  <2>3. Len(ds) \in Nat /\ Len(ds) <= Len(ds) /\ fs[Len(fs)].fn # "call_sv_eval"
    BY <1>1, <1>6, <2>1
  <2> HIDE DEF fs
  <2>4. Core(gs, ds, Len(ds)) /\ Held(gs, ds)
    BY <1>1, <2>2, <2>3, ReturnKeeps
  <2> QED BY <2>1, <2>4
<1>10. AtWork(gs, cxstack')
  BY <1>1, <1>7, <1>9 DEF AtWork, Unwinders
<1>11. FlagInv(gs)
  BY <1>1, <1>2, <1>3, FlagsMinus
<1>12. Whole(cstack', cxstack', ctl', restart') /\ ctl'.at # "jump3"
  BY <1>1, <1>4, <1>6, <1>9, <1>10, WholeWork
<1>13. Fits(cstack', cxstack', ctl', restart', errsv')
  BY <1>3, <1>4, <1>6, <1>8, <1>11, InvAlways DEF Fits
<1> QED BY <1>12, <1>13, StepTo

LEMMA ListDies ==
  ASSUME ExceptionInv, Innermost({"call_list"}), errsv # 0, DieWith(Front(cstack), errsv)
  PROVE  ExceptionInv'
<1> DEFINE fs == cstack
           cxs == cxstack
           gs == Front(cstack)
<1>1. /\ ctl.at = "work" /\ fs[Len(fs)].fn = "call_list" /\ Always(fs, cxs)
      /\ Core(fs, cxs, Len(cxs)) /\ Held(fs, cxs) /\ Static(fs)
      /\ Len(cxs) = fs[Len(fs)].base + 1 /\ fs[Len(fs)].base \in Nat
      /\ gs[Len(gs)].fn = "yyparse" /\ gs[Len(gs)].base = fs[Len(fs)].base
  BY ListIs
<1>2. /\ cxs \in Seq(Entries) /\ PStack(cxs) /\ Len(cxs) \in Nat /\ FlagInv(fs)
      /\ Len(cxs) <= MaxDepth_cx /\ Len(cxs) <= Len(cxs)
  BY <1>1, AlwaysHas
<1>3. /\ Minus(fs, gs) /\ Len(gs) \in Nat /\ Len(gs) > 0 /\ Len(fs) = Len(gs) + 1
      /\ Len(gs) <= MaxDepth_c + 1 /\ gs \in Seq(CFrames) /\ Len(gs) <= MaxDepth_c
      /\ CStack(fs) /\ CStack(gs) /\ SameUpTo(fs, gs, Len(gs))
  BY <1>1, Callee
<1>4. DieWith(gs, errsv)
  OBVIOUS
<1> HIDE DEF gs, fs, cxs
<1>5. /\ \A n \in 1 .. Len(fs) : n <= Len(gs) \/ n = Len(fs)
      /\ \A i \in Len(gs) + 1 .. Len(fs) : i = Len(fs)
      /\ Len(gs) \in 1 .. Len(fs) /\ Len(gs) \in 1 .. Len(gs) /\ Len(gs) <= Len(fs)
  BY <1>3
<1>6. CutOf(fs, gs, cxs, cxs)
  <2>1. NoExit(fs, Len(gs) + 1, Len(fs))
    BY <1>1, <1>5 DEF NoExit
  <2>2. \A k \in 1 .. Len(cxs), n \in 1 .. Len(fs) :
          cxs[k].type = "eval" /\ Owner(fs, k, cxs[k], n) => n <= Len(gs)
    BY <1>1, <1>5 DEF Owner
  <2>3. fs[Len(gs)].fn # "my_exit"
    BY <1>1, <1>5, <1>3 DEF SameUpTo
  <2> QED BY <1>2, <1>3, <1>5, <2>1, <2>2, <2>3 DEF CutOf
<1>7. Static(gs) /\ Evals(gs, cxs) /\ Ordered(gs, cxs) /\ ExitsClean(gs, cxs)
  BY <1>1, <1>6, CutCore DEF Core
<1>8. Zones(gs, cxs, Len(cxs))
  <2>1. PICK m \in Nat : m = fs[Len(fs)].base
    BY <1>1
  <2>2. m <= Len(cxs) /\ m + 1 = Len(cxs) /\ m <= m
    BY <1>1, <2>1
  <2>3. \A j \in Len(gs) + 1 .. Len(fs) : m <= Low(fs[j])
    BY <1>1, <1>5, <2>1, <2>2 DEF Low
  <2>4. Zones(fs, cxs, Len(cxs)) /\ \A k \in 1 .. m : SameEntry(cxs[k], cxs[k])
    BY <1>1 DEF Core, SameEntry
  <2>5. Zones(gs, cxs, m)
    BY <1>2, <1>3, <1>5, <2>2, <2>3, <2>4, ZonesCut
  <2>6. gs[Len(gs)].fn \notin {"docatch", "leave", "perl_run"} \cup CallFns /\ m >= Low(gs[Len(gs)])
    BY <1>1, <2>1, <2>2 DEF CallFns, Low
  <2> QED BY <1>3, <2>2, <2>5, <2>6, ZonesMore
<1>9. Core(gs, cxs, Len(cxs))
  BY <1>7, <1>8 DEF Core
<1>10. Held(gs, cxs)
  <2>1. \A i \in 1 .. Len(gs) : i \in 1 .. Len(fs)
    BY <1>3
  <2>2. Guards(fs, cxs, Len(gs)) /\ Dies(fs, cxs, Len(gs))
    BY <1>1, <2>1 DEF Held, Guards, Dies
  <2>3. \A i \in 1 .. Len(gs) : Guarded(fs, i) /\ NoExit(fs, i + 1, Len(fs)) => Guard(fs[i]) <= Len(cxs)
    BY <2>2 DEF Guards, Kept
  <2>4. \A k \in 1 .. Len(cxs) : k <= Len(cxs)
    BY <1>2
  <2>5. Spares(fs, cxs, Len(gs), Len(cxs))
    BY <2>3, <2>4 DEF Spares
  <2> QED BY <1>1, <1>6, <2>2, <2>5, CutHeld
<1>11. FlagInv(gs)
  BY <1>1, <1>2, <1>3, FlagsMinus
<1>12. Always(gs, cxs)
  BY <1>2, <1>3, <1>11, AlwaysIs
<1>13. errsv \in Errors /\ errsv \in {0} \cup Errors
  BY InvAlways
<1>14. gs[Len(gs)].fn \in Loops \cup {"yyparse"} /\ gs[Len(gs)].fn \notin Loops
  BY <1>1 DEF Loops
<1> USE DEF cxs
<1> QED BY <1>3, <1>4, <1>9, <1>10, <1>12, <1>13, <1>14, InvAlways, DieStep

LEMMA ListGoesOnKeeps ==
  ASSUME ExceptionInv, ListGoesOn
  PROVE  ExceptionInv'
<1>1. /\ Innermost({"call_list"})
      /\ \/ /\ cstack' = Front(cstack) /\ cxstack' = Front(cxstack)
            /\ ctl' = ctl /\ errsv' = errsv /\ restart' = restart
         \/ errsv # 0 /\ DieWith(Front(cstack), errsv)
         \/ RoomFor(1, 2) /\ CallPlain(cxstack) /\ errsv' = errsv /\ restart' = restart
  BY DEF ListGoesOn
<1>2. CASE RoomFor(1, 2) /\ CallPlain(cxstack) /\ errsv' = errsv /\ restart' = restart
  <2>1. /\ cstack[Len(cstack)].fn = "call_list" /\ Always(cstack, cxstack)
        /\ Core(cstack, cxstack, Len(cxstack)) /\ Held(cstack, cxstack)
        /\ Len(cxstack) = cstack[Len(cstack)].base + 1
    BY <1>1, ListIs
  <2>2. MayCallPlain(cstack, cxstack)
    BY <2>1 DEF MayCallPlain, Loops
  <2>3. cxstack \in Seq(Entries)
    BY <2>1, AlwaysHas
  <2> QED BY <1>2, <2>1, <2>2, <2>3, InvAlways, PlainStep
<1> QED BY <1>1, <1>2, ListReturns, ListDies

-----------------------------------------------------------------------------
(* longjmp().                                                              *)

\* The catcher that a jump comes to, with its flag taken down.
LEMMA LandedIs ==
  ASSUME ExceptionInv
  PROVE  /\ Always(Landed, cxstack) /\ Len(Landed) = TopEnv(cstack)
         /\ SameUpTo(cstack, Landed, Len(Landed)) /\ Len(Landed) \in 1 .. Len(cstack)
         /\ Landed[Len(Landed)].fn = cstack[TopEnv(cstack)].fn /\ Landed[Len(Landed)].fn \in Envs
<1> DEFINE fs == cstack
           t == TopEnv(cstack)
           part == SubSeq(cstack, 1, TopEnv(cstack))
           gs == Flagged(part, t, FALSE)
<1>1. /\ fs \in Seq(CFrames) /\ cxstack \in Seq(Entries) /\ CStack(fs) /\ Len(fs) \in Nat
      /\ Len(fs) <= MaxDepth_c + 1 /\ Len(cxstack) <= MaxDepth_cx
      /\ Bottom(fs) /\ CatchFlags(fs) /\ OldFlags(fs) /\ t \in 1 .. Len(fs) /\ fs[t].fn \in Envs
  BY InvAlways DEF Always
<1>2. Landed = gs
  BY DEF Landed, Flagged
<1> HIDE DEF t
<1>3. t \in Nat /\ t > 0 /\ t <= Len(fs) /\ t \in 0 .. Len(fs) /\ t \in 1 .. t
  BY <1>1
<1>4. part \in Seq(CFrames) /\ Len(part) = t /\ \A i \in 1 .. t : part[i] = fs[i]
  BY <1>1, <1>3, Taken DEF t
<1> HIDE DEF part
<1>5. /\ gs \in Seq(CFrames) /\ CStack(gs) /\ Len(gs) = t /\ SameUpTo(part, gs, t)
      /\ gs[t].catch = FALSE /\ \A i \in 1 .. t : i # t => gs[i] = part[i]
  <2>1. PICK no \in BOOLEAN : no = FALSE
    OBVIOUS
  <2>2. t \in 1 .. Len(part)
    BY <1>3, <1>4
  <2>3. LET fl == Flagged(part, t, no)
        IN  /\ fl \in Seq(CFrames) /\ CStack(fl) /\ Len(fl) = Len(part)
            /\ SameUpTo(part, fl, Len(part)) /\ fl[t].catch = no
            /\ \A i \in 1 .. Len(part) : i # t => fl[i] = part[i]
    BY <1>4, <2>2, FrameFlagged
  <2> QED BY <1>4, <2>1, <2>3
<1> HIDE DEF gs
<1>6. SameUpTo(fs, gs, t)
  BY <1>4, <1>5 DEF SameUpTo
<1>7. FlagInv(gs)
  <2>1. \A i \in 1 .. t : gs[i].fn = fs[i].fn /\ gs[i].base = fs[i].base
    BY <1>6 DEF SameUpTo
  <2>2. \A i \in 1 .. t - 1 : gs[i].catch = fs[i].catch
    <3>1. \A i \in 1 .. t - 1 : i \in 1 .. t /\ i # t
      BY <1>3
    <3> QED BY <1>4, <1>5, <3>1
  <2>3. CatchFlags(gs) /\ OldFlags(gs)
    BY <1>1, <1>5, <2>1, <2>2, FlagLand, ZenonT(60)
  <2>4. \A i \in 1 .. Len(gs) : i <= Len(fs)
    BY <1>1, <1>3, <1>5
  <2>5. \A i \in 1 .. Len(gs) : \/ i <= Len(fs) /\ gs[i].fn = fs[i].fn /\ gs[i].base = fs[i].base
                                \/ i > Len(fs) /\ gs[i].fn # "perl_run"
    BY <1>5, <2>1, <2>4
  <2>6. Bottom(gs)
    BY <1>1, <1>3, <1>5, <2>5, BottomSame
  <2> QED BY <2>3, <2>6 DEF FlagInv
<1>8. Len(gs) <= MaxDepth_c + 1
  BY <1>1, <1>3, <1>5, Bounds
<1>9. Always(gs, cxstack)
  BY <1>1, <1>5, <1>7, <1>8, AlwaysIs
<1>10. gs[t].fn = fs[t].fn
  BY <1>3, <1>6 DEF SameUpTo
<1> QED BY <1>1, <1>2, <1>5, <1>6, <1>9, <1>10 DEF t

\* What is under that catcher.
LEMMA UnderLanded ==
  ASSUME ExceptionInv, Landed[Len(Landed)].fn # "perl_run"
  PROVE  /\ Minus(Landed, Front(Landed)) /\ Always(Front(Landed), cxstack)
         /\ Len(Front(Landed)) = TopEnv(cstack) - 1 /\ Len(Landed) = Len(Front(Landed)) + 1
         /\ Len(Front(Landed)) \in Nat /\ Len(Front(Landed)) > 0 /\ Len(Front(Landed)) \in 1 .. Len(cstack)
         /\ Len(Front(Landed)) <= MaxDepth_c /\ Len(Front(Landed)) \in 0 .. MaxDepth_c
         /\ SameUpTo(cstack, Front(Landed), Len(Front(Landed)))
         /\ CStack(Landed) /\ CStack(Front(Landed)) /\ SameUpTo(Landed, Front(Landed), Len(Front(Landed)))
<1> DEFINE gs == Front(Landed)
<1>1. /\ Always(Landed, cxstack) /\ Len(Landed) = TopEnv(cstack)
      /\ SameUpTo(cstack, Landed, Len(Landed)) /\ Len(Landed) \in 1 .. Len(cstack)
      /\ Landed[Len(Landed)].fn \in Envs
  BY LandedIs
<1>2. /\ Minus(Landed, gs) /\ Len(gs) \in Nat /\ Len(gs) > 0 /\ Len(Landed) = Len(gs) + 1
      /\ Len(gs) <= MaxDepth_c /\ Len(gs) \in 0 .. MaxDepth_c
      /\ Len(gs) <= MaxDepth_c + 1 /\ gs \in Seq(CFrames)
      /\ CStack(Landed) /\ CStack(gs) /\ SameUpTo(Landed, gs, Len(gs))
  BY <1>1, Callee
<1> HIDE DEF gs
<1>3. FlagInv(Landed) /\ cxstack \in Seq(Entries) /\ Len(cxstack) <= MaxDepth_cx
  BY <1>1, AlwaysHas
<1>4. FlagInv(gs)
  <2>1. Landed[Len(Landed)].fn # "call_sv"
    BY <1>1 DEF Envs
  <2> QED BY <1>2, <1>3, <2>1, FlagsMinus
<1>5. Always(gs, cxstack)
  BY <1>2, <1>3, <1>4, AlwaysIs
<1>6. Len(cstack) \in Nat
  BY InvAlways, AlwaysHas
<1>7. Len(gs) = TopEnv(cstack) - 1 /\ Len(gs) \in 1 .. Len(cstack) /\ Len(gs) <= Len(Landed)
  BY <1>1, <1>2, <1>6
<1>8. SameUpTo(cstack, gs, Len(gs))
  <2>1. \A i \in 1 .. Len(gs) : i \in 1 .. Len(Landed)
    BY <1>2
  <2> QED BY <1>1, <1>2, <2>1 DEF SameUpTo
<1> QED BY <1>1, <1>2, <1>5, <1>7, <1>8 DEF gs

\* The catchers between where a jump lands and where it ends.
LEMMA LandsAt ==
  ASSUME ExceptionInv, ctl.at = "jump3"
  PROVE  \E n \in 1 .. Len(cstack) :
           LET t == TopEnv(cstack)
               fn == cstack[t].fn
           IN  /\ JumpsTo(cstack, cxstack, restart, n) /\ n <= t
               /\ fn \in {"perl_run", "call_sv_eval"} => n = t
               /\ fn = "yyparse" => restart.loop # 0 /\ n = t - 1
               /\ fn = "docatch" /\ restart.env = t => n = t /\ restart.loop # 0
               /\ fn = "docatch" /\ restart.env # t => t - 1 >= n
<1> DEFINE fs == cstack
<1>1. PICK n \in 1 .. Len(fs) : JumpsTo(fs, cxstack, restart, n)
  BY InvJump DEF AtJump
<1>2. PICK t \in 1 .. Len(fs) : t = TopEnv(cstack)
  BY InvAlways DEF Always
<1>3. /\ fs[t].fn \in Envs /\ \A i \in t + 1 .. Len(fs) : fs[i].fn \notin Envs
      /\ Len(fs) \in Nat /\ Bottom(fs)
  BY <1>2, InvAlways DEF Always
<1>4. /\ fs[n].fn \in {"perl_run", "docatch", "call_sv_eval"}
      /\ \A i \in n + 1 .. Len(fs) : fs[i].fn # "call_sv_eval"
      /\ restart.loop = 0 => /\ fs[n].fn = "call_sv_eval" /\ restart.env < n
                             /\ \A i \in n + 1 .. Len(fs) : fs[i].fn # "yyparse"
      /\ restart.loop # 0 => restart.env = n /\ \A i \in n + 2 .. Len(fs) : fs[i].fn # "yyparse"
  BY <1>1 DEF JumpsTo
<1>5. n <= t
  <2>1. n \notin t + 1 .. Len(fs)
    BY <1>3, <1>4 DEF Envs
  <2> QED BY <1>3, <2>1
<1>6. n = t \/ t \in n + 1 .. Len(fs)
  BY <1>3, <1>5
<1>7. fs[t].fn \in {"perl_run", "call_sv_eval"} => n = t
  <2>1. t # 1 => t \in 2 .. Len(fs)
    BY <1>3
  <2>2. t = 1 => n = t
    BY <1>5
  <2> QED BY <1>3, <1>4, <1>6, <2>1, <2>2 DEF Bottom
<1>8. fs[t].fn = "yyparse" => restart.loop # 0 /\ n = t - 1
  <2>1. n # t => n = t - 1 \/ t \in n + 2 .. Len(fs)
    BY <1>3, <1>5
  <2> QED BY <1>4, <1>6, <2>1
<1>9. restart.env = t => n = t /\ restart.loop # 0
  <2>1. restart.env < n => restart.env # t
    <3>1. restart.env \in Nat
      BY InvAlways, Bounds
    <3> QED BY <1>3, <1>5, <3>1
  <2> QED BY <1>4, <2>1
<1>10. fs[t].fn = "docatch" /\ restart.env # t => t - 1 >= n
  <2>1. fs[t].fn = "docatch" /\ restart.env # t => n # t
    BY <1>4
  <2> QED BY <1>3, <1>5, <2>1
<1> QED BY <1>1, <1>2, <1>5, <1>7, <1>8, <1>9, <1>10

-----------------------------------------------------------------------------
(* The catchers.                                                           *)

\* The op after the eval is run by the loop of the catcher.
LEMMA ResumeStep ==
  ASSUME ExceptionInv, ctl.at = "jump3", JumpsTo(cstack, cxstack, restart, TopEnv(cstack)),
         restart.loop # 0, Resume
  PROVE  ExceptionInv'
<1> DEFINE gs == Landed
<1>1. /\ cstack' = gs /\ ctl' = [at |-> "run", loop |-> restart.loop]
      /\ restart' = [env |-> 0, loop |-> 0] /\ cxstack' = cxstack /\ errsv' = errsv
  BY DEF Resume, Run
<1>2. /\ Always(gs, cxstack) /\ SameUpTo(cstack, gs, Len(gs)) /\ Len(gs) \in 1 .. Len(cstack)
      /\ Len(gs) = TopEnv(cstack)
  BY LandedIs
<1> HIDE DEF gs
<1>3. /\ Core(cstack, cxstack, Len(cxstack)) /\ CStack(cstack) /\ PStack(cxstack)
  BY InvJump, InvAlways DEF Always
<1>4. /\ CStack(gs) /\ gs \in Seq(CFrames) /\ cxstack \in Seq(Entries) /\ Len(cxstack) <= MaxDepth_cx
      /\ FlagInv(gs) /\ Len(gs) <= Len(gs)
  BY <1>2, AlwaysHas
<1>5. PICK n \in 1 .. Len(cstack) : n = Len(gs)
  BY <1>2
<1>6. JumpedTo(cstack, gs, cxstack, restart, n, n)
  BY <1>2, <1>3, <1>4, <1>5 DEF JumpedTo
<1>7. /\ Core(gs, cxstack, Len(cxstack)) /\ Held(gs, cxstack) /\ restart.loop = Len(gs)
      /\ gs[Len(gs)].fn \in Loops /\ MayRun(gs, Len(gs), Len(cxstack))
  BY <1>6, JumpEnds
<1>8. /\ Len(gs) \in 0 .. MaxDepth_c /\ errsv \in {0} \cup Errors
      /\ [env |-> 0, loop |-> 0] \in [env : 0 .. MaxDepth_c, loop : 0 .. MaxDepth_c]
  BY <1>7, InvAlways, Bounds
<1> QED BY <1>1, <1>4, <1>7, <1>8, ToLoop

\* The catcher jumps again, to one further down.
LEMMA PassesOn ==
  ASSUME ExceptionInv, ctl.at = "jump3", NEW gs, NEW n \in 1 .. Len(cstack),
         JumpsTo(cstack, cxstack, restart, n), Always(gs, cxstack), Len(gs) \in 1 .. Len(cstack),
         SameUpTo(cstack, gs, Len(gs)), Len(gs) >= n, gs[Len(gs)].fn # "die_unwind",
         cstack' = gs, cxstack' = cxstack, ctl' = ctl, errsv' = errsv, restart' = restart
  PROVE  ExceptionInv'
<1>1. /\ Core(cstack, cxstack, Len(cxstack)) /\ CStack(cstack) /\ PStack(cxstack)
  BY InvJump, InvAlways DEF Always
<1>2. /\ CStack(gs) /\ gs \in Seq(CFrames) /\ cxstack \in Seq(Entries) /\ Len(cxstack) <= MaxDepth_cx
      /\ FlagInv(gs) /\ Len(gs) <= MaxDepth_c + 1
  BY AlwaysHas
<1>3. PICK t \in 1 .. Len(cstack) : t = Len(gs)
  OBVIOUS
<1>4. JumpedTo(cstack, gs, cxstack, restart, n, t) /\ t >= n
  BY <1>1, <1>2, <1>3 DEF JumpedTo
<1>5. Core(gs, cxstack, Len(cxstack)) /\ JumpsTo(gs, cxstack, restart, n)
  BY <1>4, JumpGoesOn
<1>6. AtJump(gs, cxstack, restart)
  <2>1. n \in 1 .. Len(gs)
    BY <1>3, <1>4
  <2> QED BY <1>5, <2>1 DEF AtJump
<1>7. Whole(cstack', cxstack', ctl', restart')
  BY <1>5, <1>6, WholeJump
<1>8. ErrorArrives'
  BY DEF ErrorArrives, Inner, Last
<1>9. Typed(cstack', cxstack', ctl', restart') /\ errsv' \in {0} \cup Errors /\ FlagInv(cstack')
  BY <1>2, InvAlways DEF Typed
<1> QED BY <1>7, <1>8, <1>9 DEF ExceptionInv

\* A jump of my_exit() goes on, and there is nothing on Perl's stack.
LEMMA ExitPasses ==
  ASSUME ExceptionInv, ctl.at = "jump2", Always(cstack', cxstack),
         cxstack' = cxstack, ctl' = ctl, errsv' = errsv, restart' = restart
  PROVE  ExceptionInv'
<1>1. Exiting(cstack', cxstack', ctl')
  BY InvExit DEF Exiting
<1>2. Fits(cstack', cxstack', ctl', restart', errsv')
  BY AlwaysHas, InvAlways DEF Fits
<1> QED BY <1>1, <1>2, StepTo

LEMMA ExitAgain ==
  ASSUME ExceptionInv, ctl.at = "jump2", Landed[Len(Landed)].fn # "perl_run",
         Unwind(Front(Landed), "my_exit", 0), cxstack' = cxstack, errsv' = errsv, restart' = restart
  PROVE  ExceptionInv'
<1>1. cxstack = <<>>
  BY InvExit
<1>2. Always(Front(Landed), cxstack) /\ Len(Front(Landed)) <= MaxDepth_c
  BY UnderLanded
<1> QED BY <1>1, <1>2, ExitStep

LEMMA DocatchKeeps ==
  ASSUME ExceptionInv, DocatchCatches
  PROVE  ExceptionInv'
<1> DEFINE fs == cstack
           t == TopEnv(cstack)
<1>1. /\ ctl.at = "jump2" \/ ctl.at = "jump3"
      /\ Landed[Len(Landed)].fn = "docatch"
      /\ \/ ctl.at = "jump3" /\ TakenByDocatch /\ restart.loop # 0 /\ Resume
         \/ ctl.at = "jump3" /\ TakenByDocatch /\ restart.loop = 0
         \/ /\ ctl.at = "jump2" \/ ~TakenByDocatch
            /\ cstack' = Front(Landed) /\ cxstack' = cxstack /\ ctl' = ctl
            /\ errsv' = errsv /\ restart' = restart
  BY DEF DocatchCatches, Catches, Jumps, Last
<1>2. Len(Landed) = t /\ fs[t].fn = "docatch"
  BY <1>1, LandedIs
<1>3. CASE ctl.at = "jump3"
  <2>1. PICK n \in 1 .. Len(fs) :
          /\ JumpsTo(fs, cxstack, restart, n)
          /\ restart.env = t => n = t /\ restart.loop # 0
          /\ restart.env # t => t - 1 >= n
    BY <1>2, <1>3, LandsAt
  <2>2. CASE TakenByDocatch
    <3>1. n = t /\ restart.loop # 0
      BY <1>2, <2>1, <2>2 DEF TakenByDocatch
    <3>2. Resume
      BY <1>1, <1>3, <2>2, <3>1
    <3> QED BY <1>3, <2>1, <3>1, <3>2, ResumeStep
  <2>3. CASE ~TakenByDocatch
    <3>1. t - 1 >= n
      BY <1>2, <2>1, <2>3 DEF TakenByDocatch
    <3>2. /\ cstack' = Front(Landed) /\ cxstack' = cxstack /\ ctl' = ctl
          /\ errsv' = errsv /\ restart' = restart
      BY <1>1, <2>3
    <3>3. PICK gs : gs = Front(Landed)
      OBVIOUS
    <3>4. /\ Always(gs, cxstack) /\ Len(gs) = t - 1 /\ Len(gs) \in 1 .. Len(fs)
          /\ SameUpTo(fs, gs, Len(gs)) /\ Len(gs) \in Nat /\ Len(Landed) = Len(gs) + 1
      BY <1>1, <3>3, UnderLanded
    <3>5. gs[Len(gs)].fn # "die_unwind"
      <4>1. fs[t - 1].fn \in Callers("docatch")
        <5>1. t \in 2 .. Len(fs)
          <6>1. t \in Nat /\ t \in 1 .. Len(fs) /\ Len(fs) \in Nat
            BY InvAlways, AlwaysHas DEF Always
          <6>2. t = Len(gs) + 1 /\ Len(gs) > 0 /\ Len(gs) \in Nat
            BY <1>2, <3>4
          <6> QED BY <6>1, <6>2
        <5>2. Static(fs)
          BY <1>3, InvJump
        <5> QED BY <1>2, <5>1, <5>2 DEF Static, Under
      <4>2. gs[Len(gs)].fn = fs[t - 1].fn
        BY <3>4 DEF SameUpTo
      <4> QED BY <4>1, <4>2 DEF Callers, Loops
    <3>6. Len(gs) >= n
      BY <3>1, <3>4
    <3>7. cstack' = gs
      BY <3>2, <3>3
    <3> QED BY <1>3, <2>1, <3>2, <3>4, <3>5, <3>6, <3>7, PassesOn
  <2> QED BY <2>2, <2>3
<1>4. CASE ctl.at = "jump2"
  <2>1. /\ cstack' = Front(Landed) /\ cxstack' = cxstack /\ ctl' = ctl
        /\ errsv' = errsv /\ restart' = restart
    BY <1>1, <1>4
  <2>2. Always(Front(Landed), cxstack)
    BY <1>1, UnderLanded
  <2> QED BY <1>4, <2>1, <2>2, ExitPasses
<1> QED BY <1>1, <1>3, <1>4

\* call_sv() with G_EVAL returns: its own eval has been left with an error.
LEMMA EvalFails ==
  ASSUME ExceptionInv, ctl.at = "jump3", Landed[Len(Landed)].fn = "call_sv_eval", restart.loop = 0,
         JumpsTo(cstack, cxstack, restart, TopEnv(cstack)),
         cstack' = Front(Landed), cxstack' = SubSeq(cxstack, 1, Landed[Len(Landed)].base),
         GoesOn(Front(Landed)), errsv' = errsv, restart' = restart
  PROVE  ExceptionInv'
<1> DEFINE fs == cstack
           gs == Front(Landed)
<1>1. /\ Minus(Landed, gs) /\ Always(gs, cxstack) /\ Len(gs) = TopEnv(fs) - 1
      /\ Len(Landed) = Len(gs) + 1 /\ Len(gs) \in Nat /\ Len(gs) > 0 /\ Len(gs) \in 1 .. Len(fs)
      /\ SameUpTo(fs, gs, Len(gs))
      /\ CStack(Landed) /\ CStack(gs) /\ SameUpTo(Landed, gs, Len(gs))
  BY UnderLanded
<1>2. /\ gs[Len(gs)].fn \notin Loops => ctl' = [at |-> "work", loop |-> 0]
      /\ cstack' = gs
  BY GoOn
<1> HIDE DEF gs
<1>3. /\ Core(fs, cxstack, Len(cxstack)) /\ Static(fs) /\ CStack(fs) /\ PStack(cxstack)
  BY InvJump, InvAlways DEF Always
<1>4. /\ SameUpTo(fs, Landed, Len(Landed)) /\ Len(Landed) \in 1 .. Len(fs) /\ Len(Landed) = TopEnv(fs)
  BY LandedIs
<1>5. PICK n \in 1 .. Len(fs) : n = Len(Landed)
  BY <1>4
<1>6. JumpsTo(fs, cxstack, restart, n) /\ Len(gs) = n - 1
  BY <1>1, <1>4, <1>5
<1>7. JumpedTo(fs, gs, cxstack, restart, n, n - 1)
  <2>1. Len(gs) = n - 1 /\ n - 1 \in 1 .. Len(fs) /\ SameUpTo(fs, gs, n - 1)
    BY <1>1, <1>6
  <2> QED BY <1>1, <1>3, <1>6, <2>1 DEF JumpedTo
<1>8. /\ Core(gs, cxstack, Len(cxstack) - 1) /\ Held(gs, cxstack)
      /\ Len(cxstack) > 0 /\ Len(cxstack) = fs[n].base /\ cxstack[Len(cxstack)].onleave = ""
  <2> HIDE DEF fs
  <2>1. /\ Core(gs, cxstack, Len(cxstack) - 1) /\ Held(gs, cxstack)
        /\ Len(cxstack) > 0
    BY <1>7, JumpReturns
  <2>2. Len(cxstack) = fs[n].base /\ cxstack[Len(cxstack)].onleave = ""
    BY <1>6 DEF JumpsTo
  <2> QED BY <2>1, <2>2
<1>9. fs[n].base = Landed[Len(Landed)].base
  <2>1. n \in 1 .. Len(Landed)
    BY <1>5
  <2> QED BY <1>4, <1>5, <2>1 DEF SameUpTo
<1>10. /\ cxstack \in Seq(Entries) /\ Len(cxstack) \in Nat /\ FlagInv(gs) /\ gs \in Seq(CFrames)
       /\ Len(cxstack) <= MaxDepth_cx /\ Len(gs) <= MaxDepth_c + 1
  BY <1>1, AlwaysHas
<1>11. cxstack' = cxstack
  BY <1>8, <1>9, <1>10, SubSeqFull
<1>12. Static(Landed)
  BY <1>1, <1>3, <1>4, StaticCut
<1>13. /\ gs[Len(gs)].fn \in Callers("call_sv_eval")
       /\ gs[Len(gs)].fn = "call_list" => Len(cxstack) = gs[Len(gs)].base + 1
       /\ gs[Len(gs)].fn = "leave" => Len(cxstack) - 1 >= gs[Len(gs)].base + 1
  <2>1. Low(Landed[Len(Landed)]) = Len(cxstack) - 1
    BY <1>8, <1>9 DEF Low
  <2> QED BY <1>1, <1>8, <1>9, <1>12, <2>1, CallerKnows
<1>14. gs[Len(gs)].fn \in Unwinders \cup {"call_list"} /\ gs[Len(gs)].fn \notin Loops
  BY <1>13 DEF Callers, Loops, Unwinders
<1>15. ctl' = [at |-> "work", loop |-> 0] /\ ctl'.at = "work"
  BY <1>2, <1>14
<1>16. Whole(gs, cxstack, ctl', restart')
  BY <1>1, <1>8, <1>10, <1>13, <1>14, <1>15, EvalReturned
<1>17. Fits(cstack', cxstack', ctl', restart', errsv')
  BY <1>2, <1>10, <1>11, <1>15, InvAlways, AtTyped DEF Fits
<1> QED BY <1>2, <1>11, <1>15, <1>16, <1>17, StepTo

LEMMA CallKeeps ==
  ASSUME ExceptionInv, CallCatches
  PROVE  ExceptionInv'
<1>1. /\ Landed[Len(Landed)].fn = "call_sv_eval"
      /\ \/ ctl.at = "jump3" /\ restart.loop # 0 /\ Resume
         \/ /\ ctl.at = "jump3" /\ restart.loop = 0
            /\ cstack' = Front(Landed) /\ cxstack' = SubSeq(cxstack, 1, Landed[Len(Landed)].base)
            /\ GoesOn(Front(Landed)) /\ errsv' = errsv /\ restart' = restart
         \/ /\ ctl.at = "jump2" /\ Unwind(Front(Landed), "my_exit", 0)
            /\ cxstack' = cxstack /\ errsv' = errsv /\ restart' = restart
  BY DEF CallCatches, Catches, Jumps, Last
<1>2. cstack[TopEnv(cstack)].fn = "call_sv_eval"
  BY <1>1, LandedIs
<1>3. ctl.at = "jump3" => JumpsTo(cstack, cxstack, restart, TopEnv(cstack))
  BY <1>2, LandsAt
<1> QED BY <1>1, <1>3, ResumeStep, EvalFails, ExitAgain

LEMMA RunKeeps ==
  ASSUME ExceptionInv, RunCatches
  PROVE  ExceptionInv'
<1>1. /\ Landed[Len(Landed)].fn = "perl_run"
      /\ \/ ctl.at = "jump3" /\ restart.loop # 0 /\ Resume
         \/ /\ cstack' = Landed /\ ctl' = [at |-> "exited", loop |-> 0]
            /\ cxstack' = cxstack /\ errsv' = errsv /\ restart' = restart
  BY DEF RunCatches, Catches, Jumps, Last, Goto
<1>2. cstack[TopEnv(cstack)].fn = "perl_run" /\ Always(Landed, cxstack)
  BY <1>1, LandedIs
<1>3. ctl.at = "jump3" => JumpsTo(cstack, cxstack, restart, TopEnv(cstack))
  BY <1>2, LandsAt
<1>4. ASSUME cstack' = Landed, ctl' = [at |-> "exited", loop |-> 0], cxstack' = cxstack,
             errsv' = errsv, restart' = restart
      PROVE  ExceptionInv'
  <2>1. Fits(cstack', cxstack', ctl', restart', errsv')
    BY <1>2, <1>4, AlwaysHas, InvAlways, AtTyped DEF Fits
  <2> QED BY <1>4, <2>1, StepTo
<1> QED BY <1>1, <1>3, <1>4, ResumeStep

LEMMA ParseKeeps ==
  ASSUME ExceptionInv, ParseCatches
  PROVE  ExceptionInv'
<1> DEFINE gs == Front(Landed)
<1>1. /\ Landed[Len(Landed)].fn = "yyparse" /\ cstack' = gs /\ cxstack' = cxstack /\ errsv' = errsv
      /\ \/ /\ ctl.at = "jump3" /\ ctl' = [at |-> "run", loop |-> Len(gs)]
            /\ restart' = [env |-> 0, loop |-> 0]
         \/ ctl.at = "jump2" /\ ctl' = ctl /\ restart' = restart
  BY DEF ParseCatches, Catches, Jumps, Last, Run
<1>2. /\ cstack[TopEnv(cstack)].fn = "yyparse"
  BY <1>1, LandedIs
<1>3. /\ Always(gs, cxstack) /\ Len(gs) = TopEnv(cstack) - 1 /\ Len(gs) \in 1 .. Len(cstack)
      /\ SameUpTo(cstack, gs, Len(gs)) /\ Len(gs) \in 0 .. MaxDepth_c /\ CStack(gs) /\ Len(gs) \in Nat
  BY <1>1, UnderLanded
<1> HIDE DEF gs
<1>4. CASE ctl.at = "jump3"
  <2>1. PICK n \in 1 .. Len(cstack) :
          JumpsTo(cstack, cxstack, restart, n) /\ restart.loop # 0 /\ n = TopEnv(cstack) - 1
    BY <1>2, <1>4, LandsAt
  <2>2. Len(gs) = n /\ n <= n
    BY <1>3, <2>1
  <2>3. /\ Core(cstack, cxstack, Len(cxstack)) /\ CStack(cstack) /\ PStack(cxstack)
    BY <1>4, InvJump, InvAlways DEF Always
  <2>4. JumpedTo(cstack, gs, cxstack, restart, n, n)
    BY <1>3, <2>1, <2>2, <2>3 DEF JumpedTo
  <2>5. /\ Core(gs, cxstack, Len(cxstack)) /\ Held(gs, cxstack)
        /\ gs[Len(gs)].fn \in Loops /\ MayRun(gs, Len(gs), Len(cxstack))
    BY <2>1, <2>4, JumpEnds
  <2>6. /\ gs \in Seq(CFrames) /\ cxstack \in Seq(Entries) /\ Len(cxstack) <= MaxDepth_cx
        /\ FlagInv(gs)
    BY <1>3, AlwaysHas
  <2>7. /\ errsv \in {0} \cup Errors
        /\ [env |-> 0, loop |-> 0] \in [env : 0 .. MaxDepth_c, loop : 0 .. MaxDepth_c]
    BY InvAlways, Bounds
  <2>8. ctl' = [at |-> "run", loop |-> Len(gs)] /\ restart' = [env |-> 0, loop |-> 0]
    BY <1>1, <1>4
  <2> QED BY <1>1, <1>3, <2>5, <2>6, <2>7, <2>8, ToLoop
<1>5. CASE ctl.at = "jump2"
  BY <1>1, <1>3, <1>5, ExitPasses
<1> QED BY <1>1, <1>4, <1>5

LEMMA ListKeeps ==
  ASSUME ExceptionInv, ListCatches
  PROVE  ExceptionInv'
<1>1. /\ Landed[Len(Landed)].fn = "call_list"
      /\ \/ /\ ctl.at = "jump3" /\ cstack' = Landed /\ cxstack' = cxstack /\ ctl' = ctl
            /\ errsv' = errsv /\ restart' = restart
         \/ /\ ctl.at = "jump2" /\ Unwind(Front(Landed), "my_exit", 0)
            /\ cxstack' = cxstack /\ errsv' = errsv /\ restart' = restart
  BY DEF ListCatches, Catches, Jumps, Last
<1>2. CASE ctl.at = "jump3"
  <2>1. PICK n \in 1 .. Len(cstack) : JumpsTo(cstack, cxstack, restart, n) /\ n <= TopEnv(cstack)
    BY <1>2, LandsAt
  <2>2. /\ Always(Landed, cxstack) /\ Len(Landed) = TopEnv(cstack)
        /\ SameUpTo(cstack, Landed, Len(Landed)) /\ Len(Landed) \in 1 .. Len(cstack)
    BY LandedIs
  <2>3. Len(Landed) >= n
    BY <2>1, <2>2
  <2>4. PICK gs : gs = Landed
    OBVIOUS
  <2> QED BY <1>1, <1>2, <2>1, <2>2, <2>3, <2>4, PassesOn
<1>3. CASE ctl.at = "jump2"
  BY <1>1, <1>3, ExitAgain
<1> QED BY <1>1, <1>2, <1>3

LEMMA LandsKeeps ==
  ASSUME ExceptionInv, Lands
  PROVE  ExceptionInv'
BY DocatchKeeps, CallKeeps, RunKeeps, ParseKeeps, ListKeeps DEF Lands

-----------------------------------------------------------------------------
(* The theorems.                                                           *)

LEMMA InitException == ExceptionInit => ExceptionInv
<1> SUFFICES ASSUME ExceptionInit
             PROVE  ExceptionInv
  OBVIOUS
<1> DEFINE f == CFrame("perl_run", FALSE, 0, 0)
<1>1. /\ cxstack = <<>> /\ errsv = 0 /\ cstack = <<f>> /\ ctl = [at |-> "run", loop |-> 1]
      /\ restart = [env |-> 0, loop |-> 0]
  BY DEF ExceptionInit, CFrame
<1>2. f \in CFrames /\ f.fn = "perl_run" /\ f.base = 0 /\ f.catch = FALSE
  <2>1. "perl_run" \in Fns /\ 0 \in {0} \cup Errors /\ 0 \in 0 .. MaxDepth_cx
    BY Bounds DEF Fns, Envs
  <2>0. PICK fn \in Fns : fn = "perl_run"
    BY <2>1
  <2>2. \A b \in 0 .. MaxDepth_cx, e \in {0} \cup Errors :
          /\ CFrame(fn, FALSE, b, e) \in CFrames
          /\ CFrame(fn, FALSE, b, e).fn = fn /\ CFrame(fn, FALSE, b, e).base = b
    BY PlainFrameIs, ZenonT(60)
  <2>3. f.catch = FALSE
    BY FlagDown
  <2> QED BY <2>0, <2>1, <2>2, <2>3
<1> HIDE DEF f
<1>3. /\ cstack \in Seq(CFrames) /\ Len(cstack) = 1 /\ cstack[1] = f
      /\ cxstack \in Seq(Entries) /\ Len(cxstack) = 0
  BY <1>1, <1>2
<1>4. /\ \A i \in 1 .. Len(cstack) : i = 1
      /\ \A k \in 1 .. Len(cxstack) : FALSE
      /\ \A p \in 1 .. 0 : FALSE
      /\ \A i \in 2 .. Len(cstack) : FALSE
      /\ \A i, j \in 1 .. Len(cstack) : ~(i < j)
      /\ Len(cstack) \in 1 .. Len(cstack) /\ Len(cstack) > 0
  BY <1>3
<1>5. FlagInv(cstack)
  <2>1. Bottom(cstack)
    BY <1>2, <1>3, <1>4 DEF Bottom
  <2>2. \A e \in 1 .. Len(cstack) : ~Waits(cstack, e, Len(cstack))
    <3>1. \A e \in 1 .. Len(cstack) : \A j \in e + 1 .. Len(cstack) : FALSE
      BY <1>3
    <3> QED BY <3>1 DEF Waits
  <2> QED BY <1>2, <1>3, <1>4, <2>1, <2>2 DEF FlagInv, CatchFlags, OldFlags
<1>6. Core(cstack, cxstack, Len(cxstack))
  <2>1. Static(cstack)
    BY <1>4, <1>5 DEF Static, FlagInv, Under, Heights, Above
  <2>2. Zones(cstack, cxstack, Len(cxstack)) /\ Evals(cstack, cxstack) /\ Ordered(cstack, cxstack)
    BY <1>4 DEF Zones, Evals, Ordered
  <2>3. ExitsClean(cstack, cxstack)
    BY <1>2, <1>3, <1>4 DEF ExitsClean
  <2> QED BY <2>1, <2>2, <2>3 DEF Core
<1>7. Held(cstack, cxstack)
  BY <1>2, <1>3, <1>4 DEF Held, Guards, Dies, Guarded
<1>8. cstack[Len(cstack)].fn \in Loops /\ MayRun(cstack, Len(cstack), Len(cxstack))
  BY <1>2, <1>3, <1>4 DEF MayRun, Loops
<1>9. Whole(cstack, cxstack, [at |-> "run", loop |-> Len(cstack)], restart)
  BY <1>6, <1>7, <1>8, WholeRun
<1>10. Typed(cstack, cxstack, ctl, restart) /\ errsv \in {0} \cup Errors
  <2>1. 1 \in 0 .. MaxDepth_c /\ 0 \in 0 .. MaxDepth_c /\ 1 <= MaxDepth_c + 1 /\ 0 <= MaxDepth_cx
    BY Bounds
  <2>2. ctl \in [at : {"run", "work", "null", "jump2", "jump3", "exited"}, loop : 0 .. MaxDepth_c]
    BY <1>1, <2>1, AtRunTyped
  <2> QED BY <1>1, <1>3, <2>1, <2>2 DEF Typed
<1>11. ErrorArrives
  BY <1>1 DEF ErrorArrives, Jumps
<1>12. ctl = [at |-> "run", loop |-> Len(cstack)]
  BY <1>1, <1>3
<1> QED BY <1>5, <1>9, <1>10, <1>11, <1>12 DEF ExceptionInv

LEMMA NextException ==
  ASSUME ~ExitsOverTied, ExceptionInv, [ExceptionNext]_exception_vars
  PROVE  ExceptionInv'
<1>1. CASE UNCHANGED exception_vars
  BY <1>1 DEF exception_vars, ExceptionInv, ErrorArrives, Jumps, Inner
<1>2. CASE EnterSub
  BY <1>2, EnterSubKeeps
<1>3. CASE EnterTry
  BY <1>3, EnterTryKeeps
<1>4. CASE EnterEval
  BY <1>4, EnterEvalKeeps
<1>5. CASE CallTied
  BY <1>5, CallTiedKeeps
<1>6. CASE CallExit
  BY <1>6, CallExitKeeps
<1>7. CASE MainEnds
  BY <1>7, MainEndsKeeps
<1>8. CASE \E what \in {"DESTROY", "STORE"} : AtLeave(what)
  BY <1>8, AtLeaveKeeps
<1>9. CASE \E err \in Errors : Die(err)
  BY <1>9, DieKeeps
<1>10. CASE \E base \in 0 .. Len(cxstack) - 1 : LeaveTo(base)
  BY <1>10, LeaveToKeeps
<1>11. CASE LeaveScope
  BY <1>11, LeaveScopeKeeps
<1>12. CASE Leave1
  BY <1>12, Leave1Keeps
<1>13. CASE Unwind1
  BY <1>13, Unwind1Keeps
<1>14. CASE Exit1
  BY <1>14, Exit1Keeps
<1>15. CASE LoopEnds
  BY <1>15, LoopEndsKeeps
<1>16. CASE Begin
  BY <1>16, BeginKeeps
<1>17. CASE ListGoesOn
  BY <1>17, ListGoesOnKeeps
<1>18. CASE Parsed
  BY <1>18, ParsedKeeps
<1>19. CASE Lands
  BY <1>19, LandsKeeps
<1> QED BY <1>1, <1>2, <1>3, <1>4, <1>5, <1>6, <1>7, <1>8, <1>9, <1>10, <1>11, <1>12, <1>13,
           <1>14, <1>15, <1>16, <1>17, <1>18, <1>19 DEF ExceptionNext

\* What the invariant says of the properties.
LEMMA InvTypes == ExceptionInv => ExceptionTypeOK
BY DEF ExceptionInv, Typed, CFrames, Fns, Entries, ExceptionTypeOK

LEMMA InvFlags == ExceptionInv => FlagsAreRight
BY InvAlways DEF Always, FlagsAreRight, CatchFlags, Waits

LEMMA InvAgrees ==
  ASSUME ExceptionInv
  PROVE  StacksAgree
<1>1. /\ Len(cstack) \in Nat /\ Len(cstack) > 0 /\ Len(cstack) \in 1 .. Len(cstack)
      /\ Len(cxstack) \in Nat /\ cxstack \in Seq(Entries)
  BY InvAlways, AlwaysHas
<1>2. ASSUME ctl.at = "null"
      PROVE  /\ Inner.fn = "call_sv" => Len(cxstack) = Inner.base + 1
             /\ Inner.fn = "call_sv_eval" => /\ Len(cxstack) = Inner.base + 1
                                             /\ Last(cxstack).type = "eval"
             /\ Inner.fn = "perl_run" => cxstack = <<>>
  <2>1. Held(cstack, cxstack) /\ HasEnded(cstack, Len(cstack), Len(cxstack))
    BY <1>2, InvNull
  <2>2. cstack[Len(cstack)].fn \in {"call_sv", "call_sv_eval"} =>
          Len(cxstack) = cstack[Len(cstack)].base + 1
    BY <1>1, <2>1, EndedAt DEF CallFns
  <2>3. cstack[Len(cstack)].fn = "perl_run" => cxstack = <<>>
    <3>1. cstack[Len(cstack)].fn = "perl_run" => Len(cxstack) = 0
      BY <1>1, <2>1, EndedAt
    <3> QED BY <1>1, <3>1, NotEmpty
  <2>4. cstack[Len(cstack)].fn = "call_sv_eval" => cxstack[Len(cxstack)].type = "eval"
    <3> SUFFICES ASSUME cstack[Len(cstack)].fn = "call_sv_eval"
                 PROVE  cxstack[Len(cxstack)].type = "eval"
      OBVIOUS
    <3>1. Guarded(cstack, Len(cstack)) /\ NoExit(cstack, Len(cstack) + 1, Len(cstack))
      BY <1>1 DEF Guarded, NoExit
    <3>2. Kept(cstack, cxstack, Len(cstack))
      BY <1>1, <2>1, <3>1 DEF Held, Guards
    <3>3. cxstack[Guard(cstack[Len(cstack)])].type = "eval"
      BY <3>2 DEF Kept
    <3>4. Guard(cstack[Len(cstack)]) = Len(cxstack)
      BY <2>2 DEF Guard
    <3> QED BY <3>3, <3>4
  <2> QED BY <2>2, <2>3, <2>4 DEF Inner, Last
<1>3. ASSUME ctl.at = "jump3", restart.loop = 0, Landed[Len(Landed)].fn = "call_sv_eval"
      PROVE  Len(cxstack) = Landed[Len(Landed)].base
  <2>1. /\ Len(Landed) = TopEnv(cstack) /\ SameUpTo(cstack, Landed, Len(Landed))
        /\ Len(Landed) \in 1 .. Len(cstack) /\ cstack[TopEnv(cstack)].fn = "call_sv_eval"
    BY <1>3, LandedIs
  <2>2. JumpsTo(cstack, cxstack, restart, TopEnv(cstack))
    BY <1>3, <2>1, LandsAt
  <2>3. cstack[TopEnv(cstack)].base = Len(cxstack)
    BY <1>3, <2>2 DEF JumpsTo
  <2>4. Landed[Len(Landed)].base = cstack[Len(Landed)].base
    <3>1. Len(Landed) \in 1 .. Len(Landed)
      BY <1>1, <2>1
    <3> QED BY <2>1, <3>1 DEF SameUpTo
  <2> QED BY <2>1, <2>3, <2>4
<1> QED BY <1>2, <1>3 DEF StacksAgree, Jumps, Last

LEMMA InvCaught ==
  ASSUME ExceptionInv
  PROVE  EvalsAreCaught
<1>1. RestartsInItsLoop
  BY InvLoop DEF RestartsInItsLoop
<1>2. ErrorArrives
  <2>1. CASE Exiting(cstack, cxstack, ctl) \/ ctl.at = "exited"
    BY <2>1 DEF Exiting, ErrorArrives, Jumps
  <2> QED BY <2>1 DEF ExceptionInv
<1> QED BY <1>1, <1>2, InvFlags, InvAgrees DEF EvalsAreCaught

LEMMA AlwaysException ==
  ASSUME ~ExitsOverTied
  PROVE  ExceptionSpec => []ExceptionInv
<1>1. ExceptionInv /\ [ExceptionNext]_exception_vars => ExceptionInv'
  BY NextException
<1> QED BY <1>1, InitException, PTL DEF ExceptionSpec

\* No C function or entry of Perl's stack is ever anything else than the code
\* can have there, however deep both are and wherever a jump lands.
THEOREM ExceptionTypes ==
  ASSUME ~ExitsOverTied
  PROVE  ExceptionSpec => []ExceptionTypeOK
BY AlwaysException, InvTypes, PTL

\* die takes a program to the end of the innermost eval and nowhere else: the
\* op after it runs in the loop that ran the eval, the catchers' flags are right
\* for evals still to come, both stacks agree, and the error is in $@.
THEOREM EvalsCatch ==
  ASSUME ~ExitsOverTied
  PROVE  ExceptionSpec => []EvalsAreCaught
BY AlwaysException, InvCaught, PTL

-----------------------------------------------------------------------------
(* The modules together.                                                   *)

\* What the three modules that are checked together keep, their variables
\* have types in every state, whichever of them is used.
THEOREM AllTypes ==
  ASSUME ~ExitsOverTied
  PROVE  MCSpec => []TypesOK
<1> DEFINE AllInv == ThreadInv /\ TableInv /\ ExceptionInv
<1>1. MCInit => AllInv
  BY InitThreads, CodeInitInv, InitException DEF MCInit
<1>2. AllInv /\ [MCNext]_<<used, vars, code_vars, exception_vars>> => AllInv'
  <2> SUFFICES ASSUME AllInv, [MCNext]_<<used, vars, code_vars, exception_vars>>
               PROVE  AllInv'
    OBVIOUS
  <2>1. /\ [Next]_vars
        /\ [CodeNext]_code_vars
        /\ [ExceptionNext]_exception_vars
    BY DEF MCNext
  <2> QED BY <2>1, NextThreads, TableNextInv, NextException
<1>3. AllInv => TypesOK
  BY InvTypes DEF TypesOK, ThreadInv, ControlInv, TableInv
<1> QED BY <1>1, <1>2, <1>3, PTL DEF MCSpec
=============================================================================
