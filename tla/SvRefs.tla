-------------------------------- MODULE SvRefs --------------------------------
(***************************************************************************)
(* Reference counts, weak references and destructors, sv.c.  The last      *)
(* reference to go away frees a value at once, and with it what it refers  *)
(* to; DESTROY is Perl code that runs in the middle of that, and may do    *)
(* what it likes with the references that are left.                        *)
(*                                                                         *)
(* A value is an array with a fixed number of elements, blessed or not; a  *)
(* reference is in a variable, in an element, or is the one DESTROY is     *)
(* called with.  Destructors of constants and the global destruction are   *)
(* left out.                                                               *)
(***************************************************************************)
EXTENDS Integers, FiniteSets, SequencesExt

CONSTANTS
  Obj, Var, NONE,
  Class,    \* of classes with a destructor; NONE: not blessed
  Slots,    \* bound: elements of an array
  MaxTmps   \* bound: values on the stack of temporaries

ASSUME RefsAssumption ==
  /\ NONE \notin Obj \cup Class
  /\ {Slots, MaxTmps} \subseteq Nat
  /\ Var \cap (Obj \X (0 .. Slots)) = {}   \* no variable is an element

\* What holds a reference: <<o, 0>> is what DESTROY of o finds in $_[0].
Itself(o) == <<o, 0>>
Elems(o) == {<<o, i>> : i \in 1 .. Slots}
Ref == Var \cup (Obj \X (0 .. Slots))

\* rc, state and class of each value, and the class last told to destroy it;
\* to and weak of each reference, and the back-references of each value; the
\* stack of temporaries; and the C functions that are active.
VARIABLE heap

SvTypeOK ==
  /\ heap.rc \in [Obj -> Nat]
  /\ heap.state \in [Obj -> {"free", "live", "clearing"}]
  /\ heap.class \in [Obj -> Class \cup {NONE}]
  /\ heap.told \in [Obj -> Class \cup {NONE}]
  /\ heap.to \in [Ref -> Obj \cup {NONE}]
  /\ heap.weak \in [Ref -> BOOLEAN]
  /\ heap.backrefs \in [Obj -> SUBSET Ref]
  /\ heap.tmps \in Seq(Obj)
  /\ heap.stack # <<>> /\ Head(heap.stack).fn = "perl"
  /\ \A i \in DOMAIN heap.stack :
       heap.stack[i] \in [fn : {"perl", "free_tmps", "sv_clear"}, sv : Obj \cup {NONE},
                          class : Class \cup {NONE}, floor : Nat, iter : Seq(Obj)]

SvFrame(fn, sv, floor) == [fn |-> fn, sv |-> sv, class |-> NONE, floor |-> floor, iter |-> <<>>]

SvInit ==
  heap = [rc |-> [o \in Obj |-> 0], state |-> [o \in Obj |-> "free"],
          class |-> [o \in Obj |-> NONE], told |-> [o \in Obj |-> NONE],
          to |-> [r \in Ref |-> NONE], weak |-> [r \in Ref |-> FALSE],
          backrefs |-> [o \in Obj |-> {}], tmps |-> <<>>,
          stack |-> <<SvFrame("perl", NONE, 0)>>]

SvTop == Last(heap.stack)
Push(h, frame) == [h EXCEPT !.stack = Append(@, frame)]
Pop(h) == [h EXCEPT !.stack = Front(@)]
WithTop(h, frame) == Push(Pop(h), frame)

-----------------------------------------------------------------------------
(* The functions of sv.c: the heap that they leave.                        *)

\* SvREFCNT_dec(): the last reference calls sv_free2(), sv_clear().
Dec(h, o) ==
  LET d == [h EXCEPT !.rc[o] = @ - 1]
  IN  IF d.rc[o] = 0 THEN Push(d, SvFrame("sv_clear", o, 0)) ELSE d

Inc(h, o) == [h EXCEPT !.rc[o] = @ + 1]

Unset(h, r) == [h EXCEPT !.to[r] = NONE, !.weak[r] = FALSE]

\* sv_del_backref()
DelBackref(h, r) == [h EXCEPT !.backrefs[h.to[r]] = @ \ {r}]

\* sv_unref_flags(): unless it is to be now, the last reference becomes a
\* temporary's.
SvUnref(h, r, now) ==
  LET o == h.to[r]
      u == Unset(h, r)
  IN  CASE o = NONE -> h
        [] o # NONE /\ h.weak[r] -> Unset(DelBackref(h, r), r)
        [] o # NONE /\ ~h.weak[r] ->
             IF h.rc[o] # 1 \/ now THEN Dec(u, o) ELSE [u EXCEPT !.tmps = Append(@, o)]

\* sv_kill_backrefs(): weak references to the value become undef.
KillBackrefs(h, o) ==
  [h EXCEPT !.to = [r \in Ref |-> IF r \in h.backrefs[o] THEN NONE ELSE @[r]],
            !.weak = [r \in Ref |-> r \notin h.backrefs[o] /\ @[r]],
            !.backrefs[o] = {}]

-----------------------------------------------------------------------------
(* Perl code: the program's, or a destructor's.                            *)

Running == SvTop.fn = "perl"

\* What the code can name: its variables, its own $_[0], and their elements.
Named ==
  LET own == Var \cup (IF SvTop.sv = NONE THEN {} ELSE {Itself(SvTop.sv)})
  IN  own \cup UNION {Elems(heap.to[r]) : r \in {q \in own : heap.to[q] # NONE}}

IsSelf(r) == r \notin Var /\ r[2] = 0

\* What it may change: $_[0] is made read-only.
Writable == {r \in Named : ~IsSelf(r)}

\* $r = []
New(r, o) ==
  /\ heap.state[o] = "free"
  /\ heap' = [SvUnref(heap, r, FALSE) EXCEPT !.state[o] = "live", !.rc[o] = 1, !.to[r] = o]

Copied(h, r, o) == IF o = NONE THEN h ELSE Inc([h EXCEPT !.to[r] = o], o)

\* $r = $s: sv_setsv_flags()
Assign(r, s) ==
  LET h == SvUnref(heap, r, FALSE)
  IN  r # s /\ heap' = Copied(h, r, h.to[s])

\* undef $r
Undef(r) == heap' = SvUnref(heap, r, TRUE)

\* Mutant: the count is lowered before the value knows of the reference.
WeakenedFirst(h, r) ==
  LET o == h.to[r]
      d == Dec([h EXCEPT !.weak[r] = TRUE], o)
  IN  IF d.rc[o] = 0 THEN d ELSE [d EXCEPT !.backrefs[o] = @ \cup {r}]

\* sv_rvweaken()
Weakened(h, r) ==
  LET o == h.to[r]
  IN  Dec([h EXCEPT !.backrefs[o] = @ \cup {r}, !.weak[r] = TRUE], o)

Weaken(r) == heap.to[r] # NONE /\ ~heap.weak[r] /\ heap' = Weakened(heap, r)

\* sv_rvunweaken()
Unweaken(r) ==
  /\ heap.to[r] # NONE /\ heap.weak[r]
  /\ heap' = Inc(DelBackref([heap EXCEPT !.weak[r] = FALSE], r), heap.to[r])

Bless(r, class) == heap.to[r] # NONE /\ heap' = [heap EXCEPT !.class[heap.to[r]] = class]

\* A statement ends: FREETMPS
FreeTmps ==
  /\ Len(heap.tmps) > SvTop.floor
  /\ heap' = Push(heap, SvFrame("free_tmps", NONE, SvTop.floor))

Code ==
  /\ Running
  /\ \/ Len(heap.tmps) < MaxTmps /\ \E r \in Writable, o \in Obj : New(r, o)
     \/ Len(heap.tmps) < MaxTmps /\ \E r \in Writable, s \in Named : Assign(r, s)
     \/ \E r \in Writable : Undef(r) \/ Weaken(r) \/ Unweaken(r)
     \/ \E r \in Named, class \in Class : Bless(r, class)
     \/ FreeTmps

-----------------------------------------------------------------------------
(* free_tmps(), sv_clear() and S_curse(), from one call of Perl code to    *)
(* the next.                                                               *)

\* One temporary; what that frees may leave others.
FreeTmp ==
  /\ SvTop.fn = "free_tmps"
  /\ heap' = IF Len(heap.tmps) <= SvTop.floor THEN Pop(heap)
             ELSE Dec([heap EXCEPT !.tmps = Front(@)], Last(heap.tmps))

\* Mutant: one call of a destructor is enough.
ReblessedIgnored(h, frame) == h.class[frame.sv] # NONE /\ frame.class = NONE

\* The loop of S_curse() goes on: the class is one that has not been called.
Reblessed(h, frame) == h.class[frame.sv] # NONE /\ h.class[frame.sv] # frame.class

\* Mutant: the reference of the destructor itself is counted.
RevivedByItself(h, frame) == frame.class # NONE \/ h.rc[frame.sv] > 0

Revived(h, frame) == h.rc[frame.sv] > 0

\* The value under sv_clear() is an object: its destructor gets a reference.
CallDestroy ==
  LET o == SvTop.sv
      class == heap.class[o]
      called == WithTop([Inc(heap, o) EXCEPT !.told[o] = class, !.to[Itself(o)] = o],
                        [SvTop EXCEPT !.class = class])
  IN  /\ SvTop.fn = "sv_clear" /\ o # NONE /\ Reblessed(heap, SvTop)
      /\ heap' = Push(called, SvFrame("perl", o, Len(heap.tmps)))

\* call_sv() has freed the destructor's temporaries.
DestroyReturn ==
  LET o == SvTop.sv
  IN  /\ Running /\ o # NONE /\ Len(heap.tmps) = SvTop.floor
      /\ heap' = [Unset(Pop(heap), Itself(o)) EXCEPT !.rc[o] = @ - 1]

\* After the destructors: the object lives on, or its weak references are
\* broken and its elements freed next.
Cursed ==
  LET o == SvTop.sv
      h == KillBackrefs(heap, o)
  IN  /\ SvTop.fn = "sv_clear" /\ o # NONE /\ ~Reblessed(heap, SvTop)
      /\ heap' = IF Revived(heap, SvTop)
                   THEN WithTop(heap, [SvTop EXCEPT !.sv = NONE, !.class = NONE])
                   ELSE WithTop([h EXCEPT !.state[o] = "clearing", !.class[o] = NONE,
                                         !.told[o] = NONE],
                                [SvTop EXCEPT !.sv = NONE, !.class = NONE,
                                            !.iter = Append(@, o)])

\* An element of the array that sv_clear() is at, the last one first.  What
\* it alone refers to is cleared next, in the same loop.
ClearElem ==
  LET o == Last(SvTop.iter)
      left == {i \in 1 .. Slots : heap.to[<<o, i>>] # NONE}
      r == <<o, CHOOSE i \in left : \A j \in left : j <= i>>
      target == heap.to[r]
      weak == heap.weak[r]
      h == IF weak THEN Unset(DelBackref(heap, r), r)
           ELSE [Unset(heap, r) EXCEPT !.rc[target] = @ - 1]
  IN  /\ SvTop.fn = "sv_clear" /\ SvTop.sv = NONE /\ SvTop.iter # <<>>
      /\ heap' = CASE left = {} -> WithTop([heap EXCEPT !.state[o] = "free"],
                                           [SvTop EXCEPT !.iter = Front(@)])
                   [] left # {} /\ ~weak /\ h.rc[target] = 0 ->
                        WithTop(h, [SvTop EXCEPT !.sv = target])
                   [] left # {} /\ (weak \/ h.rc[target] > 0) -> h

ClearReturn ==
  /\ SvTop.fn = "sv_clear" /\ SvTop.sv = NONE /\ SvTop.iter = <<>>
  /\ heap' = Pop(heap)

SvNext ==
  \/ Code
  \/ FreeTmp \/ CallDestroy \/ DestroyReturn \/ Cursed \/ ClearElem \/ ClearReturn

SvSpec == SvInit /\ [][SvNext]_heap

-----------------------------------------------------------------------------
(* Properties.                                                             *)

Strong(o) == {r \in Ref : heap.to[r] = o /\ ~heap.weak[r]}

\* The count of a value is that of the strong references and temporaries that
\* there are, also in the middle of a destructor.
RefcountIsExact ==
  \A o \in Obj :
    heap.rc[o] = Cardinality(Strong(o)) + Cardinality({i \in DOMAIN heap.tmps : heap.tmps[i] = o})

\* No reference, strong or weak, and no temporary leads to a value that is
\* being taken apart or is gone, and every weak one can be found and broken.
NoRefToFreed ==
  /\ \A r \in Ref : heap.to[r] # NONE => heap.state[heap.to[r]] = "live"
  /\ \A i \in DOMAIN heap.tmps : heap.state[heap.tmps[i]] = "live"
  /\ \A o \in Obj : heap.backrefs[o] = {r \in Ref : heap.to[r] = o /\ heap.weak[r]}

\* A value that nothing refers to any more is being freed.
NothingLeaks ==
  \A o \in Obj :
    heap.state[o] = "live" /\ heap.rc[o] = 0 =>
      \E i \in DOMAIN heap.stack : heap.stack[i].fn = "sv_clear" /\ heap.stack[i].sv = o

\* "When the last reference to an object goes away, the object is destroyed",
\* perlobj: never without the destructor of the class it is in at the end.
LastClassDestroys ==
  [][\A o \in Obj : heap.state[o] = "live" /\ heap'.state[o] = "clearing" =>
        heap.class[o] = heap.told[o]]_heap

\* Counts, references and backreferences agree, also inside of destructors.
ReferencesAreCounted == RefcountIsExact /\ NoRefToFreed

=============================================================================
