----------------------------- MODULE Objects_proofs -----------------------------
(***************************************************************************)
(* Proofs about values: with any number of them, of references and of      *)
(* destructors inside of destructors, counts are those of the references   *)
(* that there are, none leads to a value that is gone, and none whose      *)
(* count is zero is left over.  The invariant has a part about the data,   *)
(* DataInv, and one about the C functions that are active, StackInv.       *)
(*                                                                         *)
(* Then about packages: with any number of them and any changes of @ISA    *)
(* and of methods, what is cached is what a search without caches finds    *)
(* (MroInv); and, of the composed specification, the types of both.        *)
(***************************************************************************)
EXTENDS MCObjects, FiniteSetTheorems, SequenceTheorems, WellFoundedInduction, TLAPS

-----------------------------------------------------------------------------
(* References.                                                             *)

SvFrames == [fn : {"perl", "free_tmps", "sv_clear"}, sv : Obj \cup {NONE},
             class : Class \cup {NONE}, floor : Nat, iter : Seq(Obj)]
Heaps ==
  [rc : [Obj -> Nat], state : [Obj -> {"free", "live", "clearing"}],
   class : [Obj -> Class \cup {NONE}], told : [Obj -> Class \cup {NONE}],
   to : [Ref -> Obj \cup {NONE}], weak : [Ref -> BOOLEAN],
   backrefs : [Obj -> SUBSET Ref], tmps : Seq(Obj), stack : Seq(SvFrames)]

\* The data of a heap: each count is that of the references there are, they
\* lead to living values, and those that are weak can be found.
StrongIn(h, o) == {r \in Ref : h.to[r] = o /\ ~h.weak[r]}
TmpsIn(h, o) == {i \in DOMAIN h.tmps : h.tmps[i] = o}
Exact(h) ==
  \A o \in Obj :
    /\ IsFiniteSet(StrongIn(h, o))
    /\ h.rc[o] = Cardinality(StrongIn(h, o)) + Cardinality(TmpsIn(h, o))
ToLive(h) ==
  /\ \A r \in Ref : h.to[r] # NONE => h.state[h.to[r]] = "live"
  /\ \A i \in DOMAIN h.tmps : h.state[h.tmps[i]] = "live"
Backed(h) == \A o \in Obj : h.backrefs[o] = {r \in Ref : h.to[r] = o /\ h.weak[r]}
NoneIsStrong(h) == \A r \in Ref : h.to[r] = NONE => ~h.weak[r]
DataInv(h) == h \in Heaps /\ Exact(h) /\ ToLive(h) /\ Backed(h) /\ NoneIsStrong(h)

\* The stack of active functions: a destructor runs for the sv_clear() below
\* it, and only a destructor runs in the middle of one.
Clears(h, i, o) == h.stack[i].fn = "sv_clear" /\ h.stack[i].sv = o
Destroys(h, i, o) == h.stack[i].fn = "perl" /\ h.stack[i].sv = o
Bottom(h) == Len(h.stack) > 0 /\ h.stack[1].fn = "perl"
OverItsClear(h) ==
  \A i \in 1 .. Len(h.stack), o \in Obj : Destroys(h, i, o) => i > 1 /\ Clears(h, i - 1, o)
UnderItsDestructor(h) ==
  \A i \in 1 .. Len(h.stack) - 1, o \in Obj : Clears(h, i, o) => Destroys(h, i + 1, o)
OneClear(h) ==
  \A i, j \in 1 .. Len(h.stack), o \in Obj : Clears(h, i, o) /\ Clears(h, j, o) => i = j
ClearsLive(h) ==
  \A i \in 1 .. Len(h.stack), o \in Obj : Clears(h, i, o) => h.state[o] = "live"

\* $_[0] of a destructor is there as long as the destructor runs.
Own(h) ==
  \A o \in Obj :
    /\ ~h.weak[Itself(o)]
    /\ h.to[Itself(o)] = IF \E i \in 1 .. Len(h.stack) : Destroys(h, i, o) THEN o ELSE NONE

\* What sv_clear() takes apart is in one place.
ItersClear(h) ==
  \A i \in 1 .. Len(h.stack) : \A k \in 1 .. Len(h.stack[i].iter) :
    h.state[h.stack[i].iter[k]] = "clearing"
ItersOnce(h) ==
  \A i, j \in 1 .. Len(h.stack) :
    \A k \in 1 .. Len(h.stack[i].iter), l \in 1 .. Len(h.stack[j].iter) :
      h.stack[i].iter[k] = h.stack[j].iter[l] => i = j /\ k = l

\* Which destructor an object has been given to.
ToldHasClass(h) == \A o \in Obj : h.told[o] # NONE => h.class[o] # NONE
ClassWasTold(h) ==
  \A i \in 1 .. Len(h.stack) : h.stack[i].class # NONE =>
    \E o \in Obj : Clears(h, i, o) /\ h.stack[i].class = h.told[o]

\* A living value without references is being cleared.
ZeroIsCleared(h) ==
  \A o \in Obj : h.state[o] = "live" /\ h.rc[o] = 0 =>
    \E i \in 1 .. Len(h.stack) : Clears(h, i, o)

StackInv(h) ==
  /\ h \in Heaps /\ Bottom(h) /\ OverItsClear(h) /\ UnderItsDestructor(h) /\ OneClear(h)
  /\ ClearsLive(h) /\ Own(h) /\ ItersClear(h) /\ ItersOnce(h) /\ ToldHasClass(h)
  /\ ClassWasTold(h) /\ ZeroIsCleared(h)

HeapInv(h) == DataInv(h) /\ StackInv(h)

-----------------------------------------------------------------------------
(* The functions of sv.c, field by field.                                  *)

LEMMA RefNotNone == \A o \in Obj : Itself(o) \in Ref /\ (\A i \in 1 .. Slots : <<o, i>> \in Ref)
  BY RefsAssumption DEF Itself, Ref

LEMMA FrameType ==
  ASSUME NEW fn \in {"perl", "free_tmps", "sv_clear"}, NEW sv \in Obj \cup {NONE},
         NEW floor \in Nat
  PROVE  /\ SvFrame(fn, sv, floor) \in SvFrames
         /\ SvFrame(fn, sv, floor).fn = fn /\ SvFrame(fn, sv, floor).sv = sv
         /\ SvFrame(fn, sv, floor).class = NONE /\ SvFrame(fn, sv, floor).iter = <<>>
  BY DEF SvFrame, SvFrames

LEMMA PushFields ==
  ASSUME NEW h \in Heaps, NEW f \in SvFrames
  PROVE  /\ Push(h, f) \in Heaps
         /\ Push(h, f).stack = Append(h.stack, f)
         /\ Push(h, f).rc = h.rc /\ Push(h, f).state = h.state /\ Push(h, f).class = h.class
         /\ Push(h, f).told = h.told /\ Push(h, f).to = h.to /\ Push(h, f).weak = h.weak
         /\ Push(h, f).backrefs = h.backrefs /\ Push(h, f).tmps = h.tmps
<1>1. Append(h.stack, f) \in Seq(SvFrames)
  BY DEF Heaps
<1> QED
  BY <1>1 DEF Push, Heaps

LEMMA PopFields ==
  ASSUME NEW h \in Heaps, h.stack # <<>>
  PROVE  /\ Pop(h) \in Heaps
         /\ Pop(h).stack = Front(h.stack)
         /\ Pop(h).rc = h.rc /\ Pop(h).state = h.state /\ Pop(h).class = h.class
         /\ Pop(h).told = h.told /\ Pop(h).to = h.to /\ Pop(h).weak = h.weak
         /\ Pop(h).backrefs = h.backrefs /\ Pop(h).tmps = h.tmps
<1>1. Front(h.stack) \in Seq(SvFrames)
  BY DEF Heaps, Front
<1> QED
  BY <1>1 DEF Pop, Heaps

LEMMA WithTopFields ==
  ASSUME NEW h \in Heaps, h.stack # <<>>, NEW f \in SvFrames
  PROVE  LET k == WithTop(h, f) IN
         /\ k \in Heaps
         /\ k.stack = Append(Front(h.stack), f)
         /\ k.rc = h.rc /\ k.state = h.state /\ k.class = h.class
         /\ k.told = h.told /\ k.to = h.to /\ k.weak = h.weak
         /\ k.backrefs = h.backrefs /\ k.tmps = h.tmps
<1> DEFINE p == Pop(h)
<1>1. /\ p \in Heaps /\ p.stack = Front(h.stack)
      /\ p.rc = h.rc /\ p.state = h.state /\ p.class = h.class
      /\ p.told = h.told /\ p.to = h.to /\ p.weak = h.weak
      /\ p.backrefs = h.backrefs /\ p.tmps = h.tmps
  BY PopFields
<1> DEFINE k == WithTop(h, f)
<1>2. k = Push(p, f)
  BY DEF WithTop
<1> HIDE DEF p, k
<1>3. /\ Push(p, f) \in Heaps /\ Push(p, f).stack = Append(p.stack, f)
      /\ Push(p, f).rc = p.rc /\ Push(p, f).state = p.state /\ Push(p, f).class = p.class
      /\ Push(p, f).told = p.told /\ Push(p, f).to = p.to /\ Push(p, f).weak = p.weak
      /\ Push(p, f).backrefs = p.backrefs /\ Push(p, f).tmps = p.tmps
  BY <1>1, PushFields
<1>4. /\ k \in Heaps /\ k.stack = Append(Front(h.stack), f)
      /\ k.rc = h.rc /\ k.state = h.state /\ k.class = h.class
      /\ k.told = h.told /\ k.to = h.to /\ k.weak = h.weak
      /\ k.backrefs = h.backrefs /\ k.tmps = h.tmps
  BY <1>1, <1>2, <1>3
<1> QED
  BY <1>4 DEF k

LEMMA DecFields ==
  ASSUME NEW h \in Heaps, NEW o \in Obj, h.rc[o] > 0
  PROVE  LET k == Dec(h, o) IN
         /\ k \in Heaps
         /\ k.stack = IF h.rc[o] = 1 THEN Append(h.stack, SvFrame("sv_clear", o, 0)) ELSE h.stack
         /\ k.rc = [h.rc EXCEPT ![o] = h.rc[o] - 1]
         /\ k.state = h.state /\ k.class = h.class
         /\ k.told = h.told /\ k.to = h.to /\ k.weak = h.weak
         /\ k.backrefs = h.backrefs /\ k.tmps = h.tmps
<1> DEFINE d == [h EXCEPT !.rc[o] = h.rc[o] - 1]
<1>1. h.rc \in [Obj -> Nat] /\ h.rc[o] \in Nat
  BY DEF Heaps
<1>2. [h.rc EXCEPT ![o] = h.rc[o] - 1] \in [Obj -> Nat]
  BY <1>1
<1>3. /\ d \in Heaps /\ d.rc = [h.rc EXCEPT ![o] = h.rc[o] - 1] /\ d.stack = h.stack
      /\ d.state = h.state /\ d.class = h.class
      /\ d.told = h.told /\ d.to = h.to /\ d.weak = h.weak
      /\ d.backrefs = h.backrefs /\ d.tmps = h.tmps
  BY <1>2 DEF Heaps
<1>4. d.rc[o] = 0 <=> h.rc[o] = 1
  BY <1>1, <1>3
<1>5. Dec(h, o) = IF d.rc[o] = 0 THEN Push(d, SvFrame("sv_clear", o, 0)) ELSE d
  BY DEF Dec
<1>6. SvFrame("sv_clear", o, 0) \in SvFrames
  BY FrameType
<1> HIDE DEF d
<1>7. CASE h.rc[o] = 1
  <2> DEFINE f == SvFrame("sv_clear", o, 0)
  <2>1. Dec(h, o) = Push(d, f) /\ f \in SvFrames
    BY <1>4, <1>5, <1>6, <1>7
  <2> HIDE DEF f
  <2>2. /\ Push(d, f) \in Heaps /\ Push(d, f).stack = Append(d.stack, f)
        /\ Push(d, f).rc = d.rc /\ Push(d, f).state = d.state /\ Push(d, f).class = d.class
        /\ Push(d, f).told = d.told /\ Push(d, f).to = d.to /\ Push(d, f).weak = d.weak
        /\ Push(d, f).backrefs = d.backrefs /\ Push(d, f).tmps = d.tmps
    BY <1>3, <2>1, PushFields
  <2> QED
    BY <1>3, <1>7, <2>1, <2>2 DEF f
<1>8. CASE h.rc[o] # 1
  BY <1>3, <1>4, <1>5, <1>8
<1> QED
  BY <1>7, <1>8

LEMMA IncFields ==
  ASSUME NEW h \in Heaps, NEW o \in Obj
  PROVE  LET k == Inc(h, o) IN
         /\ k \in Heaps
         /\ k.rc = [h.rc EXCEPT ![o] = h.rc[o] + 1]
         /\ k.state = h.state /\ k.class = h.class
         /\ k.told = h.told /\ k.to = h.to /\ k.weak = h.weak
         /\ k.backrefs = h.backrefs /\ k.tmps = h.tmps /\ k.stack = h.stack
<1>1. [h.rc EXCEPT ![o] = h.rc[o] + 1] \in [Obj -> Nat]
  BY DEF Heaps
<1> QED
  BY <1>1 DEF Inc, Heaps

LEMMA UnsetFields ==
  ASSUME NEW h \in Heaps, NEW r \in Ref
  PROVE  LET k == Unset(h, r) IN
         /\ k \in Heaps
         /\ k.to = [h.to EXCEPT ![r] = NONE] /\ k.weak = [h.weak EXCEPT ![r] = FALSE]
         /\ k.rc = h.rc /\ k.state = h.state /\ k.class = h.class
         /\ k.told = h.told
         /\ k.backrefs = h.backrefs /\ k.tmps = h.tmps /\ k.stack = h.stack
<1>1. [h.to EXCEPT ![r] = NONE] \in [Ref -> Obj \cup {NONE}]
  BY DEF Heaps
<1>2. [h.weak EXCEPT ![r] = FALSE] \in [Ref -> BOOLEAN]
  BY DEF Heaps
<1> QED
  BY <1>1, <1>2 DEF Unset, Heaps

LEMMA DelBackrefFields ==
  ASSUME NEW h \in Heaps, NEW r \in Ref, h.to[r] # NONE
  PROVE  LET k == DelBackref(h, r) IN
         /\ k \in Heaps
         /\ k.backrefs = [h.backrefs EXCEPT ![h.to[r]] = h.backrefs[h.to[r]] \ {r}]
         /\ k.rc = h.rc /\ k.state = h.state /\ k.class = h.class
         /\ k.told = h.told /\ k.to = h.to /\ k.weak = h.weak
         /\ k.tmps = h.tmps /\ k.stack = h.stack
<1>1. h.to[r] \in Obj
  BY DEF Heaps
<1>2. [h.backrefs EXCEPT ![h.to[r]] = h.backrefs[h.to[r]] \ {r}] \in [Obj -> SUBSET Ref]
  BY <1>1 DEF Heaps
<1> QED
  BY <1>2 DEF DelBackref, Heaps

-----------------------------------------------------------------------------
(* The data under each kind of change.                                     *)

LEMMA TmpsAreFinite ==
  ASSUME NEW h \in Heaps, NEW o \in Obj
  PROVE  IsFiniteSet(TmpsIn(h, o)) /\ Cardinality(TmpsIn(h, o)) \in Nat
<1>1. DOMAIN h.tmps = 1 .. Len(h.tmps) /\ Len(h.tmps) \in Nat
  BY LenProperties DEF Heaps
<1>2. IsFiniteSet(1 .. Len(h.tmps))
  BY <1>1, FS_Interval
<1>3. TmpsIn(h, o) \subseteq 1 .. Len(h.tmps)
  BY <1>1 DEF TmpsIn
<1> QED
  BY <1>2, <1>3, FS_Subset, FS_CardinalityType

LEMMA CountFacts ==
  ASSUME NEW h, DataInv(h), NEW o \in Obj
  PROVE  /\ h.rc[o] \in Nat
         /\ IsFiniteSet(StrongIn(h, o)) /\ Cardinality(StrongIn(h, o)) \in Nat
         /\ IsFiniteSet(TmpsIn(h, o)) /\ Cardinality(TmpsIn(h, o)) \in Nat
         /\ h.rc[o] = Cardinality(StrongIn(h, o)) + Cardinality(TmpsIn(h, o))
         /\ StrongIn(h, o) # {} \/ TmpsIn(h, o) # {} => h.rc[o] > 0
<1>1. /\ h.rc[o] \in Nat
      /\ IsFiniteSet(StrongIn(h, o)) /\ Cardinality(StrongIn(h, o)) \in Nat
      /\ IsFiniteSet(TmpsIn(h, o)) /\ Cardinality(TmpsIn(h, o)) \in Nat
      /\ h.rc[o] = Cardinality(StrongIn(h, o)) + Cardinality(TmpsIn(h, o))
  BY TmpsAreFinite, FS_CardinalityType DEF DataInv, Exact, Heaps
<1>2. StrongIn(h, o) # {} => Cardinality(StrongIn(h, o)) # 0
  BY <1>1, FS_EmptySet
<1>3. TmpsIn(h, o) # {} => Cardinality(TmpsIn(h, o)) # 0
  BY <1>1, FS_EmptySet
<1> QED
  BY <1>1, <1>2, <1>3

LEMMA NotLive ==
  ASSUME NEW h, DataInv(h), NEW o \in Obj, h.state[o] # "live"
  PROVE  /\ h.rc[o] = 0 /\ StrongIn(h, o) = {} /\ TmpsIn(h, o) = {} /\ h.backrefs[o] = {}
         /\ \A r \in Ref : h.to[r] # o
<1>1. \A r \in Ref : h.to[r] # o
  BY RefsAssumption DEF DataInv, ToLive
<1>2. StrongIn(h, o) = {} /\ TmpsIn(h, o) = {} /\ h.backrefs[o] = {}
  BY <1>1 DEF DataInv, ToLive, StrongIn, TmpsIn, Backed
<1>3. Cardinality(StrongIn(h, o)) = 0 /\ Cardinality(TmpsIn(h, o)) = 0
  BY <1>2, FS_EmptySet
<1>4. h.rc[o] = Cardinality(StrongIn(h, o)) + Cardinality(TmpsIn(h, o))
  BY CountFacts
<1>5. h.rc[o] = 0
  BY <1>3, <1>4
<1> QED
  BY <1>1, <1>2, <1>5

LEMMA RefTypes ==
  ASSUME NEW h, DataInv(h), NEW r \in Ref, h.to[r] # NONE
  PROVE  h.to[r] \in Obj /\ h.state[h.to[r]] = "live"
  BY DEF DataInv, ToLive, Heaps

\* r, which leads to o, is to be counted no more.
LEMMA OneStrongLess ==
  ASSUME NEW h, DataInv(h), NEW k \in Heaps, NEW r \in Ref, NEW o \in Obj,
         h.to[r] = o, ~h.weak[r],
         \A x \in Ref \ {r} : k.to[x] = h.to[x] /\ k.weak[x] = h.weak[x],
         k.to[r] = NONE \/ k.weak[r]
  PROVE  /\ h.rc[o] > 0
         /\ \A x \in Obj : IsFiniteSet(StrongIn(k, x))
         /\ \A x \in Obj : x # o => StrongIn(k, x) = StrongIn(h, x)
         /\ Cardinality(StrongIn(k, o)) = Cardinality(StrongIn(h, o)) - 1
<1>1. r \in StrongIn(h, o)
  BY DEF StrongIn
<1>2. StrongIn(k, o) = StrongIn(h, o) \ {r}
  BY RefsAssumption DEF StrongIn
<1>3. \A x \in Obj : x # o => StrongIn(k, x) = StrongIn(h, x)
  BY RefsAssumption DEF StrongIn
<1>4. IsFiniteSet(StrongIn(h, o)) /\ h.rc[o] > 0
  BY <1>1, CountFacts
<1>5. /\ IsFiniteSet(StrongIn(k, o))
      /\ Cardinality(StrongIn(k, o)) = Cardinality(StrongIn(h, o)) - 1
  BY <1>1, <1>2, <1>4, FS_RemoveElement
<1>6. \A x \in Obj : IsFiniteSet(StrongIn(k, x))
  BY <1>3, <1>5, CountFacts
<1> QED
  BY <1>3, <1>4, <1>5, <1>6

LEMMA OneStrongMore ==
  ASSUME NEW h, DataInv(h), NEW k \in Heaps, NEW r \in Ref, NEW o \in Obj,
         h.to[r] = NONE \/ h.weak[r], k.to[r] = o, ~k.weak[r],
         h.to[r] \in {NONE, o},
         \A x \in Ref \ {r} : k.to[x] = h.to[x] /\ k.weak[x] = h.weak[x]
  PROVE  /\ \A x \in Obj : IsFiniteSet(StrongIn(k, x))
         /\ \A x \in Obj : x # o => StrongIn(k, x) = StrongIn(h, x)
         /\ Cardinality(StrongIn(k, o)) = Cardinality(StrongIn(h, o)) + 1
<1>1. r \notin StrongIn(h, o)
  BY RefsAssumption DEF StrongIn
<1>2. StrongIn(k, o) = StrongIn(h, o) \cup {r}
  BY RefsAssumption DEF StrongIn
<1>3. \A x \in Obj : x # o => StrongIn(k, x) = StrongIn(h, x)
  BY RefsAssumption DEF StrongIn
<1>5. /\ IsFiniteSet(StrongIn(k, o))
      /\ Cardinality(StrongIn(k, o)) = Cardinality(StrongIn(h, o)) + 1
  BY <1>1, <1>2, CountFacts, FS_AddElement
<1>6. \A x \in Obj : IsFiniteSet(StrongIn(k, x))
  BY <1>3, <1>5, CountFacts
<1> QED
  BY <1>3, <1>5, <1>6

\* Counts that change in step with the sets.
LEMMA ExactFrom ==
  ASSUME NEW h, DataInv(h), NEW k \in Heaps, NEW o \in Obj,
         \A x \in Obj : IsFiniteSet(StrongIn(k, x)),
         \A x \in Obj : x # o => /\ StrongIn(k, x) = StrongIn(h, x)
                                 /\ TmpsIn(k, x) = TmpsIn(h, x)
                                 /\ k.rc[x] = h.rc[x],
         k.rc[o] = Cardinality(StrongIn(k, o)) + Cardinality(TmpsIn(k, o))
  PROVE  Exact(k)
  BY DEF Exact, DataInv

LEMMA DropStrong ==
  ASSUME NEW h, DataInv(h), NEW k \in Heaps, NEW r \in Ref, NEW o \in Obj,
         h.to[r] = o, ~h.weak[r],
         k.to = [h.to EXCEPT ![r] = NONE], k.weak = [h.weak EXCEPT ![r] = FALSE],
         k.rc = [h.rc EXCEPT ![o] = h.rc[o] - 1],
         k.state = h.state, k.backrefs = h.backrefs, k.tmps = h.tmps
  PROVE  DataInv(k)
<1>1. h.to \in [Ref -> Obj \cup {NONE}] /\ h.weak \in [Ref -> BOOLEAN] /\ h.rc \in [Obj -> Nat]
  BY DEF DataInv, Heaps
<1>2. /\ \A x \in Ref \ {r} : k.to[x] = h.to[x] /\ k.weak[x] = h.weak[x]
      /\ k.to[r] = NONE /\ ~k.weak[r]
  BY <1>1
<1>3. /\ h.rc[o] > 0
      /\ \A x \in Obj : IsFiniteSet(StrongIn(k, x))
      /\ \A x \in Obj : x # o => StrongIn(k, x) = StrongIn(h, x)
      /\ Cardinality(StrongIn(k, o)) = Cardinality(StrongIn(h, o)) - 1
  BY ONLY <1>2, OneStrongLess, DataInv(h), k \in Heaps, r \in Ref, o \in Obj,
          h.to[r] = o, ~h.weak[r]
<1>4. \A x \in Obj : TmpsIn(k, x) = TmpsIn(h, x)
  BY DEF TmpsIn
<1>5. (\A x \in Obj : x # o => k.rc[x] = h.rc[x]) /\ k.rc[o] = h.rc[o] - 1
  BY <1>1
<1>6. Exact(k)
  <2>1. k.rc[o] = Cardinality(StrongIn(k, o)) + Cardinality(TmpsIn(k, o))
    BY <1>3, <1>4, <1>5, CountFacts
  <2> QED
    BY ONLY <1>3, <1>4, <1>5, <2>1, ExactFrom, DataInv(h), k \in Heaps, o \in Obj
<1>7. ToLive(k) /\ NoneIsStrong(k)
  BY <1>2 DEF DataInv, ToLive, NoneIsStrong
<1>8. Backed(k)
  <2> SUFFICES ASSUME NEW x \in Obj
               PROVE  k.backrefs[x] = {q \in Ref : k.to[q] = x /\ k.weak[q]}
    BY DEF Backed
  <2>1. \A q \in Ref : k.to[q] = x /\ k.weak[q] <=> h.to[q] = x /\ h.weak[q]
    BY <1>2
  <2> QED
    BY <2>1 DEF DataInv, Backed
<1> QED
  BY <1>6, <1>7, <1>8 DEF DataInv

LEMMA AppendTmp ==
  ASSUME NEW h \in Heaps, NEW k, NEW o \in Obj, k.tmps = Append(h.tmps, o)
  PROVE  /\ \A x \in Obj : x # o => TmpsIn(k, x) = TmpsIn(h, x)
         /\ Cardinality(TmpsIn(k, o)) = Cardinality(TmpsIn(h, o)) + 1
         /\ \A i \in DOMAIN k.tmps : k.tmps[i] = o \/ \E j \in DOMAIN h.tmps : k.tmps[i] = h.tmps[j]
<1> DEFINE n == Len(h.tmps)
<1>1. n \in Nat /\ DOMAIN h.tmps = 1 .. n /\ DOMAIN k.tmps = 1 .. n + 1
  BY LenProperties, AppendProperties DEF Heaps
<1>2. k.tmps[n + 1] = o /\ \A i \in 1 .. n : k.tmps[i] = h.tmps[i]
  BY AppendProperties DEF Heaps
<1> HIDE DEF n
<1>3. \A x \in Obj : x # o => TmpsIn(k, x) = TmpsIn(h, x)
  <2> SUFFICES ASSUME NEW x \in Obj, x # o,
                      NEW i
               PROVE  i \in TmpsIn(k, x) <=> i \in TmpsIn(h, x)
    OBVIOUS
  <2>1. i \in 1 .. n + 1 <=> i \in 1 .. n \/ i = n + 1
    BY <1>1
  <2> QED
    BY <1>1, <1>2, <2>1 DEF TmpsIn
<1>4. TmpsIn(k, o) = TmpsIn(h, o) \cup {n + 1} /\ n + 1 \notin TmpsIn(h, o)
  <2>1. ASSUME NEW i PROVE i \in TmpsIn(k, o) <=> i \in TmpsIn(h, o) \/ i = n + 1
    <3>1. i \in 1 .. n + 1 <=> i \in 1 .. n \/ i = n + 1
      BY <1>1
    <3> QED
      BY <1>1, <1>2, <3>1 DEF TmpsIn
  <2>2. n + 1 \notin 1 .. n
    BY <1>1
  <2> QED
    BY <1>1, <2>1, <2>2 DEF TmpsIn
<1>5. Cardinality(TmpsIn(k, o)) = Cardinality(TmpsIn(h, o)) + 1
  BY <1>4, TmpsAreFinite, FS_AddElement
<1>6. ASSUME NEW i \in DOMAIN k.tmps
      PROVE  k.tmps[i] = o \/ \E j \in DOMAIN h.tmps : k.tmps[i] = h.tmps[j]
  <2>1. i \in 1 .. n \/ i = n + 1
    BY <1>1
  <2> QED
    BY <1>1, <1>2, <2>1
<1> QED
  BY <1>3, <1>5, <1>6

\* The last reference of a statement becomes a temporary's.
LEMMA StrongToTmp ==
  ASSUME NEW h, DataInv(h), NEW k \in Heaps, NEW r \in Ref, NEW o \in Obj,
         h.to[r] = o, ~h.weak[r],
         k.to = [h.to EXCEPT ![r] = NONE], k.weak = [h.weak EXCEPT ![r] = FALSE],
         k.tmps = Append(h.tmps, o),
         k.rc = h.rc, k.state = h.state, k.backrefs = h.backrefs
  PROVE  DataInv(k)
<1>1. h.to \in [Ref -> Obj \cup {NONE}] /\ h.weak \in [Ref -> BOOLEAN]
  BY DEF DataInv, Heaps
<1>2. /\ \A x \in Ref \ {r} : k.to[x] = h.to[x] /\ k.weak[x] = h.weak[x]
      /\ k.to[r] = NONE /\ ~k.weak[r]
  BY <1>1
<1>3. /\ \A x \in Obj : IsFiniteSet(StrongIn(k, x))
      /\ \A x \in Obj : x # o => StrongIn(k, x) = StrongIn(h, x)
      /\ Cardinality(StrongIn(k, o)) = Cardinality(StrongIn(h, o)) - 1
  BY ONLY <1>2, OneStrongLess, DataInv(h), k \in Heaps, r \in Ref, o \in Obj,
          h.to[r] = o, ~h.weak[r]
<1>4. /\ \A x \in Obj : x # o => TmpsIn(k, x) = TmpsIn(h, x)
      /\ Cardinality(TmpsIn(k, o)) = Cardinality(TmpsIn(h, o)) + 1
      /\ \A i \in DOMAIN k.tmps :
           k.tmps[i] = o \/ \E j \in DOMAIN h.tmps : k.tmps[i] = h.tmps[j]
  BY AppendTmp DEF DataInv
<1>6. Exact(k)
  <2>1. k.rc[o] = Cardinality(StrongIn(k, o)) + Cardinality(TmpsIn(k, o))
    BY <1>3, <1>4, CountFacts
  <2> QED
    BY <1>3, <1>4, <2>1, ExactFrom
<1>7. ToLive(k) /\ NoneIsStrong(k)
  <2>1. h.state[o] = "live"
    BY RefsAssumption DEF DataInv, ToLive
  <2> QED
    BY <1>2, <1>4, <2>1 DEF DataInv, ToLive, NoneIsStrong
<1>8. Backed(k)
  <2> SUFFICES ASSUME NEW x \in Obj
               PROVE  k.backrefs[x] = {q \in Ref : k.to[q] = x /\ k.weak[q]}
    BY DEF Backed
  <2>1. \A q \in Ref : k.to[q] = x /\ k.weak[q] <=> h.to[q] = x /\ h.weak[q]
    BY <1>2
  <2> QED
    BY <2>1 DEF DataInv, Backed
<1> QED
  BY <1>6, <1>7, <1>8 DEF DataInv

LEMMA DropWeak ==
  ASSUME NEW h, DataInv(h), NEW k \in Heaps, NEW r \in Ref, NEW o \in Obj,
         h.to[r] = o, h.weak[r],
         k.to = [h.to EXCEPT ![r] = NONE], k.weak = [h.weak EXCEPT ![r] = FALSE],
         k.backrefs = [h.backrefs EXCEPT ![o] = h.backrefs[o] \ {r}],
         k.rc = h.rc, k.state = h.state, k.tmps = h.tmps
  PROVE  DataInv(k)
<1>1. /\ h.to \in [Ref -> Obj \cup {NONE}] /\ h.weak \in [Ref -> BOOLEAN]
      /\ h.backrefs \in [Obj -> SUBSET Ref]
  BY DEF DataInv, Heaps
<1>2. /\ \A x \in Ref \ {r} : k.to[x] = h.to[x] /\ k.weak[x] = h.weak[x]
      /\ k.to[r] = NONE /\ ~k.weak[r]
  BY <1>1
<1>3. \A x \in Obj : StrongIn(k, x) = StrongIn(h, x) /\ TmpsIn(k, x) = TmpsIn(h, x)
  BY <1>2, RefsAssumption DEF StrongIn, TmpsIn
<1>4. Exact(k)
  BY <1>3 DEF DataInv, Exact
<1>5. ToLive(k) /\ NoneIsStrong(k)
  BY <1>2 DEF DataInv, ToLive, NoneIsStrong
<1>6. Backed(k)
  <2> SUFFICES ASSUME NEW x \in Obj
               PROVE  k.backrefs[x] = {q \in Ref : k.to[q] = x /\ k.weak[q]}
    BY DEF Backed
  <2>1. h.backrefs[x] = {q \in Ref : h.to[q] = x /\ h.weak[q]}
    BY DEF DataInv, Backed
  <2>2. CASE x = o
    <3>1. k.backrefs[x] = h.backrefs[x] \ {r}
      BY <1>1, <2>2
    <3> QED
      BY <1>2, <2>1, <2>2, <3>1, RefsAssumption
  <2>3. CASE x # o
    <3>1. k.backrefs[x] = h.backrefs[x]
      BY <1>1, <2>3
    <3>2. \A q \in Ref : k.to[q] = x /\ k.weak[q] <=> h.to[q] = x /\ h.weak[q]
      BY <1>2, <2>3
    <3> QED
      BY <2>1, <3>1, <3>2
  <2> QED
    BY <2>2, <2>3
<1> QED
  BY <1>4, <1>5, <1>6 DEF DataInv

\* r, which led nowhere, is to lead to o.
LEMMA SetStrong ==
  ASSUME NEW h, DataInv(h), NEW k \in Heaps, NEW r \in Ref, NEW o \in Obj,
         h.to[r] = NONE, h.state[o] = "live",
         k.to = [h.to EXCEPT ![r] = o], k.weak = h.weak,
         k.rc = [h.rc EXCEPT ![o] = h.rc[o] + 1],
         k.state = h.state, k.backrefs = h.backrefs, k.tmps = h.tmps
  PROVE  DataInv(k)
<1>1. h.to \in [Ref -> Obj \cup {NONE}] /\ h.weak \in [Ref -> BOOLEAN] /\ h.rc \in [Obj -> Nat]
  BY DEF DataInv, Heaps
<1>2. /\ \A x \in Ref \ {r} : k.to[x] = h.to[x] /\ k.weak[x] = h.weak[x]
      /\ k.to[r] = o /\ ~k.weak[r] /\ ~h.weak[r]
  BY <1>1 DEF DataInv, NoneIsStrong
<1>3. /\ \A x \in Obj : IsFiniteSet(StrongIn(k, x))
      /\ \A x \in Obj : x # o => StrongIn(k, x) = StrongIn(h, x)
      /\ Cardinality(StrongIn(k, o)) = Cardinality(StrongIn(h, o)) + 1
  BY ONLY <1>2, OneStrongMore, DataInv(h), k \in Heaps, r \in Ref, o \in Obj, h.to[r] = NONE
<1>4. \A x \in Obj : TmpsIn(k, x) = TmpsIn(h, x)
  BY DEF TmpsIn
<1>5. (\A x \in Obj : x # o => k.rc[x] = h.rc[x]) /\ k.rc[o] = h.rc[o] + 1
  BY <1>1
<1>6. Exact(k)
  <2>1. k.rc[o] = Cardinality(StrongIn(k, o)) + Cardinality(TmpsIn(k, o))
    BY ONLY <1>3, <1>4, <1>5, CountFacts, DataInv(h), o \in Obj
  <2> QED
    BY ONLY <1>3, <1>4, <1>5, <2>1, ExactFrom, DataInv(h), k \in Heaps, o \in Obj
<1>7. ToLive(k) /\ NoneIsStrong(k)
  BY <1>2, RefsAssumption DEF DataInv, ToLive, NoneIsStrong
<1>8. Backed(k)
  <2> SUFFICES ASSUME NEW x \in Obj
               PROVE  k.backrefs[x] = {q \in Ref : k.to[q] = x /\ k.weak[q]}
    BY DEF Backed
  <2>1. \A q \in Ref : k.to[q] = x /\ k.weak[q] <=> h.to[q] = x /\ h.weak[q]
    BY <1>2
  <2> QED
    BY <2>1 DEF DataInv, Backed
<1> QED
  BY <1>6, <1>7, <1>8 DEF DataInv

LEMMA StrongToWeak ==
  ASSUME NEW h, DataInv(h), NEW k \in Heaps, NEW r \in Ref, NEW o \in Obj,
         h.to[r] = o, ~h.weak[r],
         k.to = h.to, k.weak = [h.weak EXCEPT ![r] = TRUE],
         k.backrefs = [h.backrefs EXCEPT ![o] = h.backrefs[o] \cup {r}],
         k.rc = [h.rc EXCEPT ![o] = h.rc[o] - 1],
         k.state = h.state, k.tmps = h.tmps
  PROVE  DataInv(k)
<1>1. /\ h.to \in [Ref -> Obj \cup {NONE}] /\ h.weak \in [Ref -> BOOLEAN]
      /\ h.rc \in [Obj -> Nat] /\ h.backrefs \in [Obj -> SUBSET Ref]
  BY DEF DataInv, Heaps
<1>2. /\ \A x \in Ref \ {r} : k.to[x] = h.to[x] /\ k.weak[x] = h.weak[x]
      /\ k.to[r] = o /\ k.weak[r]
  BY <1>1
<1>3. /\ h.rc[o] > 0
      /\ \A x \in Obj : IsFiniteSet(StrongIn(k, x))
      /\ \A x \in Obj : x # o => StrongIn(k, x) = StrongIn(h, x)
      /\ Cardinality(StrongIn(k, o)) = Cardinality(StrongIn(h, o)) - 1
  BY ONLY <1>2, OneStrongLess, DataInv(h), k \in Heaps, r \in Ref, o \in Obj,
          h.to[r] = o, ~h.weak[r]
<1>4. \A x \in Obj : TmpsIn(k, x) = TmpsIn(h, x)
  BY DEF TmpsIn
<1>5. (\A x \in Obj : x # o => k.rc[x] = h.rc[x]) /\ k.rc[o] = h.rc[o] - 1
  BY <1>1
<1>6. Exact(k)
  <2>1. k.rc[o] = Cardinality(StrongIn(k, o)) + Cardinality(TmpsIn(k, o))
    BY ONLY <1>3, <1>4, <1>5, CountFacts, DataInv(h), o \in Obj
  <2> QED
    BY ONLY <1>3, <1>4, <1>5, <2>1, ExactFrom, DataInv(h), k \in Heaps, o \in Obj
<1>7. ToLive(k) /\ NoneIsStrong(k)
  BY <1>2, RefsAssumption DEF DataInv, ToLive, NoneIsStrong
<1>8. Backed(k)
  <2> SUFFICES ASSUME NEW x \in Obj
               PROVE  k.backrefs[x] = {q \in Ref : k.to[q] = x /\ k.weak[q]}
    BY DEF Backed
  <2>1. h.backrefs[x] = {q \in Ref : h.to[q] = x /\ h.weak[q]}
    BY DEF DataInv, Backed
  <2>2. CASE x = o
    <3>1. k.backrefs[x] = h.backrefs[x] \cup {r}
      BY <1>1, <2>2
    <3> QED
      BY <1>2, <2>1, <2>2, <3>1
  <2>3. CASE x # o
    <3>1. k.backrefs[x] = h.backrefs[x]
      BY <1>1, <2>3
    <3>2. \A q \in Ref : k.to[q] = x /\ k.weak[q] <=> h.to[q] = x /\ h.weak[q]
      BY <1>2, <2>3
    <3> QED
      BY <2>1, <3>1, <3>2
  <2> QED
    BY <2>2, <2>3
<1> QED
  BY <1>6, <1>7, <1>8 DEF DataInv

LEMMA WeakToStrong ==
  ASSUME NEW h, DataInv(h), NEW k \in Heaps, NEW r \in Ref, NEW o \in Obj,
         h.to[r] = o, h.weak[r],
         k.to = h.to, k.weak = [h.weak EXCEPT ![r] = FALSE],
         k.backrefs = [h.backrefs EXCEPT ![o] = h.backrefs[o] \ {r}],
         k.rc = [h.rc EXCEPT ![o] = h.rc[o] + 1],
         k.state = h.state, k.tmps = h.tmps
  PROVE  DataInv(k)
<1>1. /\ h.to \in [Ref -> Obj \cup {NONE}] /\ h.weak \in [Ref -> BOOLEAN]
      /\ h.rc \in [Obj -> Nat] /\ h.backrefs \in [Obj -> SUBSET Ref]
  BY DEF DataInv, Heaps
<1>2. /\ \A x \in Ref \ {r} : k.to[x] = h.to[x] /\ k.weak[x] = h.weak[x]
      /\ k.to[r] = o /\ ~k.weak[r]
  BY <1>1
<1>3. /\ \A x \in Obj : IsFiniteSet(StrongIn(k, x))
      /\ \A x \in Obj : x # o => StrongIn(k, x) = StrongIn(h, x)
      /\ Cardinality(StrongIn(k, o)) = Cardinality(StrongIn(h, o)) + 1
  BY ONLY <1>2, OneStrongMore, DataInv(h), k \in Heaps, r \in Ref, o \in Obj, h.to[r] = o, h.weak[r]
<1>4. \A x \in Obj : TmpsIn(k, x) = TmpsIn(h, x)
  BY DEF TmpsIn
<1>5. (\A x \in Obj : x # o => k.rc[x] = h.rc[x]) /\ k.rc[o] = h.rc[o] + 1
  BY <1>1
<1>6. Exact(k)
  <2>1. k.rc[o] = Cardinality(StrongIn(k, o)) + Cardinality(TmpsIn(k, o))
    BY ONLY <1>3, <1>4, <1>5, CountFacts, DataInv(h), o \in Obj
  <2> QED
    BY ONLY <1>3, <1>4, <1>5, <2>1, ExactFrom, DataInv(h), k \in Heaps, o \in Obj
<1>7. ToLive(k) /\ NoneIsStrong(k)
  BY <1>2, RefsAssumption DEF DataInv, ToLive, NoneIsStrong
<1>8. Backed(k)
  <2> SUFFICES ASSUME NEW x \in Obj
               PROVE  k.backrefs[x] = {q \in Ref : k.to[q] = x /\ k.weak[q]}
    BY DEF Backed
  <2>1. h.backrefs[x] = {q \in Ref : h.to[q] = x /\ h.weak[q]}
    BY DEF DataInv, Backed
  <2>2. CASE x = o
    <3>1. k.backrefs[x] = h.backrefs[x] \ {r}
      BY <1>1, <2>2
    <3> QED
      BY <1>2, <2>1, <2>2, <3>1
  <2>3. CASE x # o
    <3>1. k.backrefs[x] = h.backrefs[x]
      BY <1>1, <2>3
    <3>2. \A q \in Ref : k.to[q] = x /\ k.weak[q] <=> h.to[q] = x /\ h.weak[q]
      BY <1>2, <2>3
    <3> QED
      BY <2>1, <3>1, <3>2
  <2> QED
    BY <2>2, <2>3
<1> QED
  BY <1>6, <1>7, <1>8 DEF DataInv

\* A new value, with one reference.
LEMMA NewValue ==
  ASSUME NEW h, DataInv(h), NEW k \in Heaps, NEW r \in Ref, NEW o \in Obj,
         h.to[r] = NONE, h.state[o] = "free",
         k.to = [h.to EXCEPT ![r] = o], k.weak = h.weak,
         k.rc = [h.rc EXCEPT ![o] = 1], k.state = [h.state EXCEPT ![o] = "live"],
         k.backrefs = h.backrefs, k.tmps = h.tmps
  PROVE  DataInv(k)
<1>0. h.rc[o] = 0 /\ \A q \in Ref : h.to[q] # o
  BY NotLive
<1>1. /\ h.to \in [Ref -> Obj \cup {NONE}] /\ h.weak \in [Ref -> BOOLEAN]
      /\ h.rc \in [Obj -> Nat] /\ h.state \in [Obj -> {"free", "live", "clearing"}]
  BY DEF DataInv, Heaps
<1>2. /\ \A x \in Ref \ {r} : k.to[x] = h.to[x] /\ k.weak[x] = h.weak[x]
      /\ k.to[r] = o /\ ~k.weak[r] /\ ~h.weak[r]
  BY <1>1 DEF DataInv, NoneIsStrong
<1>3. /\ \A x \in Obj : IsFiniteSet(StrongIn(k, x))
      /\ \A x \in Obj : x # o => StrongIn(k, x) = StrongIn(h, x)
      /\ Cardinality(StrongIn(k, o)) = Cardinality(StrongIn(h, o)) + 1
  BY ONLY <1>2, OneStrongMore, DataInv(h), k \in Heaps, r \in Ref, o \in Obj, h.to[r] = NONE
<1>4. \A x \in Obj : TmpsIn(k, x) = TmpsIn(h, x)
  BY DEF TmpsIn
<1>5. /\ \A x \in Obj : x # o => k.rc[x] = h.rc[x] /\ k.state[x] = h.state[x]
      /\ k.rc[o] = 1 /\ k.state[o] = "live"
  BY <1>1
<1>6. Exact(k)
  <2>1. k.rc[o] = Cardinality(StrongIn(k, o)) + Cardinality(TmpsIn(k, o))
    BY ONLY <1>0, <1>3, <1>4, <1>5, CountFacts, DataInv(h), o \in Obj
  <2> QED
    BY ONLY <1>3, <1>4, <1>5, <2>1, ExactFrom, DataInv(h), k \in Heaps, o \in Obj
<1>7. ToLive(k) /\ NoneIsStrong(k)
  <2>1. ASSUME NEW x \in Ref, k.to[x] # NONE PROVE k.state[k.to[x]] = "live"
    <3>1. CASE x = r
      BY <1>2, <1>5, <3>1
    <3>2. CASE x # r
      <4>1. k.to[x] = h.to[x] /\ h.to[x] \in Obj /\ h.to[x] # o
        BY <1>0, <1>1, <1>2, <2>1, <3>2
      <4>2. h.state[h.to[x]] = "live"
        BY <2>1, <4>1 DEF DataInv, ToLive
      <4> QED
        BY <1>5, <4>1, <4>2
    <3> QED
      BY <3>1, <3>2
  <2>2. ASSUME NEW i \in DOMAIN k.tmps PROVE k.state[k.tmps[i]] = "live"
    <3>1. h.tmps[i] \in Obj /\ h.state[h.tmps[i]] = "live"
      <4>1. h.tmps \in Seq(Obj)
        BY DEF DataInv, Heaps
      <4> QED
        BY <4>1 DEF DataInv, ToLive
    <3>2. h.tmps[i] # o
      BY <3>1
    <3> QED
      BY <1>5, <3>1, <3>2
  <2>3. NoneIsStrong(k)
    BY <1>2, RefsAssumption DEF DataInv, NoneIsStrong
  <2> QED
    BY <2>1, <2>2, <2>3 DEF ToLive
<1>8. Backed(k)
  <2> SUFFICES ASSUME NEW x \in Obj
               PROVE  k.backrefs[x] = {q \in Ref : k.to[q] = x /\ k.weak[q]}
    BY DEF Backed
  <2>1. \A q \in Ref : k.to[q] = x /\ k.weak[q] <=> h.to[q] = x /\ h.weak[q]
    BY <1>2
  <2> QED
    BY <2>1 DEF DataInv, Backed
<1> QED
  BY <1>6, <1>7, <1>8 DEF DataInv

LEMMA DropTmp ==
  ASSUME NEW h, DataInv(h), NEW k \in Heaps, NEW o \in Obj,
         h.tmps # <<>>, o = Last(h.tmps),
         k.tmps = Front(h.tmps), k.rc = [h.rc EXCEPT ![o] = h.rc[o] - 1],
         k.to = h.to, k.weak = h.weak, k.state = h.state, k.backrefs = h.backrefs
  PROVE  h.rc[o] > 0 /\ DataInv(k)
<1> DEFINE n == Len(h.tmps)
<1>1. h.tmps \in Seq(Obj) /\ h.rc \in [Obj -> Nat]
  BY DEF DataInv, Heaps
<1>2. n \in Nat \ {0} /\ DOMAIN h.tmps = 1 .. n /\ h.tmps[n] = o
  BY <1>1, EmptySeq, LenProperties DEF Last
<1>3. DOMAIN k.tmps = 1 .. n - 1 /\ \A i \in 1 .. n - 1 : k.tmps[i] = h.tmps[i]
  BY <1>1, <1>2 DEF Front
<1> HIDE DEF n
<1>4. \A i : i \in 1 .. n <=> i \in 1 .. n - 1 \/ i = n
  BY <1>2
<1>5. n \notin 1 .. n - 1
  BY <1>2
<1>6. \A x \in Obj : x # o => TmpsIn(k, x) = TmpsIn(h, x)
  BY <1>2, <1>3, <1>4, Zenon DEF TmpsIn
<1>7. n \in TmpsIn(h, o) /\ TmpsIn(k, o) = TmpsIn(h, o) \ {n}
  <2>1. n \in TmpsIn(h, o)
    BY <1>2, <1>4 DEF TmpsIn
  <2> QED
    BY <1>2, <1>3, <1>4, <1>5, <2>1, Zenon DEF TmpsIn
<1>8. Cardinality(TmpsIn(k, o)) = Cardinality(TmpsIn(h, o)) - 1 /\ h.rc[o] > 0
  <2>1. IsFiniteSet(TmpsIn(h, o)) /\ h.rc[o] > 0
    BY ONLY <1>7, CountFacts, DataInv(h), o \in Obj
  <2> QED
    BY <1>7, <2>1, FS_RemoveElement
<1>9. (\A x \in Obj : x # o => k.rc[x] = h.rc[x]) /\ k.rc[o] = h.rc[o] - 1
  BY <1>1
<1>10. \A x \in Obj : StrongIn(k, x) = StrongIn(h, x)
  BY DEF StrongIn
<1>11. Exact(k)
  <2>1. k.rc[o] = Cardinality(StrongIn(k, o)) + Cardinality(TmpsIn(k, o))
    BY ONLY <1>8, <1>9, <1>10, CountFacts, DataInv(h), o \in Obj
  <2>2. \A x \in Obj : IsFiniteSet(StrongIn(k, x))
    BY <1>10, CountFacts
  <2> QED
    BY ONLY <1>6, <1>9, <1>10, <2>1, <2>2, ExactFrom, DataInv(h), k \in Heaps, o \in Obj
<1>12. ToLive(k)
  <2>1. ASSUME NEW i \in DOMAIN k.tmps PROVE k.state[k.tmps[i]] = "live"
    BY <1>2, <1>3, <1>4, <2>1 DEF DataInv, ToLive
  <2> QED
    BY <2>1 DEF DataInv, ToLive
<1> QED
  BY <1>8, <1>11, <1>12 DEF DataInv, Backed, NoneIsStrong

\* A value that nothing refers to is going to be taken apart.
LEMMA KillWeak ==
  ASSUME NEW h, DataInv(h), NEW k \in Heaps, NEW o \in Obj,
         h.rc[o] = 0,
         k.to = [r \in Ref |-> IF r \in h.backrefs[o] THEN NONE ELSE h.to[r]],
         k.weak = [r \in Ref |-> r \notin h.backrefs[o] /\ h.weak[r]],
         k.backrefs = [h.backrefs EXCEPT ![o] = {}],
         k.state = [h.state EXCEPT ![o] = "clearing"],
         k.rc = h.rc, k.tmps = h.tmps
  PROVE  DataInv(k)
<1>1. /\ h.to \in [Ref -> Obj \cup {NONE}] /\ h.weak \in [Ref -> BOOLEAN]
      /\ h.state \in [Obj -> {"free", "live", "clearing"}] /\ h.tmps \in Seq(Obj)
      /\ h.backrefs \in [Obj -> SUBSET Ref]
  BY DEF DataInv, Heaps
<1>2. StrongIn(h, o) = {} /\ TmpsIn(h, o) = {}
  BY CountFacts
<1>3. h.backrefs[o] = {r \in Ref : h.to[r] = o}
  BY <1>2 DEF StrongIn, DataInv, Backed
<1>4. \A r \in Ref : /\ h.to[r] = o => k.to[r] = NONE /\ ~k.weak[r]
                     /\ h.to[r] # o => k.to[r] = h.to[r] /\ (k.weak[r] <=> h.weak[r])
  BY <1>3
<1>5. /\ \A x \in Obj : x # o => StrongIn(k, x) = StrongIn(h, x)
      /\ StrongIn(k, o) = StrongIn(h, o)
  BY <1>2, <1>4, RefsAssumption DEF StrongIn
<1>6. \A x \in Obj : TmpsIn(k, x) = TmpsIn(h, x)
  BY DEF TmpsIn
<1>7. Exact(k)
  BY <1>5, <1>6 DEF DataInv, Exact
<1>8. \A x \in Obj : x # o => k.state[x] = h.state[x]
  BY <1>1
<1>9. ToLive(k)
  <2>1. ASSUME NEW r \in Ref, k.to[r] # NONE PROVE k.state[k.to[r]] = "live"
    <3>1. h.to[r] # o /\ k.to[r] = h.to[r] /\ h.to[r] \in Obj
      BY <1>1, <1>4, <2>1
    <3> QED
      BY <1>8, <2>1, <3>1 DEF DataInv, ToLive
  <2>2. ASSUME NEW i \in DOMAIN k.tmps PROVE k.state[k.tmps[i]] = "live"
    <3>1. h.tmps[i] \in Obj /\ h.tmps[i] # o
      BY <1>1, <1>2 DEF TmpsIn
    <3> QED
      BY <1>8, <3>1 DEF DataInv, ToLive
  <2> QED
    BY <2>1, <2>2 DEF ToLive
<1>10. NoneIsStrong(k)
  BY <1>4 DEF DataInv, NoneIsStrong
<1>11. Backed(k)
  <2> SUFFICES ASSUME NEW x \in Obj
               PROVE  k.backrefs[x] = {q \in Ref : k.to[q] = x /\ k.weak[q]}
    BY DEF Backed
  <2>1. h.backrefs[x] = {q \in Ref : h.to[q] = x /\ h.weak[q]}
    BY DEF DataInv, Backed
  <2>2. CASE x = o
    BY <1>1, <1>4, <2>2, RefsAssumption
  <2>3. CASE x # o
    <3>1. k.backrefs[x] = h.backrefs[x]
      BY <1>1, <2>3
    <3>2. \A q \in Ref : k.to[q] = x /\ k.weak[q] <=> h.to[q] = x /\ h.weak[q]
      BY <1>4, <2>3, RefsAssumption
    <3> QED
      BY <2>1, <3>1, <3>2
  <2> QED
    BY <2>2, <2>3
<1> QED
  BY <1>7, <1>9, <1>10, <1>11 DEF DataInv

\* What is not living may change its state.
LEMMA StateFree ==
  ASSUME NEW h, DataInv(h), NEW k \in Heaps, NEW o \in Obj,
         h.state[o] # "live", k.state = [h.state EXCEPT ![o] = "free"],
         k.rc = h.rc, k.to = h.to, k.weak = h.weak, k.backrefs = h.backrefs, k.tmps = h.tmps
  PROVE  DataInv(k)
<1>1. /\ h.to \in [Ref -> Obj \cup {NONE}] /\ h.tmps \in Seq(Obj)
      /\ h.state \in [Obj -> {"free", "live", "clearing"}]
  BY DEF DataInv, Heaps
<1>2. \A x \in Obj : h.state[x] = "live" => k.state[x] = "live"
  BY <1>1
<1>3. ToLive(k)
  BY <1>1, <1>2 DEF DataInv, ToLive
<1>4. Exact(k)
  BY DEF DataInv, Exact, StrongIn, TmpsIn
<1> QED
  BY <1>3, <1>4 DEF DataInv, Backed, NoneIsStrong

\* Neither classes nor the stack are part of it.
LEMMA DataSame ==
  ASSUME NEW h, DataInv(h), NEW k \in Heaps,
         k.state = h.state, k.rc = h.rc, k.to = h.to, k.weak = h.weak,
         k.backrefs = h.backrefs, k.tmps = h.tmps
  PROVE  DataInv(k)
<1>1. Exact(k)
  BY DEF DataInv, Exact, StrongIn, TmpsIn
<1> QED
  BY <1>1 DEF DataInv, ToLive, Backed, NoneIsStrong

-----------------------------------------------------------------------------
(* The stack under each kind of change.                                    *)

LEMMA StackLength == \A h \in Heaps : Len(h.stack) \in Nat
  BY LenProperties DEF Heaps

LEMMA FrameFields ==
  ASSUME NEW h \in Heaps, NEW i \in 1 .. Len(h.stack)
  PROVE  /\ h.stack[i] \in SvFrames
         /\ h.stack[i].iter \in Seq(Obj) /\ Len(h.stack[i].iter) \in Nat
         /\ \A l \in 1 .. Len(h.stack[i].iter) : h.stack[i].iter[l] \in Obj
<1>1. h.stack[i] \in SvFrames
  BY ElementOfSeq DEF Heaps
<1>2. h.stack[i].iter \in Seq(Obj)
  BY <1>1 DEF SvFrames
<1> QED
  BY <1>1, <1>2, LenProperties, ElementOfSeq

LEMMA PushedStack ==
  ASSUME NEW h \in Heaps, NEW f \in SvFrames, NEW s, s = Append(h.stack, f)
  PROVE  /\ Len(s) = Len(h.stack) + 1 /\ s[Len(h.stack) + 1] = f
         /\ \A i \in 1 .. Len(h.stack) : s[i] = h.stack[i]
  BY AppendProperties DEF Heaps

LEMMA PoppedStack ==
  ASSUME NEW h \in Heaps, h.stack # <<>>
  PROVE  /\ Len(h.stack) \in Nat \ {0}
         /\ Front(h.stack) \in Seq(SvFrames)
         /\ Len(Front(h.stack)) = Len(h.stack) - 1
         /\ \A i \in 1 .. Len(h.stack) - 1 : Front(h.stack)[i] = h.stack[i]
         /\ Last(h.stack) = h.stack[Len(h.stack)]
<1>1. h.stack \in Seq(SvFrames) /\ Len(h.stack) \in Nat \ {0}
  BY EmptySeq, LenProperties DEF Heaps
<1> QED
  BY <1>1 DEF Front, Last

LEMMA ReplacedStack ==
  ASSUME NEW h \in Heaps, h.stack # <<>>, NEW f \in SvFrames,
         NEW s, s = Append(Front(h.stack), f)
  PROVE  /\ Len(s) = Len(h.stack) /\ s[Len(h.stack)] = f
         /\ \A i \in 1 .. Len(h.stack) - 1 : s[i] = h.stack[i]
<1> DEFINE g == Front(h.stack)
<1>1. g \in Seq(SvFrames) /\ Len(g) = Len(h.stack) - 1 /\ Len(h.stack) \in Nat
      /\ \A i \in 1 .. Len(h.stack) - 1 : g[i] = h.stack[i]
  BY PoppedStack
<1>2. s = Append(g, f)
  OBVIOUS
<1> HIDE DEF g
<1>3. Len(s) = Len(g) + 1 /\ s[Len(g) + 1] = f /\ \A i \in 1 .. Len(g) : s[i] = g[i]
  BY <1>1, <1>2, AppendProperties
<1> QED
  BY <1>1, <1>3

LEMMA SameStack ==
  ASSUME NEW h, StackInv(h), NEW k \in Heaps,
         k.stack = h.stack, k.told = h.told,
         \A o \in Obj : k.to[Itself(o)] = h.to[Itself(o)] /\ k.weak[Itself(o)] = h.weak[Itself(o)],
         \A o \in Obj : h.state[o] \in {"live", "clearing"} => k.state[o] = h.state[o],
         \A o \in Obj : h.class[o] # NONE => k.class[o] # NONE,
         \A o \in Obj : k.state[o] = "live" /\ k.rc[o] = 0 => h.state[o] = "live" /\ h.rc[o] = 0
  PROVE  StackInv(k)
<1>0. h \in Heaps
  BY DEF StackInv
<1>1. Bottom(k) /\ OverItsClear(k) /\ UnderItsDestructor(k) /\ OneClear(k)
  BY DEF StackInv, Bottom, OverItsClear, UnderItsDestructor, OneClear, Clears, Destroys
<1>2. ClearsLive(k)
  BY DEF StackInv, ClearsLive, Clears
<1>3. Own(k)
  BY DEF StackInv, Own, Destroys
<1>4. ItersClear(k)
  <2> SUFFICES ASSUME NEW i \in 1 .. Len(h.stack), NEW l \in 1 .. Len(h.stack[i].iter)
               PROVE  k.state[h.stack[i].iter[l]] = "clearing"
    BY DEF ItersClear
  <2>1. h.stack[i].iter[l] \in Obj
    BY <1>0, FrameFields
  <2>2. h.state[h.stack[i].iter[l]] = "clearing"
    BY DEF StackInv, ItersClear
  <2> QED
    BY <2>1, <2>2
<1>5. ItersOnce(k)
  BY DEF StackInv, ItersOnce
<1>6. ToldHasClass(k) /\ ClassWasTold(k)
  BY DEF StackInv, ToldHasClass, ClassWasTold, Clears
<1>7. ZeroIsCleared(k)
  BY DEF StackInv, ZeroIsCleared, Clears
<1> QED
  BY <1>1, <1>2, <1>3, <1>4, <1>5, <1>6, <1>7 DEF StackInv

LEMMA PushStack ==
  ASSUME NEW h, StackInv(h), NEW k \in Heaps, NEW f \in SvFrames,
         k.stack = Append(h.stack, f), f.iter = <<>>, f.class = NONE,
         k.state = h.state, k.told = h.told, k.class = h.class,
         \A o \in Obj : Clears(h, Len(h.stack), o) <=> f.fn = "perl" /\ f.sv = o,
         \A o \in Obj : f.fn = "sv_clear" /\ f.sv = o =>
           h.state[o] = "live" /\ \A i \in 1 .. Len(h.stack) : ~Clears(h, i, o),
         \A o \in Obj :
           /\ k.to[Itself(o)] = IF f.fn = "perl" /\ f.sv = o THEN o ELSE h.to[Itself(o)]
           /\ k.weak[Itself(o)] = h.weak[Itself(o)],
         \A o \in Obj : k.state[o] = "live" /\ k.rc[o] = 0 =>
           h.rc[o] = 0 \/ (f.fn = "sv_clear" /\ f.sv = o)
  PROVE  StackInv(k)
<1> DEFINE n == Len(h.stack)
<1>0. h \in Heaps /\ n \in Nat /\ n > 0
  BY StackLength DEF StackInv, Bottom
<1>1. Len(k.stack) = n + 1 /\ k.stack[n + 1] = f /\ \A i \in 1 .. n : k.stack[i] = h.stack[i]
  BY <1>0, PushedStack
<1>2. /\ \A o \in Obj : Clears(h, n, o) <=> f.fn = "perl" /\ f.sv = o
      /\ \A o \in Obj : f.fn = "sv_clear" /\ f.sv = o =>
           h.state[o] = "live" /\ \A i \in 1 .. n : ~Clears(h, i, o)
  OBVIOUS
<1> HIDE DEF n
<1>3. \A i : i \in 1 .. n + 1 <=> i \in 1 .. n \/ i = n + 1
  BY <1>0
<1>4. /\ \A o \in Obj : \A i \in 1 .. n : /\ Clears(k, i, o) <=> Clears(h, i, o)
                                          /\ Destroys(k, i, o) <=> Destroys(h, i, o)
      /\ \A o \in Obj : /\ Clears(k, n + 1, o) <=> f.fn = "sv_clear" /\ f.sv = o
                        /\ Destroys(k, n + 1, o) <=> f.fn = "perl" /\ f.sv = o
  BY <1>1 DEF Clears, Destroys
<1>5. Len(h.stack) = n /\ n + 1 - 1 = n /\ n \in 1 .. n
  BY <1>0 DEF n
<1>6. Bottom(k)
  BY <1>0, <1>1, <1>5 DEF StackInv, Bottom
<1>7. OverItsClear(k)
  <2> SUFFICES ASSUME NEW i \in 1 .. n + 1, NEW o \in Obj, Destroys(k, i, o)
               PROVE  i > 1 /\ Clears(k, i - 1, o)
    BY <1>1 DEF OverItsClear
  <2>1. CASE i = n + 1
    BY <1>0, <1>2, <1>4, <1>5, <2>1
  <2>2. CASE i \in 1 .. n
    <3>1. i > 1 /\ Clears(h, i - 1, o) /\ i - 1 \in 1 .. n
      BY <1>0, <1>4, <1>5, <2>2 DEF StackInv, OverItsClear
    <3> QED
      BY <1>4, <3>1
  <2> QED
    BY <1>3, <2>1, <2>2
<1>8. UnderItsDestructor(k)
  <2> SUFFICES ASSUME NEW i \in 1 .. n, NEW o \in Obj, Clears(k, i, o)
               PROVE  Destroys(k, i + 1, o)
    BY <1>1, <1>5 DEF UnderItsDestructor
  <2>1. CASE i = n
    BY <1>2, <1>4, <2>1
  <2>2. CASE i \in 1 .. n - 1
    <3>1. Destroys(h, i + 1, o) /\ i + 1 \in 1 .. n
      BY <1>0, <1>4, <1>5, <2>2 DEF StackInv, UnderItsDestructor
    <3> QED
      BY <1>4, <3>1
  <2> QED
    BY <1>0, <2>1, <2>2
<1>9. OneClear(k)
  <2> SUFFICES ASSUME NEW i \in 1 .. n + 1, NEW j \in 1 .. n + 1, NEW o \in Obj,
                      Clears(k, i, o), Clears(k, j, o)
               PROVE  i = j
    BY <1>1 DEF OneClear
  <2>1. CASE i \in 1 .. n /\ j \in 1 .. n
    BY <1>4, <1>5, <2>1 DEF StackInv, OneClear
  <2>2. CASE i = n + 1 \/ j = n + 1
    <3>1. f.fn = "sv_clear" /\ f.sv = o
      BY <1>4, <2>2
    <3>2. \A m \in 1 .. n : ~Clears(k, m, o)
      BY <1>2, <1>4, <3>1
    <3> QED
      BY <1>3, <3>2
  <2> QED
    BY <1>3, <2>1, <2>2
<1>10. ClearsLive(k)
  BY <1>1, <1>2, <1>3, <1>4, <1>5 DEF StackInv, ClearsLive
<1>11. Own(k)
  <2> SUFFICES ASSUME NEW o \in Obj
               PROVE  k.to[Itself(o)] = IF \E i \in 1 .. n + 1 : Destroys(k, i, o) THEN o ELSE NONE
    BY <1>1 DEF StackInv, Own
  <2>1. (\E i \in 1 .. n + 1 : Destroys(k, i, o)) <=>
          (\E i \in 1 .. n : Destroys(h, i, o)) \/ (f.fn = "perl" /\ f.sv = o)
    BY <1>3, <1>4
  <2>2. h.to[Itself(o)] = IF \E i \in 1 .. n : Destroys(h, i, o) THEN o ELSE NONE
    BY <1>5 DEF StackInv, Own
  <2> QED
    BY <2>1, <2>2
<1>12. ItersClear(k)
  <2>1. Len(f.iter) = 0
    OBVIOUS
  <2> QED
    BY <1>1, <1>3, <1>5, <2>1 DEF StackInv, ItersClear
<1>13. ItersOnce(k)
  <2>1. Len(f.iter) = 0
    OBVIOUS
  <2> QED
    BY <1>1, <1>3, <1>5, <2>1 DEF StackInv, ItersOnce
<1>14. ToldHasClass(k)
  BY DEF StackInv, ToldHasClass
<1>15. ClassWasTold(k)
  <2> SUFFICES ASSUME NEW i \in 1 .. n + 1, k.stack[i].class # NONE
               PROVE  \E o \in Obj : Clears(k, i, o) /\ k.stack[i].class = k.told[o]
    BY <1>1 DEF ClassWasTold
  <2>1. i \in 1 .. n /\ k.stack[i] = h.stack[i]
    BY <1>1, <1>3
  <2>2. PICK o \in Obj : Clears(h, i, o) /\ h.stack[i].class = h.told[o]
    BY <1>5, <2>1 DEF StackInv, ClassWasTold
  <2> QED
    BY <1>4, <2>1, <2>2
<1>16. ZeroIsCleared(k)
  <2> SUFFICES ASSUME NEW o \in Obj, k.state[o] = "live", k.rc[o] = 0
               PROVE  \E i \in 1 .. n + 1 : Clears(k, i, o)
    BY <1>1 DEF ZeroIsCleared
  <2>1. CASE h.rc[o] = 0
    BY <1>3, <1>4, <1>5, <2>1 DEF StackInv, ZeroIsCleared
  <2>2. CASE f.fn = "sv_clear" /\ f.sv = o
    BY <1>3, <1>4, <2>2
  <2> QED
    BY <2>1, <2>2
<1> QED
  BY <1>6, <1>7, <1>8, <1>9, <1>10, <1>11, <1>12, <1>13, <1>14, <1>15, <1>16 DEF StackInv

\* The function on top, sv_clear(), goes on with another frame.
Replaces(h, k, f, n) ==
  /\ n = Len(h.stack) /\ h.stack[n].fn = "sv_clear" /\ f.fn = "sv_clear"
  /\ k.stack = Append(Front(h.stack), f)
  /\ \A o \in Obj : k.to[Itself(o)] = h.to[Itself(o)] /\ k.weak[Itself(o)] = h.weak[Itself(o)]
  /\ \A o \in Obj : f.sv = o =>
       k.state[o] = "live" /\ \A i \in 1 .. n - 1 : ~Clears(h, i, o)
  /\ \A i \in 1 .. n - 1, o \in Obj : Clears(h, i, o) =>
       k.state[o] = "live" /\ k.told[o] = h.told[o]
  /\ \A i \in 1 .. n - 1 : \A l \in 1 .. Len(h.stack[i].iter) :
       k.state[h.stack[i].iter[l]] = "clearing"
  /\ \A l \in 1 .. Len(f.iter) :
       /\ k.state[f.iter[l]] = "clearing"
       /\ \A m \in 1 .. Len(f.iter) : f.iter[l] = f.iter[m] => l = m
       /\ \A i \in 1 .. n - 1 : \A m \in 1 .. Len(h.stack[i].iter) :
            f.iter[l] # h.stack[i].iter[m]
  /\ ToldHasClass(k)
  /\ f.class # NONE => f.sv \in Obj /\ f.class = k.told[f.sv]
  /\ \A o \in Obj : k.state[o] = "live" /\ k.rc[o] = 0 =>
       f.sv = o \/ \E i \in 1 .. n - 1 : Clears(h, i, o)

LEMMA ReplaceTop ==
  ASSUME NEW h, StackInv(h), NEW k \in Heaps, NEW f \in SvFrames, NEW n, Replaces(h, k, f, n)
  PROVE  StackInv(k)
<1> USE DEF Replaces
<1>0. h \in Heaps /\ n \in Nat /\ n > 1 /\ h.stack # <<>>
  BY StackLength, EmptySeq DEF StackInv, Bottom
<1>1. Len(k.stack) = n /\ k.stack[n] = f /\ \A i \in 1 .. n - 1 : k.stack[i] = h.stack[i]
  BY ONLY <1>0, ReplacedStack, n = Len(h.stack), f \in SvFrames,
          k.stack = Append(Front(h.stack), f)
<1>3. /\ \A i : i \in 1 .. n <=> i \in 1 .. n - 1 \/ i = n
      /\ 1 \in 1 .. n - 1 /\ n \in 1 .. n
  BY <1>0
<1>4. /\ \A o \in Obj : \A i \in 1 .. n - 1 : /\ Clears(k, i, o) <=> Clears(h, i, o)
                                              /\ Destroys(k, i, o) <=> Destroys(h, i, o)
      /\ \A o \in Obj : Clears(k, n, o) <=> f.sv = o
      /\ \A o : ~Destroys(k, n, o) /\ ~Destroys(h, n, o)
  BY <1>1 DEF Clears, Destroys
<1>6. Bottom(k)
  BY <1>0, <1>1, <1>3 DEF StackInv, Bottom
<1>7. OverItsClear(k)
  <2> SUFFICES ASSUME NEW i \in 1 .. n, NEW o \in Obj, Destroys(k, i, o)
               PROVE  i > 1 /\ Clears(k, i - 1, o)
    BY <1>1 DEF OverItsClear
  <2>1. i \in 1 .. n - 1 /\ Destroys(h, i, o)
    BY <1>3, <1>4
  <2>2. i > 1 /\ Clears(h, i - 1, o)
    BY <1>3, <2>1 DEF StackInv, OverItsClear
  <2>3. i - 1 \in 1 .. n - 1
    BY <1>0, <2>1, <2>2
  <2> QED
    BY <1>4, <2>2, <2>3
<1>8. UnderItsDestructor(k)
  <2> SUFFICES ASSUME NEW i \in 1 .. n - 1, NEW o \in Obj, Clears(k, i, o)
               PROVE  Destroys(k, i + 1, o)
    BY <1>1 DEF UnderItsDestructor
  <2>1. Destroys(h, i + 1, o)
    BY <1>4 DEF StackInv, UnderItsDestructor
  <2>2. i + 1 \in 1 .. n - 1
    <3>1. i + 1 # n
      BY <1>4, <2>1
    <3> QED
      BY <1>0, <3>1
  <2> QED
    BY <1>4, <2>1, <2>2
<1>9. OneClear(k)
  <2> SUFFICES ASSUME NEW i \in 1 .. n, NEW j \in 1 .. n, NEW o \in Obj,
                      Clears(k, i, o), Clears(k, j, o)
               PROVE  i = j
    BY <1>1 DEF OneClear
  <2>1. CASE i \in 1 .. n - 1 /\ j \in 1 .. n - 1
    BY <1>3, <1>4, <2>1 DEF StackInv, OneClear
  <2>2. CASE i = n \/ j = n
    <3>1. \A m \in 1 .. n - 1 : ~Clears(k, m, o)
      BY <1>4, <2>2
    <3> QED
      BY <1>3, <3>1
  <2> QED
    BY <1>3, <2>1, <2>2
<1>10. ClearsLive(k)
  BY <1>1, <1>3, <1>4 DEF ClearsLive
<1>11. Own(k)
  <2> SUFFICES ASSUME NEW o \in Obj
               PROVE  k.to[Itself(o)] = IF \E i \in 1 .. n : Destroys(k, i, o) THEN o ELSE NONE
    BY <1>1 DEF StackInv, Own
  <2>1. (\E i \in 1 .. n : Destroys(k, i, o)) <=> (\E i \in 1 .. n : Destroys(h, i, o))
    BY <1>3, <1>4
  <2>2. h.to[Itself(o)] = IF \E i \in 1 .. n : Destroys(h, i, o) THEN o ELSE NONE
    BY DEF StackInv, Own
  <2> QED
    BY <2>1, <2>2
<1>12. ItersClear(k)
  <2> SUFFICES ASSUME NEW i \in 1 .. n, NEW l \in 1 .. Len(k.stack[i].iter)
               PROVE  k.state[k.stack[i].iter[l]] = "clearing"
    BY <1>1 DEF ItersClear
  <2>1. CASE i = n
    BY <1>1, <2>1
  <2>2. CASE i \in 1 .. n - 1
    BY SMTT(30), <1>1, <2>2
  <2> QED
    BY <1>3, <2>1, <2>2
<1>13. ItersOnce(k)
  <2> SUFFICES ASSUME NEW i \in 1 .. n, NEW j \in 1 .. n,
                      NEW l \in 1 .. Len(k.stack[i].iter), NEW m \in 1 .. Len(k.stack[j].iter),
                      k.stack[i].iter[l] = k.stack[j].iter[m]
               PROVE  i = j /\ l = m
    BY <1>1 DEF ItersOnce
  <2>1. CASE i \in 1 .. n - 1 /\ j \in 1 .. n - 1
    <3>1. i \in 1 .. n /\ j \in 1 .. n /\ k.stack[i] = h.stack[i] /\ k.stack[j] = h.stack[j]
      BY <1>1, <1>3, <2>1
    <3> QED
      BY <3>1 DEF StackInv, ItersOnce
  <2>2. CASE i = n /\ j = n
    BY <1>1, <2>2
  <2>3. CASE i = n /\ j \in 1 .. n - 1
    <3>1. k.stack[i] = f /\ k.stack[j] = h.stack[j]
      BY <1>1, <2>3
    <3>2. l \in 1 .. Len(f.iter) /\ m \in 1 .. Len(h.stack[j].iter)
      BY <3>1
    <3>3. f.iter[l] # h.stack[j].iter[m]
      BY SMTT(30), <2>3, <3>2
    <3> QED
      BY <3>1, <3>3
  <2>4. CASE i \in 1 .. n - 1 /\ j = n
    <3>1. k.stack[j] = f /\ k.stack[i] = h.stack[i]
      BY <1>1, <2>4
    <3>2. m \in 1 .. Len(f.iter) /\ l \in 1 .. Len(h.stack[i].iter)
      BY <3>1
    <3>3. f.iter[m] # h.stack[i].iter[l]
      BY <2>4, <3>2
    <3> QED
      BY <3>1, <3>3
  <2> QED
    BY <1>3, <2>1, <2>2, <2>3, <2>4
<1>15. ClassWasTold(k)
  <2> SUFFICES ASSUME NEW i \in 1 .. n, k.stack[i].class # NONE
               PROVE  \E o \in Obj : Clears(k, i, o) /\ k.stack[i].class = k.told[o]
    BY <1>1 DEF ClassWasTold
  <2>1. CASE i = n
    BY <1>1, <1>4, <2>1
  <2>2. CASE i \in 1 .. n - 1
    <3>1. i \in 1 .. n /\ k.stack[i] = h.stack[i]
      BY <1>1, <1>3, <2>2
    <3>2. PICK o \in Obj : Clears(h, i, o) /\ h.stack[i].class = h.told[o]
      BY <3>1 DEF StackInv, ClassWasTold
    <3>3. k.told[o] = h.told[o] /\ Clears(k, i, o)
      BY <1>4, <2>2, <3>2
    <3> QED
      BY <3>1, <3>2, <3>3
  <2> QED
    BY <1>3, <2>1, <2>2
<1>16. ZeroIsCleared(k)
  BY <1>1, <1>3, <1>4 DEF ZeroIsCleared
<1> QED
  BY <1>6, <1>7, <1>8, <1>9, <1>10, <1>11, <1>12, <1>13, <1>15, <1>16 DEF StackInv

\* The function on top returns.
LEMMA PopStack ==
  ASSUME NEW h, StackInv(h), NEW k \in Heaps, NEW g,
         g = h.stack[Len(h.stack)], g.fn # "perl" \/ g.sv # NONE,
         g.fn = "sv_clear" => g.sv = NONE,
         k.stack = Front(h.stack),
         k.state = h.state, k.told = h.told, k.class = h.class,
         \A o \in Obj :
           /\ k.to[Itself(o)] = IF g.fn = "perl" /\ g.sv = o THEN NONE ELSE h.to[Itself(o)]
           /\ ~k.weak[Itself(o)],
         \A o \in Obj : k.state[o] = "live" /\ k.rc[o] = 0 =>
           h.rc[o] = 0 \/ (g.fn = "perl" /\ g.sv = o)
  PROVE  StackInv(k)
<1> DEFINE n == Len(h.stack)
<1>0. h \in Heaps /\ n \in Nat /\ n > 0 /\ h.stack # <<>>
  BY StackLength, EmptySeq DEF StackInv, Bottom
<1>1. Len(k.stack) = n - 1 /\ \A i \in 1 .. n - 1 : k.stack[i] = h.stack[i]
  BY <1>0, PoppedStack
<1>5. Len(h.stack) = n
  OBVIOUS
<1> HIDE DEF n
<1>a. n \in 1 .. n /\ g \in SvFrames
  BY <1>0, <1>5, FrameFields
<1>b. \A o \in Obj : /\ Destroys(h, n, o) <=> g.fn = "perl" /\ g.sv = o
                     /\ ~Clears(h, n, o)
  BY <1>5, RefsAssumption DEF Destroys, Clears
<1>c. n > 1
  <2>1. CASE g.fn # "perl"
    BY <1>0, <1>5, <2>1 DEF StackInv, Bottom
  <2>2. CASE g.fn = "perl" /\ g.sv # NONE
    <3>1. g.sv \in Obj
      BY <1>a, <2>2 DEF SvFrames
    <3> QED
      BY <1>5, <1>a, <1>b, <2>2, <3>1 DEF StackInv, OverItsClear
  <2> QED
    BY <2>1, <2>2
<1>3. /\ \A i : i \in 1 .. n <=> i \in 1 .. n - 1 \/ i = n
      /\ 1 \in 1 .. n - 1
  BY <1>0, <1>c
<1>4. \A o \in Obj : \A i \in 1 .. n - 1 : /\ Clears(k, i, o) <=> Clears(h, i, o)
                                           /\ Destroys(k, i, o) <=> Destroys(h, i, o)
  BY <1>1 DEF Clears, Destroys
<1>6. Bottom(k)
  BY <1>0, <1>c, <1>1, <1>3 DEF StackInv, Bottom
<1>7. OverItsClear(k)
  <2> SUFFICES ASSUME NEW i \in 1 .. n - 1, NEW o \in Obj, Destroys(k, i, o)
               PROVE  i > 1 /\ Clears(k, i - 1, o)
    BY <1>1 DEF OverItsClear
  <2>1. i > 1 /\ Clears(h, i - 1, o)
    BY <1>3, <1>4, <1>5 DEF StackInv, OverItsClear
  <2>2. i - 1 \in 1 .. n - 1
    BY <1>0, <2>1
  <2> QED
    BY <1>4, <2>1, <2>2
<1>8. UnderItsDestructor(k)
  <2> SUFFICES ASSUME NEW i \in 1 .. n - 2, NEW o \in Obj, Clears(k, i, o)
               PROVE  Destroys(k, i + 1, o)
    <3>1. n - 1 - 1 = n - 2
      BY <1>0
    <3> QED
      BY <1>1, <3>1 DEF UnderItsDestructor
  <2>1. i \in 1 .. n - 1 /\ i + 1 \in 1 .. n - 1
    BY <1>0
  <2> QED
    BY <1>4, <1>5, <2>1 DEF StackInv, UnderItsDestructor
<1>9. OneClear(k)
  BY <1>1, <1>3, <1>4, <1>5 DEF StackInv, OneClear
<1>10. ClearsLive(k)
  BY ZenonT(30), <1>1, <1>3, <1>4, <1>5 DEF StackInv, ClearsLive
<1>11. Own(k)
  <2> SUFFICES ASSUME NEW o \in Obj
               PROVE  k.to[Itself(o)] =
                        IF \E i \in 1 .. n - 1 : Destroys(k, i, o) THEN o ELSE NONE
    BY <1>1 DEF Own
  <2>1. h.to[Itself(o)] = IF \E i \in 1 .. n : Destroys(h, i, o) THEN o ELSE NONE
    BY <1>5 DEF StackInv, Own
  <2>2. CASE g.fn = "perl" /\ g.sv = o
    <3>1. \A i \in 1 .. n - 1 : ~Destroys(h, i, o)
      <4> SUFFICES ASSUME NEW i \in 1 .. n - 1, Destroys(h, i, o) PROVE FALSE
        OBVIOUS
      <4>1. Clears(h, i - 1, o) /\ i > 1
        BY <1>3, <1>5 DEF StackInv, OverItsClear
      <4>2. Clears(h, n - 1, o)
        BY <1>5, <1>a, <1>b, <2>2 DEF StackInv, OverItsClear
      <4>3. i - 1 \in 1 .. n /\ n - 1 \in 1 .. n /\ i - 1 # n - 1
        BY <1>0, <1>c, <4>1
      <4> QED
        BY <1>5, <4>1, <4>2, <4>3 DEF StackInv, OneClear
    <3> QED
      BY <1>4, <2>2, <3>1
  <2>3. CASE ~(g.fn = "perl" /\ g.sv = o)
    <3>1. (\E i \in 1 .. n : Destroys(h, i, o)) <=> (\E i \in 1 .. n - 1 : Destroys(k, i, o))
      BY <1>3, <1>4, <1>b, <2>3
    <3> QED
      BY <2>1, <2>3, <3>1
  <2> QED
    BY <2>2, <2>3
<1>12. ItersClear(k)
  BY SMTT(30), <1>1, <1>3, <1>5 DEF StackInv, ItersClear
<1>13. ItersOnce(k)
  <2> SUFFICES ASSUME NEW i \in 1 .. n - 1, NEW j \in 1 .. n - 1,
                      NEW l \in 1 .. Len(k.stack[i].iter), NEW m \in 1 .. Len(k.stack[j].iter),
                      k.stack[i].iter[l] = k.stack[j].iter[m]
               PROVE  i = j /\ l = m
    BY <1>1 DEF ItersOnce
  <2>1. i \in 1 .. n /\ j \in 1 .. n /\ k.stack[i] = h.stack[i] /\ k.stack[j] = h.stack[j]
    BY <1>1, <1>3
  <2> QED
    BY SMTT(30), <1>5, <2>1 DEF StackInv, ItersOnce
<1>14. ToldHasClass(k)
  BY DEF StackInv, ToldHasClass
<1>15. ClassWasTold(k)
  <2> SUFFICES ASSUME NEW i \in 1 .. n - 1, k.stack[i].class # NONE
               PROVE  \E o \in Obj : Clears(k, i, o) /\ k.stack[i].class = k.told[o]
    BY <1>1 DEF ClassWasTold
  <2>1. i \in 1 .. n /\ k.stack[i] = h.stack[i]
    BY <1>1, <1>3
  <2>2. PICK o \in Obj : Clears(h, i, o) /\ h.stack[i].class = h.told[o]
    BY <1>5, <2>1 DEF StackInv, ClassWasTold
  <2> QED
    BY <1>4, <2>1, <2>2
<1>16. ZeroIsCleared(k)
  <2> SUFFICES ASSUME NEW o \in Obj, k.state[o] = "live", k.rc[o] = 0
               PROVE  \E i \in 1 .. n - 1 : Clears(k, i, o)
    BY <1>1 DEF ZeroIsCleared
  <2>1. CASE h.rc[o] = 0
    <3>1. \E i \in 1 .. n : Clears(h, i, o)
      BY <1>5, <2>1 DEF StackInv, ZeroIsCleared
    <3> QED
      BY <1>3, <1>4, <1>b, <3>1
  <2>2. CASE g.fn = "perl" /\ g.sv = o
    <3>1. Clears(h, n - 1, o) /\ n - 1 \in 1 .. n - 1
      BY SMTT(30), <1>0, <1>5, <1>a, <1>b, <1>c, <2>2 DEF StackInv, OverItsClear
    <3> QED
      BY <1>4, <3>1
  <2> QED
    BY <2>1, <2>2
<1> QED
  BY <1>6, <1>7, <1>8, <1>9, <1>10, <1>11, <1>12, <1>13, <1>14, <1>15, <1>16 DEF StackInv

-----------------------------------------------------------------------------
(* The functions of sv.c keep the invariant.                               *)

LEMMA KillFields ==
  ASSUME NEW h \in Heaps, NEW o \in Obj
  PROVE  LET k == KillBackrefs(h, o) IN
         /\ k \in Heaps
         /\ k.to = [r \in Ref |-> IF r \in h.backrefs[o] THEN NONE ELSE h.to[r]]
         /\ k.weak = [r \in Ref |-> r \notin h.backrefs[o] /\ h.weak[r]]
         /\ k.backrefs = [h.backrefs EXCEPT ![o] = {}]
         /\ k.rc = h.rc /\ k.state = h.state /\ k.class = h.class /\ k.told = h.told
         /\ k.tmps = h.tmps /\ k.stack = h.stack
<1>1. [r \in Ref |-> IF r \in h.backrefs[o] THEN NONE ELSE h.to[r]] \in [Ref -> Obj \cup {NONE}]
  BY DEF Heaps
<1>2. [r \in Ref |-> r \notin h.backrefs[o] /\ h.weak[r]] \in [Ref -> BOOLEAN]
  BY DEF Heaps
<1>3. [h.backrefs EXCEPT ![o] = {}] \in [Obj -> SUBSET Ref]
  BY DEF Heaps
<1> QED
  BY <1>1, <1>2, <1>3 DEF KillBackrefs, Heaps

\* What is on top of the stack.
LEMMA TopFacts ==
  ASSUME NEW h, StackInv(h)
  PROVE  /\ h \in Heaps /\ h.stack # <<>> /\ Len(h.stack) \in Nat \ {0}
         /\ Len(h.stack) \in 1 .. Len(h.stack)
         /\ Last(h.stack) = h.stack[Len(h.stack)] /\ Last(h.stack) \in SvFrames
<1>1. h \in Heaps /\ Len(h.stack) \in Nat /\ Len(h.stack) > 0 /\ h.stack # <<>>
  BY StackLength, EmptySeq DEF StackInv, Bottom
<1>2. Last(h.stack) = h.stack[Len(h.stack)]
  BY <1>1, PoppedStack
<1>3. Len(h.stack) \in 1 .. Len(h.stack)
  BY <1>1
<1>4. h.stack[Len(h.stack)] \in SvFrames
  BY <1>1, <1>3, FrameFields
<1> QED
  BY <1>1, <1>2, <1>3, <1>4

\* $_[0] of a destructor counts, so that what is left of a value that is being
\* destroyed is not its last reference.
LEMMA LastIsNotCleared ==
  ASSUME NEW h, HeapInv(h), NEW o \in Obj, h.rc[o] = 1,
         \/ \E r \in Ref : r # Itself(o) /\ h.to[r] = o /\ ~h.weak[r]
         \/ TmpsIn(h, o) # {}
  PROVE  \A i \in 1 .. Len(h.stack) - 1 : ~Clears(h, i, o)
<1> SUFFICES ASSUME NEW i \in 1 .. Len(h.stack) - 1, Clears(h, i, o)
             PROVE  FALSE
  OBVIOUS
<1>1. Len(h.stack) \in Nat
  BY StackLength DEF HeapInv, DataInv
<1>2. Destroys(h, i + 1, o) /\ i + 1 \in 1 .. Len(h.stack)
  <2>1. UnderItsDestructor(h)
    BY DEF HeapInv, StackInv
  <2>2. Destroys(h, i + 1, o)
    BY <2>1 DEF UnderItsDestructor
  <2>3. i + 1 \in 1 .. Len(h.stack)
    BY <1>1
  <2> QED
    BY <2>2, <2>3
<1>3. Itself(o) \in StrongIn(h, o)
  BY <1>2, RefNotNone DEF HeapInv, StackInv, Own, StrongIn
<1>4. /\ IsFiniteSet(StrongIn(h, o)) /\ Cardinality(StrongIn(h, o)) \in Nat
      /\ IsFiniteSet(TmpsIn(h, o)) /\ Cardinality(TmpsIn(h, o)) \in Nat
      /\ 1 = Cardinality(StrongIn(h, o)) + Cardinality(TmpsIn(h, o))
  BY CountFacts DEF HeapInv
<1>5. Cardinality(StrongIn(h, o)) # 0
  BY <1>3, <1>4, FS_EmptySet
<1>6. Cardinality(StrongIn(h, o)) = 1 /\ Cardinality(TmpsIn(h, o)) = 0
  BY <1>4, <1>5
<1>7. TmpsIn(h, o) = {}
  BY <1>4, <1>6, FS_EmptySet
<1>8. PICK r \in Ref : r # Itself(o) /\ h.to[r] = o /\ ~h.weak[r]
  BY <1>7
<1>9. r \in StrongIn(h, o)
  BY <1>8 DEF StrongIn
<1>10. \E x : StrongIn(h, o) = {x}
  BY <1>4, <1>6, FS_Singleton
<1> QED
  BY <1>3, <1>8, <1>9, <1>10

\* SvREFCNT_dec() where no value is being cleared by the function on top.
LEMMA DecKeeps ==
  ASSUME NEW h, HeapInv(h), NEW u \in Heaps, NEW o \in Obj,
         u.stack = h.stack, u.state = h.state, u.told = h.told, u.class = h.class, u.rc = h.rc,
         h.rc[o] > 0, h.state[o] = "live", Last(h.stack).fn # "sv_clear",
         \A x \in Obj : u.to[Itself(x)] = h.to[Itself(x)] /\ u.weak[Itself(x)] = h.weak[Itself(x)],
         \/ \E r \in Ref : r # Itself(o) /\ h.to[r] = o /\ ~h.weak[r]
         \/ TmpsIn(h, o) # {}
  PROVE  StackInv(Dec(u, o))
<1> DEFINE k == Dec(u, o)
<1>1. /\ k \in Heaps
      /\ k.stack = IF u.rc[o] = 1 THEN Append(u.stack, SvFrame("sv_clear", o, 0)) ELSE u.stack
      /\ k.rc = [u.rc EXCEPT ![o] = u.rc[o] - 1]
      /\ k.state = u.state /\ k.class = u.class /\ k.told = u.told /\ k.to = u.to
      /\ k.weak = u.weak
  BY DecFields
<1> HIDE DEF k
<1>2. StackInv(h) /\ h.rc \in [Obj -> Nat]
  BY DEF HeapInv, DataInv, Heaps
<1>3. \A x \in Obj : k.rc[x] = IF x = o THEN h.rc[o] - 1 ELSE h.rc[x]
  BY <1>1, <1>2
<1>4. CASE h.rc[o] = 1
  <2> DEFINE f == SvFrame("sv_clear", o, 0)
  <2>1. f \in SvFrames /\ f.iter = <<>> /\ f.class = NONE /\ f.fn = "sv_clear" /\ f.sv = o
    BY FrameType
  <2>2. k.stack = Append(h.stack, f)
    BY <1>1, <1>4
  <2> HIDE DEF f
  <2>3. \A x \in Obj : ~Clears(h, Len(h.stack), x)
    BY <1>2, TopFacts DEF Clears
  <2>4. \A i \in 1 .. Len(h.stack) - 1 : ~Clears(h, i, o)
    BY <1>4, LastIsNotCleared
  <2>5. \A i \in 1 .. Len(h.stack) : i \in 1 .. Len(h.stack) - 1 \/ i = Len(h.stack)
    BY <1>2, TopFacts
  <2>6. \A i \in 1 .. Len(h.stack) : ~Clears(h, i, o)
    BY <2>3, <2>4, <2>5
  <2>7. \A x \in Obj : Clears(h, Len(h.stack), x) <=> f.fn = "perl" /\ f.sv = x
    BY <2>1, <2>3
  <2>8. \A x \in Obj : f.fn = "sv_clear" /\ f.sv = x =>
          h.state[x] = "live" /\ \A i \in 1 .. Len(h.stack) : ~Clears(h, i, x)
    BY <2>1, <2>6
  <2>9. \A x \in Obj :
          /\ k.to[Itself(x)] = IF f.fn = "perl" /\ f.sv = x THEN x ELSE h.to[Itself(x)]
          /\ k.weak[Itself(x)] = h.weak[Itself(x)]
    BY <1>1, <2>1
  <2>10. \A x \in Obj : k.state[x] = "live" /\ k.rc[x] = 0 =>
           h.rc[x] = 0 \/ (f.fn = "sv_clear" /\ f.sv = x)
    BY <1>3, <2>1
  <2>11. k.state = h.state /\ k.told = h.told /\ k.class = h.class
    BY <1>1
  <2>12. StackInv(k)
    <3>1. StackInv(h) /\ k \in Heaps /\ f \in SvFrames
      BY <1>1, <1>2, <2>1
    <3> QED
      BY ONLY <3>1, <2>1, <2>2, <2>7, <2>8, <2>9, <2>10, <2>11, PushStack
  <2> QED
    BY <2>12 DEF k
<1>5. CASE h.rc[o] # 1
  <2>1. k.stack = h.stack /\ k.told = h.told /\ k.class = h.class /\ k.state = h.state
    BY <1>1, <1>5
  <2>2. \A x \in Obj : k.to[Itself(x)] = h.to[Itself(x)] /\ k.weak[Itself(x)] = h.weak[Itself(x)]
    BY <1>1
  <2>3. \A x \in Obj : k.rc[x] = 0 => h.rc[x] = 0
    BY <1>2, <1>3, <1>5
  <2>4. StackInv(k)
    <3>1. StackInv(h) /\ k \in Heaps
      BY <1>1, <1>2
    <3> QED
      BY ONLY <3>1, <2>1, <2>2, <2>3, SameStack
  <2> QED
    BY <2>4 DEF k
<1> QED
  BY <1>4, <1>5

LEMMA UnrefKeeps ==
  ASSUME NEW h, HeapInv(h), NEW r \in Ref, \A x \in Obj : r # Itself(x),
         NEW now \in BOOLEAN, Last(h.stack).fn = "perl"
  PROVE  LET k == SvUnref(h, r, now) IN
         /\ HeapInv(k) /\ k.to[r] = NONE /\ ~k.weak[r]
         /\ ~now => k.stack = h.stack
         /\ k.state = h.state /\ k.class = h.class /\ k.told = h.told
<1> DEFINE k == SvUnref(h, r, now)
           o == h.to[r]
           u == Unset(h, r)
<1>1. k = CASE o = NONE -> h
            [] o # NONE /\ h.weak[r] -> Unset(DelBackref(h, r), r)
            [] o # NONE /\ ~h.weak[r] ->
                 IF h.rc[o] # 1 \/ now THEN Dec(u, o) ELSE [u EXCEPT !.tmps = Append(@, o)]
  BY DEF SvUnref
<1>2. /\ h \in Heaps /\ DataInv(h) /\ StackInv(h)
      /\ h.to \in [Ref -> Obj \cup {NONE}] /\ h.weak \in [Ref -> BOOLEAN]
      /\ h.rc \in [Obj -> Nat] /\ h.tmps \in Seq(Obj)
  BY DEF HeapInv, DataInv, Heaps
<1>3. /\ u \in Heaps
      /\ u.to = [h.to EXCEPT ![r] = NONE] /\ u.weak = [h.weak EXCEPT ![r] = FALSE]
      /\ u.rc = h.rc /\ u.state = h.state /\ u.class = h.class /\ u.told = h.told
      /\ u.backrefs = h.backrefs /\ u.tmps = h.tmps /\ u.stack = h.stack
  BY <1>2, UnsetFields
<1>4. \A x \in Obj : u.to[Itself(x)] = h.to[Itself(x)] /\ u.weak[Itself(x)] = h.weak[Itself(x)]
  BY <1>2, <1>3, RefNotNone
<1>5. o # NONE => o \in Obj /\ h.state[o] = "live" /\ h.to[r] = o
  BY <1>2, RefTypes
<1>a. o = h.to[r]
  OBVIOUS
<1> SUFFICES /\ HeapInv(k) /\ k.to[r] = NONE /\ ~k.weak[r]
             /\ ~now => k.stack = h.stack
             /\ k.state = h.state /\ k.class = h.class /\ k.told = h.told
  OBVIOUS
<1> HIDE DEF k, u, o
<1>6. CASE o = NONE
  <2>1. k = h
    BY <1>1, <1>6
  <2> QED
    BY <1>2, <1>6, <1>a, <2>1 DEF DataInv, NoneIsStrong
<1>7. CASE o # NONE /\ h.weak[r]
  <2> DEFINE d == DelBackref(h, r)
  <2>1. ~(o = NONE) /\ ~(o # NONE /\ ~h.weak[r])
    BY <1>7
  <2>2. k = Unset(d, r)
    BY <1>1, <1>7, <2>1
  <2>3. /\ d \in Heaps
        /\ d.backrefs = [h.backrefs EXCEPT ![o] = h.backrefs[o] \ {r}]
        /\ d.rc = h.rc /\ d.state = h.state /\ d.class = h.class /\ d.told = h.told
        /\ d.to = h.to /\ d.weak = h.weak /\ d.tmps = h.tmps /\ d.stack = h.stack
    BY ZenonT(30), <1>2, <1>7, <1>a, DelBackrefFields
  <2> HIDE DEF d
  <2>4. /\ k \in Heaps
        /\ k.to = [d.to EXCEPT ![r] = NONE] /\ k.weak = [d.weak EXCEPT ![r] = FALSE]
        /\ k.rc = d.rc /\ k.state = d.state /\ k.class = d.class /\ k.told = d.told
        /\ k.backrefs = d.backrefs /\ k.tmps = d.tmps /\ k.stack = d.stack
    BY <2>2, <2>3, UnsetFields
  <2>5. /\ k.to = [h.to EXCEPT ![r] = NONE] /\ k.weak = [h.weak EXCEPT ![r] = FALSE]
        /\ k.backrefs = [h.backrefs EXCEPT ![o] = h.backrefs[o] \ {r}]
        /\ k.rc = h.rc /\ k.state = h.state /\ k.class = h.class /\ k.told = h.told
        /\ k.tmps = h.tmps /\ k.stack = h.stack
    BY <2>3, <2>4
  <2>6. h.to[r] = o /\ o \in Obj /\ h.weak[r] /\ k \in Heaps /\ r \in Ref
    BY <1>5, <1>7, <2>4
  <2>7. DataInv(k)
    BY ONLY <1>2, <2>5, <2>6, DropWeak
  <2>8. \A x \in Obj : k.to[Itself(x)] = h.to[Itself(x)] /\ k.weak[Itself(x)] = h.weak[Itself(x)]
    BY <1>2, <2>5, RefNotNone
  <2>9. StackInv(k)
    <3>1. StackInv(h) /\ k \in Heaps /\ k.stack = h.stack
      BY <1>2, <2>5, <2>6
    <3>2. k.state = h.state /\ k.rc = h.rc /\ k.told = h.told /\ k.class = h.class
      BY <2>5
    <3> QED
      BY ONLY <2>8, <3>1, <3>2, SameStack
  <2> QED
    BY <1>2, <2>5, <2>7, <2>9 DEF HeapInv
<1>8. CASE o # NONE /\ ~h.weak[r] /\ (h.rc[o] # 1 \/ now)
  <2>1. ~(o = NONE) /\ ~(o # NONE /\ h.weak[r])
    BY <1>8
  <2>2. k = Dec(u, o)
    BY <1>1, <1>8, <2>1
  <2>3. /\ o \in Obj /\ h.to[r] = o /\ r # Itself(o) /\ ~h.weak[r] /\ h.state[o] = "live"
        /\ r \in StrongIn(h, o)
    BY <1>5, <1>8 DEF StrongIn
  <2>4. h.rc[o] > 0
    BY <1>2, <2>3, CountFacts
  <2>5. /\ k \in Heaps
        /\ k.stack = IF u.rc[o] = 1 THEN Append(u.stack, SvFrame("sv_clear", o, 0)) ELSE u.stack
        /\ k.rc = [u.rc EXCEPT ![o] = u.rc[o] - 1]
        /\ k.state = u.state /\ k.class = u.class /\ k.told = u.told /\ k.to = u.to
        /\ k.weak = u.weak /\ k.backrefs = u.backrefs /\ k.tmps = u.tmps
    <3>1. u \in Heaps /\ o \in Obj /\ u.rc[o] > 0
      BY <1>3, <2>3, <2>4
    <3> QED
      BY ONLY <2>2, <3>1, DecFields
  <2>6. /\ k.to = [h.to EXCEPT ![r] = NONE] /\ k.weak = [h.weak EXCEPT ![r] = FALSE]
        /\ k.rc = [h.rc EXCEPT ![o] = h.rc[o] - 1]
        /\ k.state = h.state /\ k.backrefs = h.backrefs /\ k.tmps = h.tmps
        /\ k.class = h.class /\ k.told = h.told
    BY <1>3, <2>5
  <2>7. DataInv(k)
    <3>1. k \in Heaps /\ DataInv(h)
      BY <1>2, <2>5
    <3> QED
      BY ONLY <2>3, <2>6, <3>1, DropStrong, r \in Ref
  <2>8. StackInv(Dec(u, o))
    <3>1. /\ u.stack = h.stack /\ u.state = h.state /\ u.told = h.told
          /\ u.class = h.class /\ u.rc = h.rc /\ u \in Heaps
      BY <1>3
    <3>2. \E q \in Ref : q # Itself(o) /\ h.to[q] = o /\ ~h.weak[q]
      BY <2>3
    <3>3. Last(h.stack).fn # "sv_clear"
      OBVIOUS
    <3> QED
      BY ONLY HeapInv(h), <1>4, <2>3, <2>4, <3>1, <3>2, <3>3, DecKeeps
  <2>9. ~now => k.stack = h.stack
    BY <1>3, <1>8, <2>5
  <2>10. StackInv(k)
    BY <2>2, <2>8
  <2> QED
    BY <1>2, <2>6, <2>7, <2>9, <2>10 DEF HeapInv
<1>9. CASE o # NONE /\ ~h.weak[r] /\ h.rc[o] = 1 /\ ~now
  <2>1. ~(o = NONE) /\ ~(o # NONE /\ h.weak[r])
    BY <1>9
  <2>2. k = [u EXCEPT !.tmps = Append(u.tmps, o)]
    BY <1>1, <1>9, <2>1
  <2>3. o \in Obj /\ h.to[r] = o /\ ~h.weak[r]
    BY <1>5, <1>9
  <2>4. Append(u.tmps, o) \in Seq(Obj)
    BY <1>2, <1>3, <2>3
  <2>5. /\ k \in Heaps /\ k.tmps = Append(u.tmps, o)
        /\ k.rc = u.rc /\ k.state = u.state /\ k.class = u.class /\ k.told = u.told
        /\ k.to = u.to /\ k.weak = u.weak /\ k.backrefs = u.backrefs /\ k.stack = u.stack
    BY <1>3, <2>2, <2>4 DEF Heaps
  <2>6. /\ k.to = [h.to EXCEPT ![r] = NONE] /\ k.weak = [h.weak EXCEPT ![r] = FALSE]
        /\ k.tmps = Append(h.tmps, o)
        /\ k.rc = h.rc /\ k.state = h.state /\ k.backrefs = h.backrefs
        /\ k.class = h.class /\ k.told = h.told /\ k.stack = h.stack /\ k \in Heaps
    BY <1>3, <2>5
  <2>7. DataInv(k)
    BY ONLY <1>2, <2>3, <2>6, StrongToTmp, r \in Ref
  <2>8. \A x \in Obj : k.to[Itself(x)] = h.to[Itself(x)] /\ k.weak[Itself(x)] = h.weak[Itself(x)]
    BY <1>3, <1>4, <2>5
  <2>9. StackInv(k)
    BY ONLY <1>2, <2>6, <2>8, SameStack
  <2> QED
    BY <1>2, <2>6, <2>7, <2>9 DEF HeapInv
<1> QED
  BY <1>6, <1>7, <1>8, <1>9

\* What Perl code can name, and what of it it may change.
LEMMA WritableFacts ==
  ASSUME HeapInv(heap)
  PROVE  /\ Named \subseteq Ref
         /\ \A r \in Writable : r \in Ref /\ \A o \in Obj : r # Itself(o)
<1>1. heap \in Heaps /\ Last(heap.stack) \in SvFrames /\ heap.to \in [Ref -> Obj \cup {NONE}]
  BY TopFacts DEF HeapInv, Heaps
<1>2. SvTop.sv \in Obj \cup {NONE}
  BY <1>1 DEF SvTop, SvFrames
<1>3. Named \subseteq Ref
  <2> DEFINE own == Var \cup (IF SvTop.sv = NONE THEN {} ELSE {Itself(SvTop.sv)})
  <2>1. own \subseteq Ref
    BY <1>2, RefNotNone DEF Ref
  <2>2. Named = own \cup UNION {Elems(heap.to[r]) : r \in {q \in own : heap.to[q] # NONE}}
    BY DEF Named
  <2> HIDE DEF own
  <2>3. ASSUME NEW r \in own, heap.to[r] # NONE
        PROVE  Elems(heap.to[r]) \subseteq Ref
    <3>1. heap.to[r] \in Obj
      BY <1>1, <2>1, <2>3
    <3> QED
      BY <3>1, RefNotNone DEF Elems
  <2> QED
    BY <2>1, <2>2, <2>3
<1>4. ASSUME NEW r \in Writable, NEW o \in Obj, r = Itself(o)
      PROVE  FALSE
  <2>1. ~(r \notin Var /\ r[2] = 0)
    BY DEF Writable, IsSelf
  <2>2. r[2] = 0 /\ r \in Obj \X (0 .. Slots)
    BY <1>4, RefsAssumption DEF Itself
  <2> QED
    BY <2>1, <2>2, RefsAssumption
<1> QED
  BY <1>3, <1>4 DEF Writable

-----------------------------------------------------------------------------
(* Every step keeps the invariant: Perl code.                              *)

LEMMA CodeTop ==
  ASSUME HeapInv(heap), Running
  PROVE  /\ heap \in Heaps /\ DataInv(heap) /\ StackInv(heap) /\ heap.stack # <<>>
         /\ SvTop = heap.stack[Len(heap.stack)] /\ Last(heap.stack).fn = "perl"
         /\ SvTop \in SvFrames /\ SvTop.fn = "perl"
         /\ \A o \in Obj : ~Clears(heap, Len(heap.stack), o)
  BY TopFacts DEF HeapInv, Running, SvTop, Clears

LEMMA NewKeeps ==
  ASSUME HeapInv(heap), Running, NEW r \in Writable, NEW o \in Obj, New(r, o)
  PROVE  HeapInv(heap')
<1> DEFINE h == SvUnref(heap, r, FALSE)
           k == [h EXCEPT !.state[o] = "live", !.rc[o] = 1, !.to[r] = o]
<1>1. r \in Ref /\ (\A x \in Obj : r # Itself(x)) /\ Last(heap.stack).fn = "perl"
  BY WritableFacts, CodeTop
<1>2. /\ HeapInv(h) /\ h.to[r] = NONE /\ ~h.weak[r]
      /\ h.state = heap.state /\ h.class = heap.class /\ h.told = heap.told
  BY <1>1, UnrefKeeps
<1>3. heap' = k /\ h.state[o] = "free"
  BY <1>2 DEF New
<1> HIDE DEF h
<1>4. /\ h \in Heaps /\ DataInv(h) /\ StackInv(h)
      /\ h.to \in [Ref -> Obj \cup {NONE}] /\ h.rc \in [Obj -> Nat]
      /\ h.state \in [Obj -> {"free", "live", "clearing"}]
  BY <1>2 DEF HeapInv, DataInv, Heaps
<1>5. /\ k.to = [h.to EXCEPT ![r] = o] /\ k.weak = h.weak
      /\ k.rc = [h.rc EXCEPT ![o] = 1] /\ k.state = [h.state EXCEPT ![o] = "live"]
      /\ k.backrefs = h.backrefs /\ k.tmps = h.tmps /\ k.stack = h.stack
      /\ k.class = h.class /\ k.told = h.told
  BY <1>4 DEF Heaps
<1>6. k \in Heaps
  <2>1. [h.to EXCEPT ![r] = o] \in [Ref -> Obj \cup {NONE}]
    BY <1>4
  <2>2. [h.rc EXCEPT ![o] = 1] \in [Obj -> Nat]
    BY <1>4
  <2>3. [h.state EXCEPT ![o] = "live"] \in [Obj -> {"free", "live", "clearing"}]
    BY <1>4
  <2> QED
    BY <1>4, <2>1, <2>2, <2>3 DEF Heaps
<1> HIDE DEF k
<1>7. DataInv(k)
  BY ONLY <1>2, <1>3, <1>4, <1>5, <1>6, <1>1, NewValue, o \in Obj
<1>8. StackInv(k)
  <2>1. \A x \in Obj : k.to[Itself(x)] = h.to[Itself(x)] /\ k.weak[Itself(x)] = h.weak[Itself(x)]
    BY <1>1, <1>4, <1>5, RefNotNone
  <2>2. \A x \in Obj : h.state[x] \in {"live", "clearing"} => k.state[x] = h.state[x]
    BY <1>3, <1>4, <1>5
  <2>3. \A x \in Obj : k.state[x] = "live" /\ k.rc[x] = 0 => h.state[x] = "live" /\ h.rc[x] = 0
    BY <1>3, <1>4, <1>5
  <2>4. k.stack = h.stack /\ k.told = h.told /\ k.class = h.class /\ StackInv(h)
    BY <1>4, <1>5
  <2> QED
    BY ONLY <1>6, <2>1, <2>2, <2>3, <2>4, SameStack
<1> QED
  BY <1>3, <1>7, <1>8 DEF HeapInv

LEMMA CopiedKeeps ==
  ASSUME NEW h, HeapInv(h), NEW r \in Ref, \A x \in Obj : r # Itself(x),
         h.to[r] = NONE, NEW o, o # NONE => o \in Obj /\ h.state[o] = "live"
  PROVE  HeapInv(Copied(h, r, o))
<1> DEFINE s == [h EXCEPT !.to[r] = o]
           k == Inc(s, o)
<1>1. CASE o = NONE
  BY <1>1 DEF Copied
<1>2. CASE o # NONE
  <2>1. Copied(h, r, o) = k /\ o \in Obj /\ h.state[o] = "live"
    BY <1>2 DEF Copied
  <2>2. /\ h \in Heaps /\ DataInv(h) /\ StackInv(h)
        /\ h.to \in [Ref -> Obj \cup {NONE}] /\ h.rc \in [Obj -> Nat]
    BY DEF HeapInv, DataInv, Heaps
  <2>3. /\ s \in Heaps /\ s.to = [h.to EXCEPT ![r] = o]
        /\ s.rc = h.rc /\ s.state = h.state /\ s.class = h.class /\ s.told = h.told
        /\ s.weak = h.weak /\ s.backrefs = h.backrefs /\ s.tmps = h.tmps /\ s.stack = h.stack
    <3>1. [h.to EXCEPT ![r] = o] \in [Ref -> Obj \cup {NONE}]
      BY <2>1, <2>2
    <3> QED
      BY <2>2, <3>1 DEF Heaps
  <2> HIDE DEF s
  <2>4. /\ k \in Heaps /\ k.rc = [s.rc EXCEPT ![o] = s.rc[o] + 1]
        /\ k.state = s.state /\ k.class = s.class /\ k.told = s.told /\ k.to = s.to
        /\ k.weak = s.weak /\ k.backrefs = s.backrefs /\ k.tmps = s.tmps /\ k.stack = s.stack
    BY <2>1, <2>3, IncFields
  <2> HIDE DEF k
  <2>5. /\ k.to = [h.to EXCEPT ![r] = o] /\ k.rc = [h.rc EXCEPT ![o] = h.rc[o] + 1]
        /\ k.state = h.state /\ k.class = h.class /\ k.told = h.told
        /\ k.weak = h.weak /\ k.backrefs = h.backrefs /\ k.tmps = h.tmps /\ k.stack = h.stack
    BY <2>3, <2>4
  <2>6. k \in Heaps /\ r \in Ref /\ o \in Obj /\ h.to[r] = NONE /\ h.state[o] = "live"
    BY <2>1, <2>4
  <2>7. DataInv(k)
    BY ONLY <2>2, <2>5, <2>6, SetStrong
  <2>8. \A x \in Obj : k.to[Itself(x)] = h.to[Itself(x)] /\ k.weak[Itself(x)] = h.weak[Itself(x)]
    BY <2>2, <2>5, RefNotNone
  <2>9. \A x \in Obj : k.rc[x] = 0 => h.rc[x] = 0
    BY <2>1, <2>2, <2>5
  <2>10. StackInv(k)
    <3>1. /\ StackInv(h) /\ k \in Heaps /\ k.stack = h.stack
          /\ k.state = h.state /\ k.told = h.told /\ k.class = h.class
      BY <2>2, <2>5, <2>6
    <3> QED
      BY ONLY <2>8, <2>9, <3>1, SameStack
  <2> QED
    BY <2>1, <2>7, <2>10 DEF HeapInv
<1> QED
  BY <1>1, <1>2

LEMMA AssignKeeps ==
  ASSUME HeapInv(heap), Running, NEW r \in Writable, NEW s \in Named, Assign(r, s)
  PROVE  HeapInv(heap')
<1> DEFINE h == SvUnref(heap, r, FALSE)
<1>1. /\ r \in Ref /\ (\A x \in Obj : r # Itself(x)) /\ Last(heap.stack).fn = "perl"
      /\ s \in Ref
  BY WritableFacts, CodeTop
<1>2. HeapInv(h) /\ h.to[r] = NONE
  BY <1>1, UnrefKeeps
<1>3. heap' = Copied(h, r, h.to[s])
  BY DEF Assign
<1> HIDE DEF h
<1>4. h.to[s] # NONE => h.to[s] \in Obj /\ h.state[h.to[s]] = "live"
  BY <1>1, <1>2, RefTypes DEF HeapInv
<1> QED
  BY <1>1, <1>2, <1>3, <1>4, CopiedKeeps

LEMMA UndefKeeps ==
  ASSUME HeapInv(heap), Running, NEW r \in Writable, Undef(r)
  PROVE  HeapInv(heap')
<1>1. r \in Ref /\ (\A x \in Obj : r # Itself(x)) /\ Last(heap.stack).fn = "perl"
  BY WritableFacts, CodeTop
<1> QED
  BY <1>1, UnrefKeeps DEF Undef

LEMMA WeakenKeeps ==
  ASSUME HeapInv(heap), Running, NEW r \in Writable, Weaken(r)
  PROVE  HeapInv(heap')
<1> DEFINE o == heap.to[r]
           u == [heap EXCEPT !.backrefs[o] = heap.backrefs[o] \cup {r}, !.weak[r] = TRUE]
           k == Dec(u, o)
<1>1. r \in Ref /\ (\A x \in Obj : r # Itself(x)) /\ Last(heap.stack).fn = "perl"
  BY WritableFacts, CodeTop
<1>2. heap' = k /\ o # NONE /\ ~heap.weak[r] /\ o = heap.to[r]
  BY DEF Weaken, Weakened
<1>3. o \in Obj /\ heap.state[o] = "live" /\ r \in StrongIn(heap, o)
  BY <1>1, <1>2, RefTypes DEF HeapInv, StrongIn
<1>4. heap.rc[o] > 0
  BY <1>3, CountFacts DEF HeapInv
<1> HIDE DEF o
<1>5. /\ heap \in Heaps /\ DataInv(heap) /\ StackInv(heap)
      /\ heap.weak \in [Ref -> BOOLEAN] /\ heap.backrefs \in [Obj -> SUBSET Ref]
  BY DEF HeapInv, DataInv, Heaps
<1>6. /\ u \in Heaps
      /\ u.backrefs = [heap.backrefs EXCEPT ![o] = heap.backrefs[o] \cup {r}]
      /\ u.weak = [heap.weak EXCEPT ![r] = TRUE]
      /\ u.rc = heap.rc /\ u.state = heap.state /\ u.class = heap.class /\ u.told = heap.told
      /\ u.to = heap.to /\ u.tmps = heap.tmps /\ u.stack = heap.stack
  <2>1. [heap.backrefs EXCEPT ![o] = heap.backrefs[o] \cup {r}] \in [Obj -> SUBSET Ref]
    BY <1>1, <1>3, <1>5
  <2>2. [heap.weak EXCEPT ![r] = TRUE] \in [Ref -> BOOLEAN]
    BY <1>5
  <2> QED
    BY <1>5, <2>1, <2>2 DEF Heaps
<1> HIDE DEF u
<1>7. /\ k \in Heaps /\ k.rc = [u.rc EXCEPT ![o] = u.rc[o] - 1]
      /\ k.state = u.state /\ k.to = u.to
      /\ k.weak = u.weak /\ k.backrefs = u.backrefs /\ k.tmps = u.tmps
  <2>1. u \in Heaps /\ o \in Obj /\ u.rc[o] > 0
    BY <1>3, <1>4, <1>6
  <2> QED
    BY ONLY <2>1, DecFields
<1>8. StackInv(k)
  <2>1. \A x \in Obj :
          u.to[Itself(x)] = heap.to[Itself(x)] /\ u.weak[Itself(x)] = heap.weak[Itself(x)]
    BY <1>1, <1>5, <1>6, RefNotNone
  <2>2. \E q \in Ref : q # Itself(o) /\ heap.to[q] = o /\ ~heap.weak[q]
    BY <1>1, <1>2, <1>3
  <2>3. /\ u \in Heaps /\ u.stack = heap.stack /\ u.state = heap.state /\ u.told = heap.told
        /\ u.class = heap.class /\ u.rc = heap.rc
    BY <1>6
  <2>4. Last(heap.stack).fn # "sv_clear"
    BY <1>1
  <2> QED
    BY ONLY HeapInv(heap), <1>3, <1>4, <2>1, <2>2, <2>3, <2>4, DecKeeps
<1> HIDE DEF k
<1>9. DataInv(k)
  <2>1. /\ k.to = heap.to /\ k.weak = [heap.weak EXCEPT ![r] = TRUE]
        /\ k.backrefs = [heap.backrefs EXCEPT ![o] = heap.backrefs[o] \cup {r}]
        /\ k.rc = [heap.rc EXCEPT ![o] = heap.rc[o] - 1]
        /\ k.state = heap.state /\ k.tmps = heap.tmps
    BY <1>6, <1>7
  <2>2. k \in Heaps /\ r \in Ref /\ o \in Obj /\ heap.to[r] = o /\ ~heap.weak[r]
    BY <1>1, <1>2, <1>3, <1>7
  <2> QED
    BY ONLY <1>5, <2>1, <2>2, StrongToWeak
<1> QED
  BY <1>2, <1>8, <1>9 DEF HeapInv

LEMMA UnweakenKeeps ==
  ASSUME HeapInv(heap), Running, NEW r \in Writable, Unweaken(r)
  PROVE  HeapInv(heap')
<1> DEFINE o == heap.to[r]
           u == [heap EXCEPT !.weak[r] = FALSE]
           d == DelBackref(u, r)
           k == Inc(d, o)
<1>1. r \in Ref /\ (\A x \in Obj : r # Itself(x)) /\ Last(heap.stack).fn = "perl"
  BY WritableFacts, CodeTop
<1>2. heap' = k /\ o # NONE /\ heap.weak[r] /\ o = heap.to[r]
  BY DEF Unweaken
<1>3. o \in Obj /\ heap.state[o] = "live"
  BY <1>1, <1>2, RefTypes DEF HeapInv
<1> HIDE DEF o
<1>5. /\ heap \in Heaps /\ DataInv(heap) /\ StackInv(heap)
      /\ heap.weak \in [Ref -> BOOLEAN] /\ heap.rc \in [Obj -> Nat]
  BY DEF HeapInv, DataInv, Heaps
<1>6. /\ u \in Heaps /\ u.weak = [heap.weak EXCEPT ![r] = FALSE]
      /\ u.rc = heap.rc /\ u.state = heap.state /\ u.class = heap.class /\ u.told = heap.told
      /\ u.to = heap.to /\ u.tmps = heap.tmps /\ u.stack = heap.stack
      /\ u.backrefs = heap.backrefs
  <2>1. [heap.weak EXCEPT ![r] = FALSE] \in [Ref -> BOOLEAN]
    BY <1>5
  <2> QED
    BY <1>5, <2>1 DEF Heaps
<1> HIDE DEF u
<1>7. /\ d \in Heaps /\ d.backrefs = [u.backrefs EXCEPT ![o] = u.backrefs[o] \ {r}]
      /\ d.rc = u.rc /\ d.state = u.state /\ d.class = u.class /\ d.told = u.told
      /\ d.to = u.to /\ d.weak = u.weak /\ d.tmps = u.tmps /\ d.stack = u.stack
  <2>1. u \in Heaps /\ r \in Ref /\ u.to[r] # NONE /\ u.to[r] = o
    BY <1>1, <1>2, <1>6
  <2> QED
    BY ONLY <2>1, DelBackrefFields
<1> HIDE DEF d
<1>8. /\ k \in Heaps /\ k.rc = [d.rc EXCEPT ![o] = d.rc[o] + 1]
      /\ k.state = d.state /\ k.class = d.class /\ k.told = d.told /\ k.to = d.to
      /\ k.weak = d.weak /\ k.backrefs = d.backrefs /\ k.tmps = d.tmps /\ k.stack = d.stack
  BY ONLY <1>3, <1>7, IncFields
<1> HIDE DEF k
<1>9. /\ k.to = heap.to /\ k.weak = [heap.weak EXCEPT ![r] = FALSE]
      /\ k.backrefs = [heap.backrefs EXCEPT ![o] = heap.backrefs[o] \ {r}]
      /\ k.rc = [heap.rc EXCEPT ![o] = heap.rc[o] + 1]
      /\ k.state = heap.state /\ k.class = heap.class /\ k.told = heap.told
      /\ k.tmps = heap.tmps /\ k.stack = heap.stack
  BY <1>6, <1>7, <1>8
<1>10. k \in Heaps /\ r \in Ref /\ o \in Obj /\ heap.to[r] = o /\ heap.weak[r]
  BY <1>1, <1>2, <1>3, <1>8
<1>11. DataInv(k)
  BY ONLY <1>5, <1>9, <1>10, WeakToStrong
<1>12. StackInv(k)
  <2>1. \A x \in Obj :
          k.to[Itself(x)] = heap.to[Itself(x)] /\ k.weak[Itself(x)] = heap.weak[Itself(x)]
    BY <1>1, <1>5, <1>9, RefNotNone
  <2>2. \A x \in Obj : k.rc[x] = 0 => heap.rc[x] = 0
    BY <1>3, <1>5, <1>9
  <2>3. /\ StackInv(heap) /\ k \in Heaps /\ k.stack = heap.stack
        /\ k.state = heap.state /\ k.told = heap.told /\ k.class = heap.class
    BY <1>5, <1>9, <1>10
  <2> QED
    BY ONLY <2>1, <2>2, <2>3, SameStack
<1> QED
  BY <1>2, <1>11, <1>12 DEF HeapInv

LEMMA BlessKeeps ==
  ASSUME HeapInv(heap), Running, NEW r \in Named, NEW class \in Class, Bless(r, class)
  PROVE  HeapInv(heap')
<1> DEFINE o == heap.to[r]
           k == [heap EXCEPT !.class[o] = class]
<1>1. r \in Ref /\ heap' = k /\ o # NONE /\ o = heap.to[r]
  BY WritableFacts DEF Bless
<1>2. o \in Obj
  BY <1>1, RefTypes DEF HeapInv
<1> HIDE DEF o
<1>3. /\ heap \in Heaps /\ DataInv(heap) /\ StackInv(heap)
      /\ heap.class \in [Obj -> Class \cup {NONE}]
  BY DEF HeapInv, DataInv, Heaps
<1>4. /\ k \in Heaps /\ k.class = [heap.class EXCEPT ![o] = class]
      /\ k.rc = heap.rc /\ k.state = heap.state /\ k.told = heap.told
      /\ k.to = heap.to /\ k.weak = heap.weak /\ k.tmps = heap.tmps /\ k.stack = heap.stack
      /\ k.backrefs = heap.backrefs
  <2>1. [heap.class EXCEPT ![o] = class] \in [Obj -> Class \cup {NONE}]
    BY <1>3
  <2> QED
    BY <1>3, <2>1 DEF Heaps
<1> HIDE DEF k
<1>5. DataInv(k)
  BY ONLY <1>3, <1>4, DataSame
<1>6. \A x \in Obj : heap.class[x] # NONE => k.class[x] # NONE
  BY <1>3, <1>4, RefsAssumption
<1>7. StackInv(k)
  BY ONLY <1>3, <1>4, <1>6, SameStack
<1> QED
  BY <1>1, <1>5, <1>7 DEF HeapInv

\* A frame of free_tmps() is pushed.
LEMMA FreeTmpsKeeps ==
  ASSUME HeapInv(heap), Running, FreeTmps
  PROVE  HeapInv(heap')
<1> DEFINE f == SvFrame("free_tmps", NONE, SvTop.floor)
           k == Push(heap, f)
<1>1. /\ heap \in Heaps /\ DataInv(heap) /\ StackInv(heap) /\ SvTop \in SvFrames
      /\ \A o \in Obj : ~Clears(heap, Len(heap.stack), o)
  BY CodeTop
<1>2. f \in SvFrames /\ f.fn = "free_tmps" /\ f.sv = NONE /\ f.iter = <<>> /\ f.class = NONE
  <2>1. SvTop.floor \in Nat
    BY <1>1 DEF SvFrames
  <2> QED
    BY <2>1, FrameType
<1>3. heap' = k
  BY DEF FreeTmps
<1> HIDE DEF f
<1>4. /\ k \in Heaps /\ k.stack = Append(heap.stack, f)
      /\ k.rc = heap.rc /\ k.state = heap.state /\ k.class = heap.class /\ k.told = heap.told
      /\ k.to = heap.to /\ k.weak = heap.weak /\ k.tmps = heap.tmps
      /\ k.backrefs = heap.backrefs
  BY <1>1, <1>2, PushFields
<1> HIDE DEF k
<1>5. DataInv(k)
  BY ONLY <1>1, <1>4, DataSame
<1>6. StackInv(k)
  <2>1. \A o \in Obj : Clears(heap, Len(heap.stack), o) <=> f.fn = "perl" /\ f.sv = o
    BY <1>1, <1>2
  <2>2. \A o \in Obj : f.fn = "sv_clear" /\ f.sv = o =>
          heap.state[o] = "live" /\ \A i \in 1 .. Len(heap.stack) : ~Clears(heap, i, o)
    BY <1>2
  <2>3. \A o \in Obj :
          /\ k.to[Itself(o)] = IF f.fn = "perl" /\ f.sv = o THEN o ELSE heap.to[Itself(o)]
          /\ k.weak[Itself(o)] = heap.weak[Itself(o)]
    BY <1>2, <1>4
  <2>4. \A o \in Obj : k.state[o] = "live" /\ k.rc[o] = 0 =>
          heap.rc[o] = 0 \/ (f.fn = "sv_clear" /\ f.sv = o)
    BY <1>4
  <2> QED
    BY ONLY <1>1, <1>2, <1>4, <2>1, <2>2, <2>3, <2>4, PushStack
<1> QED
  BY <1>3, <1>5, <1>6 DEF HeapInv

LEMMA CodeKeeps ==
  ASSUME HeapInv(heap), Code
  PROVE  HeapInv(heap')
<1>1. Running
  BY DEF Code
<1>2. CASE \E r \in Writable, o \in Obj : New(r, o)
  BY <1>1, <1>2, NewKeeps
<1>3. CASE \E r \in Writable, s \in Named : Assign(r, s)
  BY <1>1, <1>3, AssignKeeps
<1>4. CASE \E r \in Writable : Undef(r) \/ Weaken(r) \/ Unweaken(r)
  BY <1>1, <1>4, UndefKeeps, WeakenKeeps, UnweakenKeeps
<1>5. CASE \E r \in Named, class \in Class : Bless(r, class)
  BY <1>1, <1>5, BlessKeeps
<1>6. CASE FreeTmps
  BY <1>1, <1>6, FreeTmpsKeeps
<1> QED
  BY <1>2, <1>3, <1>4, <1>5, <1>6 DEF Code

-----------------------------------------------------------------------------
(* Every step keeps the invariant: the C functions.                        *)

LEMMA FreeTmpKeeps ==
  ASSUME HeapInv(heap), FreeTmp
  PROVE  HeapInv(heap')
<1>1. /\ heap \in Heaps /\ DataInv(heap) /\ StackInv(heap) /\ heap.stack # <<>>
      /\ SvTop = heap.stack[Len(heap.stack)] /\ SvTop = Last(heap.stack) /\ SvTop \in SvFrames
      /\ SvTop.fn = "free_tmps" /\ SvTop.floor \in Nat
      /\ heap.tmps \in Seq(Obj) /\ Len(heap.tmps) \in Nat /\ heap.rc \in [Obj -> Nat]
  <2>1. SvTop \in SvFrames
    BY TopFacts DEF HeapInv, SvTop
  <2>2. SvTop.floor \in Nat
    BY <2>1 DEF SvFrames
  <2>3. heap.tmps \in Seq(Obj) /\ Len(heap.tmps) \in Nat /\ heap.rc \in [Obj -> Nat]
    BY LenProperties DEF HeapInv, DataInv, Heaps
  <2> QED
    BY <2>1, <2>2, <2>3, TopFacts DEF HeapInv, SvTop, FreeTmp
<1>2. CASE Len(heap.tmps) <= SvTop.floor
  <2> DEFINE k == Pop(heap)
  <2>1. heap' = k
    BY <1>2 DEF FreeTmp
  <2>2. /\ k \in Heaps /\ k.stack = Front(heap.stack)
        /\ k.rc = heap.rc /\ k.state = heap.state /\ k.class = heap.class
        /\ k.told = heap.told /\ k.to = heap.to /\ k.weak = heap.weak
        /\ k.backrefs = heap.backrefs /\ k.tmps = heap.tmps
    BY <1>1, PopFields
  <2> HIDE DEF k
  <2>3. DataInv(k)
    BY ONLY <1>1, <2>2, DataSame
  <2>4. StackInv(k)
    <3>1. \A o \in Obj :
            /\ k.to[Itself(o)] =
                 IF SvTop.fn = "perl" /\ SvTop.sv = o THEN NONE ELSE heap.to[Itself(o)]
            /\ ~k.weak[Itself(o)]
      BY <1>1, <2>2 DEF StackInv, Own
    <3>2. SvTop.fn # "perl" /\ SvTop.fn # "sv_clear"
      BY <1>1
    <3>3. \A o \in Obj : k.rc[o] = 0 => heap.rc[o] = 0
      BY <2>2
    <3> QED
      BY ONLY <1>1, <2>2, <3>1, <3>2, <3>3, PopStack
  <2> QED
    BY <2>1, <2>3, <2>4 DEF HeapInv
<1>3. CASE ~(Len(heap.tmps) <= SvTop.floor)
  <2> DEFINE o == Last(heap.tmps)
             u == [heap EXCEPT !.tmps = Front(heap.tmps)]
             k == Dec(u, o)
  <2>1. heap' = k
    BY <1>3 DEF FreeTmp
  <2>2. heap.tmps # <<>> /\ Len(heap.tmps) \in 1 .. Len(heap.tmps)
    BY <1>1, <1>3, EmptySeq
  <2>3. /\ o = heap.tmps[Len(heap.tmps)] /\ o \in Obj /\ DOMAIN heap.tmps = 1 .. Len(heap.tmps)
        /\ Front(heap.tmps) \in Seq(Obj)
    <3>1. DOMAIN heap.tmps = 1 .. Len(heap.tmps) /\ heap.tmps[Len(heap.tmps)] \in Obj
      BY <1>1, <2>2, LenProperties, ElementOfSeq
    <3> QED
      BY <1>1, <2>2, <3>1 DEF Last, Front
  <2>4. heap.state[o] = "live" /\ Len(heap.tmps) \in TmpsIn(heap, o)
    BY <1>1, <2>2, <2>3 DEF DataInv, ToLive, TmpsIn
  <2>5. heap.rc[o] > 0
    BY <1>1, <2>3, <2>4, CountFacts
  <2>6. /\ u \in Heaps /\ u.tmps = Front(heap.tmps)
        /\ u.rc = heap.rc /\ u.state = heap.state /\ u.class = heap.class /\ u.told = heap.told
        /\ u.to = heap.to /\ u.weak = heap.weak /\ u.backrefs = heap.backrefs
        /\ u.stack = heap.stack
    BY <1>1, <2>3 DEF Heaps
  <2>a. o = Last(heap.tmps)
    OBVIOUS
  <2> HIDE DEF u, o
  <2>7. /\ k \in Heaps /\ k.rc = [u.rc EXCEPT ![o] = u.rc[o] - 1]
        /\ k.state = u.state /\ k.to = u.to
        /\ k.weak = u.weak /\ k.backrefs = u.backrefs /\ k.tmps = u.tmps
    <3>1. u \in Heaps /\ o \in Obj /\ u.rc[o] > 0
      BY <2>3, <2>5, <2>6
    <3> QED
      BY ONLY <3>1, DecFields
  <2>8. StackInv(k)
    <3>1. \A x \in Obj :
            u.to[Itself(x)] = heap.to[Itself(x)] /\ u.weak[Itself(x)] = heap.weak[Itself(x)]
      BY <2>6
    <3>2. TmpsIn(heap, o) # {} /\ o \in Obj /\ heap.state[o] = "live" /\ heap.rc[o] > 0
      BY <2>3, <2>4, <2>5
    <3>3. Last(heap.stack).fn # "sv_clear"
      BY <1>1
    <3>4. /\ u \in Heaps /\ u.stack = heap.stack /\ u.state = heap.state
          /\ u.told = heap.told /\ u.class = heap.class /\ u.rc = heap.rc
      BY <2>6
    <3> QED
      BY ONLY HeapInv(heap), <3>1, <3>2, <3>3, <3>4, DecKeeps
  <2> HIDE DEF k
  <2>9. DataInv(k)
    <3>1. /\ k.to = heap.to /\ k.weak = heap.weak /\ k.tmps = Front(heap.tmps)
          /\ k.rc = [heap.rc EXCEPT ![o] = heap.rc[o] - 1]
          /\ k.backrefs = heap.backrefs /\ k.state = heap.state
      BY <2>6, <2>7
    <3>2. k \in Heaps /\ o \in Obj /\ heap.tmps # <<>> /\ o = Last(heap.tmps) /\ DataInv(heap)
      BY <1>1, <2>2, <2>3, <2>7, <2>a
    <3> QED
      BY ONLY <3>1, <3>2, DropTmp
  <2> QED
    BY <2>1, <2>8, <2>9 DEF HeapInv
<1> QED
  BY <1>2, <1>3

\* sv_clear() is on top.
LEMMA ClearTop ==
  ASSUME HeapInv(heap), SvTop.fn = "sv_clear"
  PROVE  /\ heap \in Heaps /\ DataInv(heap) /\ StackInv(heap) /\ heap.stack # <<>>
         /\ SvTop = heap.stack[Len(heap.stack)] /\ SvTop = Last(heap.stack) /\ SvTop \in SvFrames
         /\ SvTop.iter \in Seq(Obj) /\ Len(SvTop.iter) \in Nat
         /\ Len(heap.stack) \in 1 .. Len(heap.stack)
         /\ \A i : i \in 1 .. Len(heap.stack) <=>
                     i \in 1 .. Len(heap.stack) - 1 \/ i = Len(heap.stack)
         /\ \A o \in Obj : Clears(heap, Len(heap.stack), o) <=> SvTop.sv = o
         /\ \A i \in 1 .. Len(heap.stack) - 1, o \in Obj :
              SvTop.sv = o => ~Clears(heap, i, o)
<1>1. /\ heap \in Heaps /\ DataInv(heap) /\ StackInv(heap) /\ heap.stack # <<>>
      /\ Len(heap.stack) \in Nat \ {0}
      /\ SvTop = heap.stack[Len(heap.stack)] /\ SvTop = Last(heap.stack) /\ SvTop \in SvFrames
      /\ Len(heap.stack) \in 1 .. Len(heap.stack)
  BY TopFacts DEF HeapInv, SvTop
<1>2. SvTop.iter \in Seq(Obj) /\ Len(SvTop.iter) \in Nat
  BY <1>1, FrameFields
<1>3. \A i : i \in 1 .. Len(heap.stack) <=>
               i \in 1 .. Len(heap.stack) - 1 \/ i = Len(heap.stack)
  BY <1>1
<1>4. \A o \in Obj : Clears(heap, Len(heap.stack), o) <=> SvTop.sv = o
  BY <1>1 DEF Clears
<1>5. \A i \in 1 .. Len(heap.stack) - 1 : i # Len(heap.stack)
  BY <1>1
<1>6. \A i \in 1 .. Len(heap.stack) - 1, o \in Obj : SvTop.sv = o => ~Clears(heap, i, o)
  BY <1>1, <1>3, <1>4, <1>5 DEF StackInv, OneClear
<1> QED
  BY <1>1, <1>2, <1>3, <1>4, <1>6

\* An object that sv_clear() is at has no destructor running.
LEMMA NoneRuns ==
  ASSUME HeapInv(heap), SvTop.fn = "sv_clear", NEW o \in Obj, SvTop.sv = o
  PROVE  heap.to[Itself(o)] = NONE /\ heap.state[o] = "live"
<1>1. ASSUME NEW i \in 1 .. Len(heap.stack), Destroys(heap, i, o)
      PROVE  FALSE
  <2>1. i > 1 /\ Clears(heap, i - 1, o)
    BY <1>1 DEF HeapInv, StackInv, OverItsClear
  <2>2. i - 1 \in 1 .. Len(heap.stack) - 1
    BY <2>1, StackLength DEF HeapInv, DataInv
  <2> QED
    BY <2>1, <2>2, ClearTop
<1>2. Clears(heap, Len(heap.stack), o) /\ Len(heap.stack) \in 1 .. Len(heap.stack)
  BY ClearTop
<1> QED
  BY <1>1, <1>2 DEF HeapInv, StackInv, Own, ClearsLive

LEMMA CallDestroyKeeps ==
  ASSUME HeapInv(heap), CallDestroy
  PROVE  HeapInv(heap')
<1> DEFINE o == SvTop.sv
           class == heap.class[o]
           f == [SvTop EXCEPT !.class = class]
           i == Inc(heap, o)
           c == [i EXCEPT !.told[o] = class, !.to[Itself(o)] = o]
           w == WithTop(c, f)
           e == SvFrame("perl", o, Len(heap.tmps))
           k == Push(w, e)
           t == [heap EXCEPT !.told[o] = class]
           n == Len(heap.stack)
<1>1. SvTop.fn = "sv_clear" /\ o # NONE /\ class # NONE /\ heap' = k
  BY DEF CallDestroy, Reblessed
<1>2. /\ heap \in Heaps /\ DataInv(heap) /\ StackInv(heap) /\ heap.stack # <<>>
      /\ SvTop = heap.stack[n] /\ SvTop = Last(heap.stack) /\ SvTop \in SvFrames
      /\ \A x \in Obj : Clears(heap, n, x) <=> SvTop.sv = x
      /\ \A j \in 1 .. n - 1, x \in Obj : SvTop.sv = x => ~Clears(heap, j, x)
      /\ n \in 1 .. n /\ \A j : j \in 1 .. n <=> j \in 1 .. n - 1 \/ j = n
  BY <1>1, ClearTop
<1>3. o \in Obj /\ o = SvTop.sv
  BY <1>1, <1>2 DEF SvFrames
<1>4. heap.to[Itself(o)] = NONE /\ heap.state[o] = "live"
  BY <1>1, <1>3, NoneRuns
<1>5. /\ class \in Class /\ Len(heap.tmps) \in Nat
      /\ heap.to \in [Ref -> Obj \cup {NONE}] /\ heap.rc \in [Obj -> Nat]
      /\ heap.told \in [Obj -> Class \cup {NONE}]
  BY <1>1, <1>2, <1>3, LenProperties DEF Heaps
<1>6. /\ f \in SvFrames /\ f.fn = "sv_clear" /\ f.sv = o /\ f.iter = SvTop.iter /\ f.class = class
      /\ e \in SvFrames /\ e.fn = "perl" /\ e.sv = o /\ e.iter = <<>> /\ e.class = NONE
  <2>1. f \in SvFrames /\ f.fn = "sv_clear" /\ f.sv = o /\ f.iter = SvTop.iter /\ f.class = class
    BY <1>1, <1>2, <1>5 DEF SvFrames
  <2> QED
    BY <1>3, <1>5, <2>1, FrameType
<1>7. Itself(o) \in Ref
  BY <1>3, RefNotNone
<1>a. class = heap.class[o] /\ n = Len(heap.stack)
  OBVIOUS
<1> HIDE DEF o, f, e, class, n
<1>8. /\ i \in Heaps /\ i.rc = [heap.rc EXCEPT ![o] = heap.rc[o] + 1]
      /\ i.state = heap.state /\ i.class = heap.class /\ i.told = heap.told /\ i.to = heap.to
      /\ i.weak = heap.weak /\ i.backrefs = heap.backrefs /\ i.tmps = heap.tmps
      /\ i.stack = heap.stack
  BY <1>2, <1>3, IncFields
<1> HIDE DEF i
<1>9. [heap.told EXCEPT ![o] = class] \in [Obj -> Class \cup {NONE}]
  BY <1>5
<1>10. /\ c \in Heaps /\ c.told = [heap.told EXCEPT ![o] = class]
       /\ c.to = [heap.to EXCEPT ![Itself(o)] = o] /\ c.rc = i.rc
       /\ c.state = i.state /\ c.class = i.class
       /\ c.weak = i.weak /\ c.backrefs = i.backrefs /\ c.tmps = i.tmps /\ c.stack = i.stack
  <2>1. [heap.to EXCEPT ![Itself(o)] = o] \in [Ref -> Obj \cup {NONE}]
    BY <1>3, <1>5
  <2> QED
    BY <1>8, <1>9, <2>1 DEF Heaps
<1> HIDE DEF c
<1>11. /\ w \in Heaps /\ w.stack = Append(Front(c.stack), f)
       /\ w.rc = c.rc /\ w.state = c.state /\ w.class = c.class
       /\ w.told = c.told /\ w.to = c.to /\ w.weak = c.weak
       /\ w.backrefs = c.backrefs /\ w.tmps = c.tmps
  <2>1. c \in Heaps /\ c.stack # <<>> /\ f \in SvFrames
    BY <1>2, <1>6, <1>8, <1>10
  <2> QED
    BY ONLY <2>1, WithTopFields
<1> HIDE DEF w
<1>12. /\ k \in Heaps /\ k.stack = Append(w.stack, e)
       /\ k.rc = w.rc /\ k.state = w.state /\ k.class = w.class
       /\ k.told = w.told /\ k.to = w.to /\ k.weak = w.weak
       /\ k.backrefs = w.backrefs /\ k.tmps = w.tmps
  BY <1>6, <1>11, PushFields
<1> HIDE DEF k
<1>13. /\ k.rc = [heap.rc EXCEPT ![o] = heap.rc[o] + 1]
       /\ k.state = heap.state /\ k.class = heap.class
       /\ k.told = [heap.told EXCEPT ![o] = class]
       /\ k.to = [heap.to EXCEPT ![Itself(o)] = o]
       /\ k.weak = heap.weak /\ k.backrefs = heap.backrefs /\ k.tmps = heap.tmps
       /\ k.stack = Append(Append(Front(heap.stack), f), e)
  BY <1>8, <1>10, <1>11, <1>12
<1>14. DataInv(k)
  BY ONLY <1>2, <1>3, <1>4, <1>7, <1>12, <1>13, SetStrong
<1>15. /\ t \in Heaps /\ t.told = [heap.told EXCEPT ![o] = class]
       /\ t.rc = heap.rc /\ t.state = heap.state /\ t.class = heap.class /\ t.to = heap.to
       /\ t.weak = heap.weak /\ t.backrefs = heap.backrefs /\ t.tmps = heap.tmps
       /\ t.stack = heap.stack
  BY <1>2, <1>9 DEF Heaps
<1> HIDE DEF t
<1> DEFINE m == WithTop(t, f)
<1>16. /\ m \in Heaps /\ m.stack = Append(Front(heap.stack), f)
       /\ m.rc = heap.rc /\ m.state = heap.state /\ m.class = heap.class
       /\ m.told = [heap.told EXCEPT ![o] = class] /\ m.to = heap.to /\ m.weak = heap.weak
  <2>1. t \in Heaps /\ t.stack # <<>> /\ f \in SvFrames
    BY <1>2, <1>6, <1>15
  <2>2. /\ m \in Heaps /\ m.stack = Append(Front(t.stack), f)
        /\ m.rc = t.rc /\ m.state = t.state /\ m.class = t.class
        /\ m.told = t.told /\ m.to = t.to /\ m.weak = t.weak
    BY ONLY <2>1, WithTopFields
  <2> QED
    BY <1>15, <2>2
<1> HIDE DEF m
<1>17. \A x \in Obj : m.told[x] = IF x = o THEN class ELSE heap.told[x]
  BY <1>5, <1>16
<1>18. StackInv(m)
  <2>1. \A x \in Obj :
          m.to[Itself(x)] = heap.to[Itself(x)] /\ m.weak[Itself(x)] = heap.weak[Itself(x)]
    BY <1>16
  <2>2. \A x \in Obj : f.sv = x =>
          m.state[x] = "live" /\ \A j \in 1 .. n - 1 : ~Clears(heap, j, x)
    BY <1>2, <1>3, <1>4, <1>6, <1>16
  <2>3. \A j \in 1 .. n - 1, x \in Obj : Clears(heap, j, x) =>
          m.state[x] = "live" /\ m.told[x] = heap.told[x]
    <3>1. \A j \in 1 .. n, x \in Obj : Clears(heap, j, x) => heap.state[x] = "live"
      BY <1>2, <1>a DEF StackInv, ClearsLive
    <3> QED
      BY <1>2, <1>3, <1>16, <1>17, <3>1
  <2>4. /\ \A j \in 1 .. n : \A l \in 1 .. Len(heap.stack[j].iter) :
             heap.state[heap.stack[j].iter[l]] = "clearing"
        /\ \A j \in 1 .. n - 1 : j # n /\ j \in 1 .. n
    <3>1. n \in Nat
      BY <1>2, <1>a, StackLength
    <3> QED
      BY <1>2, <1>a, <3>1 DEF StackInv, ItersClear
  <2>5. \A j \in 1 .. n - 1 : \A l \in 1 .. Len(heap.stack[j].iter) :
          m.state[heap.stack[j].iter[l]] = "clearing"
    BY <1>16, <2>4
  <2>6. f.iter = heap.stack[n].iter
    BY <1>2, <1>6
  <2>7. ASSUME NEW l \in 1 .. Len(f.iter)
        PROVE  /\ m.state[f.iter[l]] = "clearing"
               /\ \A p \in 1 .. Len(f.iter) : f.iter[l] = f.iter[p] => l = p
               /\ \A j \in 1 .. n - 1 : \A p \in 1 .. Len(heap.stack[j].iter) :
                    f.iter[l] # heap.stack[j].iter[p]
    <3>1. m.state[f.iter[l]] = "clearing"
      BY <1>2, <1>16, <2>4, <2>6
    <3>2. \A p \in 1 .. Len(f.iter) : f.iter[l] = f.iter[p] => l = p
      <4>1. ItersOnce(heap)
        BY <1>2 DEF StackInv
      <4>2. n \in 1 .. Len(heap.stack)
        BY <1>2, <1>a
      <4> QED BY <2>6, <4>1, <4>2 DEF ItersOnce
    <3>3. \A j \in 1 .. n - 1 : \A p \in 1 .. Len(heap.stack[j].iter) :
            f.iter[l] # heap.stack[j].iter[p]
      <4> SUFFICES ASSUME NEW j \in 1 .. n - 1, NEW p \in 1 .. Len(heap.stack[j].iter),
                          f.iter[l] = heap.stack[j].iter[p]
                   PROVE  FALSE
        OBVIOUS
      <4>1. j # n /\ j \in 1 .. n /\ n \in 1 .. n
        BY <1>2, <2>4
      <4>2. l \in 1 .. Len(heap.stack[n].iter) /\ heap.stack[n].iter[l] = heap.stack[j].iter[p]
        BY <2>6
      <4> QED
        BY <1>2, <1>a, <4>1, <4>2 DEF StackInv, ItersOnce
    <3> QED
      BY <3>1, <3>2, <3>3
  <2>8. ToldHasClass(m)
    <3>1. \A x \in Obj : heap.told[x] # NONE => heap.class[x] # NONE
      BY <1>2 DEF StackInv, ToldHasClass
    <3> QED
      BY <1>1, <1>16, <1>17, <1>a, <3>1 DEF ToldHasClass
  <2>9. f.class # NONE => f.sv \in Obj /\ f.class = m.told[f.sv]
    BY <1>3, <1>6, <1>17
  <2>10. \A x \in Obj : m.state[x] = "live" /\ m.rc[x] = 0 =>
           f.sv = x \/ \E j \in 1 .. n - 1 : Clears(heap, j, x)
    <3>1. \A x \in Obj : heap.state[x] = "live" /\ heap.rc[x] = 0 =>
            \E j \in 1 .. n : Clears(heap, j, x)
      BY <1>2, <1>a DEF StackInv, ZeroIsCleared
    <3> QED
      BY <1>2, <1>3, <1>6, <1>16, <3>1
  <2>11. heap.stack[n].fn = "sv_clear" /\ f.fn = "sv_clear" /\ n = Len(heap.stack)
    BY <1>1, <1>2, <1>6, <1>a
  <2>12. StackInv(heap) /\ m \in Heaps /\ f \in SvFrames /\ m.stack = Append(Front(heap.stack), f)
    BY <1>2, <1>6, <1>16
  <2> QED
    <3>1. Replaces(heap, m, f, n)
      BY ONLY <2>1, <2>2, <2>3, <2>5, <2>7, <2>8, <2>9, <2>10, <2>11, <2>12 DEF Replaces
    <3> QED
      BY ONLY <2>12, <3>1, ReplaceTop
<1>19. StackInv(k)
  <2>1. k \in Heaps /\ e \in SvFrames /\ k.stack = Append(m.stack, e) /\ e.iter = <<>>
        /\ e.class = NONE /\ k.state = m.state /\ k.told = m.told /\ k.class = m.class
    BY <1>6, <1>12, <1>13, <1>16
  <2>2. \A x \in Obj : Clears(m, Len(m.stack), x) <=> e.fn = "perl" /\ e.sv = x
    <3>1. Len(m.stack) = n /\ m.stack[n] = f
      <4>1. /\ Len(m.stack) = Len(heap.stack) /\ m.stack[Len(heap.stack)] = f
        <5>1. heap \in Heaps /\ heap.stack # <<>> /\ f \in SvFrames
          BY <1>2, <1>6
        <5> QED
          BY ONLY <1>16, <5>1, ReplacedStack
      <4> QED
        BY <1>a, <4>1
    <3> QED
      BY <1>3, <1>6, <3>1 DEF Clears
  <2>3. \A x \in Obj : e.fn = "sv_clear" /\ e.sv = x =>
          m.state[x] = "live" /\ \A j \in 1 .. Len(m.stack) : ~Clears(m, j, x)
    BY <1>6
  <2>4. \A x \in Obj :
          /\ k.to[Itself(x)] = IF e.fn = "perl" /\ e.sv = x THEN x ELSE m.to[Itself(x)]
          /\ k.weak[Itself(x)] = m.weak[Itself(x)]
    <3> SUFFICES ASSUME NEW x \in Obj
                 PROVE  k.to[Itself(x)] = IF x = o THEN x ELSE heap.to[Itself(x)]
      BY <1>6, <1>13, <1>16
    <3>1. Itself(x) \in Ref /\ (Itself(x) = Itself(o) => x = o)
      BY RefNotNone DEF Itself
    <3> QED
      BY <1>5, <1>13, <3>1
  <2>5. \A x \in Obj : k.state[x] = "live" /\ k.rc[x] = 0 =>
          m.rc[x] = 0 \/ (e.fn = "sv_clear" /\ e.sv = x)
    BY <1>3, <1>5, <1>13, <1>16
  <2> QED
    BY ONLY <1>18, <2>1, <2>2, <2>3, <2>4, <2>5, PushStack
<1> QED
  BY <1>1, <1>14, <1>19 DEF HeapInv, k

\* What the frames below the function on top hold.
Below(h, n) ==
  /\ n \in 1 .. n
  /\ \A j \in 1 .. n - 1 : j # n /\ j \in 1 .. n
  /\ \A j \in 1 .. n : \A l \in 1 .. Len(h.stack[j].iter) :
       h.state[h.stack[j].iter[l]] = "clearing" /\ h.stack[j].iter[l] \in Obj
  /\ \A l, p \in 1 .. Len(h.stack[n].iter) :
       h.stack[n].iter[l] = h.stack[n].iter[p] => l = p
  /\ \A l \in 1 .. Len(h.stack[n].iter), j \in 1 .. n - 1 :
       \A p \in 1 .. Len(h.stack[j].iter) : h.stack[n].iter[l] # h.stack[j].iter[p]
  /\ \A j \in 1 .. n - 1, x \in Obj : Clears(h, j, x) => h.state[x] = "live"
  /\ \A x \in Obj : h.state[x] = "live" /\ h.rc[x] = 0 =>
       \E j \in 1 .. n : Clears(h, j, x)

LEMMA BelowFacts ==
  ASSUME NEW h, StackInv(h)
  PROVE  Below(h, Len(h.stack))
<1> DEFINE n == Len(h.stack)
<1>0. n = Len(h.stack)
  OBVIOUS
<1> HIDE DEF n
<1>1. h \in Heaps /\ n \in Nat \ {0}
  BY <1>0, TopFacts
<1>2. n \in 1 .. n /\ \A j \in 1 .. n - 1 : j # n /\ j \in 1 .. n
  BY <1>1
<1>3. ASSUME NEW j \in 1 .. n, NEW l \in 1 .. Len(h.stack[j].iter)
      PROVE  h.state[h.stack[j].iter[l]] = "clearing" /\ h.stack[j].iter[l] \in Obj
  <2>1. h.state[h.stack[j].iter[l]] = "clearing"
    BY <1>0 DEF StackInv, ItersClear
  <2>2. h.stack[j].iter[l] \in Obj
    BY <1>0, <1>1, FrameFields
  <2> QED
    BY <2>1, <2>2
<1>4. \A l, p \in 1 .. Len(h.stack[n].iter) : h.stack[n].iter[l] = h.stack[n].iter[p] => l = p
  BY ZenonT(30), <1>0, <1>2 DEF StackInv, ItersOnce
<1>5. ASSUME NEW l \in 1 .. Len(h.stack[n].iter), NEW j \in 1 .. n - 1,
             NEW p \in 1 .. Len(h.stack[j].iter), h.stack[n].iter[l] = h.stack[j].iter[p]
      PROVE  FALSE
  BY <1>0, <1>2, <1>5 DEF StackInv, ItersOnce
<1>6. \A j \in 1 .. n - 1, x \in Obj : Clears(h, j, x) => h.state[x] = "live"
  BY <1>0, <1>2 DEF StackInv, ClearsLive
<1>7. \A x \in Obj : h.state[x] = "live" /\ h.rc[x] = 0 => \E j \in 1 .. n : Clears(h, j, x)
  BY <1>0 DEF StackInv, ZeroIsCleared
<1> QED
  BY <1>0, <1>2, <1>3, <1>4, <1>5, <1>6, <1>7 DEF Below

LEMMA DestroyReturnKeeps ==
  ASSUME HeapInv(heap), DestroyReturn
  PROVE  HeapInv(heap')
<1> DEFINE o == SvTop.sv
           p == Pop(heap)
           u == Unset(p, Itself(o))
           k == [u EXCEPT !.rc[o] = u.rc[o] - 1]
<1>1. Running /\ o # NONE /\ heap' = k
  BY DEF DestroyReturn
<1>2. /\ heap \in Heaps /\ DataInv(heap) /\ StackInv(heap) /\ heap.stack # <<>>
      /\ SvTop = heap.stack[Len(heap.stack)] /\ SvTop \in SvFrames /\ SvTop.fn = "perl"
      /\ Len(heap.stack) \in 1 .. Len(heap.stack)
  BY <1>1, CodeTop, TopFacts
<1>3. o \in Obj /\ o = SvTop.sv
  BY <1>1, <1>2 DEF SvFrames
<1>4. Destroys(heap, Len(heap.stack), o)
  BY <1>2 DEF Destroys
<1>5. heap.to[Itself(o)] = o /\ ~heap.weak[Itself(o)] /\ Itself(o) \in Ref
  BY <1>2, <1>3, <1>4, RefNotNone DEF StackInv, Own
<1> HIDE DEF o
<1>6. Itself(o) \in StrongIn(heap, o) /\ heap.rc[o] > 0
  <2>1. Itself(o) \in StrongIn(heap, o)
    BY <1>5 DEF StrongIn
  <2> QED
    BY <1>2, <1>3, <2>1, CountFacts
<1>7. /\ p \in Heaps /\ p.stack = Front(heap.stack)
      /\ p.rc = heap.rc /\ p.state = heap.state /\ p.class = heap.class
      /\ p.told = heap.told /\ p.to = heap.to /\ p.weak = heap.weak
      /\ p.backrefs = heap.backrefs /\ p.tmps = heap.tmps
  BY <1>2, PopFields
<1> HIDE DEF p
<1>8. /\ u \in Heaps
      /\ u.to = [p.to EXCEPT ![Itself(o)] = NONE] /\ u.weak = [p.weak EXCEPT ![Itself(o)] = FALSE]
      /\ u.rc = p.rc /\ u.state = p.state /\ u.class = p.class /\ u.told = p.told
      /\ u.backrefs = p.backrefs /\ u.tmps = p.tmps /\ u.stack = p.stack
  BY <1>5, <1>7, UnsetFields
<1> HIDE DEF u
<1>9. /\ heap.rc \in [Obj -> Nat] /\ heap.to \in [Ref -> Obj \cup {NONE}]
      /\ heap.weak \in [Ref -> BOOLEAN]
  BY <1>2 DEF Heaps
<1>10. /\ k \in Heaps /\ k.rc = [u.rc EXCEPT ![o] = u.rc[o] - 1]
       /\ k.to = u.to /\ k.weak = u.weak /\ k.state = u.state /\ k.class = u.class
       /\ k.told = u.told /\ k.backrefs = u.backrefs /\ k.tmps = u.tmps /\ k.stack = u.stack
  <2>1. [u.rc EXCEPT ![o] = u.rc[o] - 1] \in [Obj -> Nat]
    BY <1>3, <1>6, <1>7, <1>8, <1>9
  <2> QED
    BY <1>8, <2>1 DEF Heaps
<1> HIDE DEF k
<1>11. /\ k.rc = [heap.rc EXCEPT ![o] = heap.rc[o] - 1]
       /\ k.to = [heap.to EXCEPT ![Itself(o)] = NONE]
       /\ k.weak = [heap.weak EXCEPT ![Itself(o)] = FALSE]
       /\ k.state = heap.state /\ k.class = heap.class /\ k.told = heap.told
       /\ k.backrefs = heap.backrefs /\ k.tmps = heap.tmps /\ k.stack = Front(heap.stack)
  BY <1>7, <1>8, <1>10
<1>12. DataInv(k)
  BY ONLY <1>2, <1>3, <1>5, <1>10, <1>11, DropStrong
<1>13. StackInv(k)
  <2>1. \A x \in Obj :
          /\ k.to[Itself(x)] =
               IF SvTop.fn = "perl" /\ SvTop.sv = x THEN NONE ELSE heap.to[Itself(x)]
          /\ ~k.weak[Itself(x)]
    <3> SUFFICES ASSUME NEW x \in Obj
                 PROVE  /\ k.to[Itself(x)] = IF o = x THEN NONE ELSE heap.to[Itself(x)]
                        /\ ~k.weak[Itself(x)]
      BY <1>2, <1>3
    <3>1. Itself(x) \in Ref /\ (Itself(x) = Itself(o) <=> x = o)
      BY RefNotNone DEF Itself
    <3>2. ~heap.weak[Itself(x)]
      BY <1>2 DEF StackInv, Own
    <3> QED
      BY <1>9, <1>11, <3>1, <3>2
  <2>2. \A x \in Obj : k.rc[x] = 0 => heap.rc[x] = 0 \/ (SvTop.fn = "perl" /\ SvTop.sv = x)
    BY <1>2, <1>3, <1>9, <1>11
  <2>3. /\ SvTop = heap.stack[Len(heap.stack)] /\ SvTop.sv # NONE /\ SvTop.fn # "sv_clear"
        /\ StackInv(heap) /\ k \in Heaps
    BY <1>1, <1>2, <1>3, <1>10
  <2> QED
    <3>1. /\ k.state = heap.state /\ k.class = heap.class /\ k.told = heap.told
          /\ k.stack = Front(heap.stack)
      BY <1>11
    <3> QED
      BY ONLY <2>1, <2>2, <2>3, <3>1, PopStack
<1> QED
  BY <1>1, <1>12, <1>13 DEF HeapInv

\* The object lives on.
LEMMA RevivedKeeps ==
  ASSUME HeapInv(heap), Cursed, Revived(heap, SvTop)
  PROVE  HeapInv(heap')
<1> DEFINE o == SvTop.sv
           f == [SvTop EXCEPT !.sv = NONE, !.class = NONE]
           k == WithTop(heap, f)
           n == Len(heap.stack)
<1>1. SvTop.fn = "sv_clear" /\ o # NONE /\ heap' = k
  BY DEF Cursed
<1>2. /\ heap \in Heaps /\ DataInv(heap) /\ StackInv(heap) /\ heap.stack # <<>>
      /\ SvTop = heap.stack[n] /\ SvTop \in SvFrames
      /\ \A x \in Obj : Clears(heap, n, x) <=> SvTop.sv = x
      /\ \A j : j \in 1 .. n <=> j \in 1 .. n - 1 \/ j = n
  BY <1>1, ClearTop
<1>3. o \in Obj /\ o = SvTop.sv /\ n = Len(heap.stack) /\ heap.rc[o] # 0
  <2>1. o \in Obj
    BY <1>1, <1>2 DEF SvFrames
  <2> QED
    BY <2>1 DEF Revived
<1>4. /\ f \in SvFrames /\ f.fn = "sv_clear" /\ f.sv = NONE /\ f.iter = SvTop.iter
      /\ f.class = NONE
  BY <1>1, <1>2 DEF SvFrames
<1> HIDE DEF o, f, n
<1>5. /\ k \in Heaps /\ k.stack = Append(Front(heap.stack), f)
      /\ k.rc = heap.rc /\ k.state = heap.state /\ k.class = heap.class
      /\ k.told = heap.told /\ k.to = heap.to /\ k.weak = heap.weak
      /\ k.backrefs = heap.backrefs /\ k.tmps = heap.tmps
  BY <1>2, <1>4, WithTopFields
<1> HIDE DEF k
<1>6. DataInv(k)
  BY ONLY <1>2, <1>5, DataSame
<1>7. Replaces(heap, k, f, n)
  <2>a. Below(heap, n)
    BY <1>2, <1>3, BelowFacts
  <2>1. /\ n \in 1 .. n
        /\ \A j \in 1 .. n : \A l \in 1 .. Len(heap.stack[j].iter) :
             heap.state[heap.stack[j].iter[l]] = "clearing" /\ heap.stack[j].iter[l] \in Obj
        /\ \A j \in 1 .. n - 1, x \in Obj : Clears(heap, j, x) => heap.state[x] = "live"
        /\ \A x \in Obj : heap.state[x] = "live" /\ heap.rc[x] = 0 =>
             \E j \in 1 .. n : Clears(heap, j, x)
    BY <2>a DEF Below
  <2>b. /\ \A l, p \in 1 .. Len(SvTop.iter) : SvTop.iter[l] = SvTop.iter[p] => l = p
        /\ \A l \in 1 .. Len(SvTop.iter), j \in 1 .. n - 1 :
             \A p \in 1 .. Len(heap.stack[j].iter) : SvTop.iter[l] # heap.stack[j].iter[p]
        /\ \A l \in 1 .. Len(SvTop.iter) :
             heap.state[SvTop.iter[l]] = "clearing" /\ SvTop.iter[l] \in Obj
    <3>1. SvTop = heap.stack[n]
      BY <1>2
    <3>2. \A l, p \in 1 .. Len(heap.stack[n].iter) :
            heap.stack[n].iter[l] = heap.stack[n].iter[p] => l = p
      BY ONLY <2>a DEF Below
    <3>3. \A l \in 1 .. Len(heap.stack[n].iter), j \in 1 .. n - 1 :
            \A p \in 1 .. Len(heap.stack[j].iter) :
              heap.stack[n].iter[l] # heap.stack[j].iter[p]
      BY ONLY <2>a DEF Below
    <3>4. \A l \in 1 .. Len(heap.stack[n].iter) :
            heap.state[heap.stack[n].iter[l]] = "clearing" /\ heap.stack[n].iter[l] \in Obj
      BY ONLY <2>1
    <3> QED
      BY ONLY <3>1, <3>2, <3>3, <3>4
  <2>2. \A x \in Obj : k.state[x] = "live" /\ k.rc[x] = 0 =>
          f.sv = x \/ \E j \in 1 .. n - 1 : Clears(heap, j, x)
    BY <1>2, <1>3, <1>5, <2>1
  <2>3. \A j \in 1 .. n - 1 : \A l \in 1 .. Len(heap.stack[j].iter) :
          k.state[heap.stack[j].iter[l]] = "clearing"
    <3>1. \A j \in 1 .. n - 1 : j \in 1 .. n
      BY <1>2
    <3>2. k.state = heap.state
      BY <1>5
    <3> QED
      BY ONLY <2>1, <3>1, <3>2
  <2>4. \A l \in 1 .. Len(f.iter) :
          /\ k.state[f.iter[l]] = "clearing"
          /\ \A m \in 1 .. Len(f.iter) : f.iter[l] = f.iter[m] => l = m
          /\ \A j \in 1 .. n - 1 : \A m \in 1 .. Len(heap.stack[j].iter) :
               f.iter[l] # heap.stack[j].iter[m]
    <3>1. f.iter = SvTop.iter /\ k.state = heap.state
      BY <1>4, <1>5
    <3> QED
      BY ONLY <2>b, <3>1
  <2>5. ToldHasClass(k)
    BY <1>2, <1>5 DEF StackInv, ToldHasClass
  <2>6. \A x \in Obj : f.sv # x
    BY <1>4, RefsAssumption
  <2>7. \A j \in 1 .. n - 1, x \in Obj : Clears(heap, j, x) =>
          k.state[x] = "live" /\ k.told[x] = heap.told[x]
    BY <1>5, <2>1
  <2>8. \A x \in Obj :
          k.to[Itself(x)] = heap.to[Itself(x)] /\ k.weak[Itself(x)] = heap.weak[Itself(x)]
    BY <1>5
  <2>9. n = Len(heap.stack) /\ heap.stack[n].fn = "sv_clear"
    BY <1>1, <1>2, <1>3
  <2> QED
    BY ONLY <1>4, <1>5, <2>2, <2>3, <2>4, <2>5, <2>6, <2>7, <2>8, <2>9 DEF Replaces
<1>8. StackInv(k)
  BY <1>2, <1>4, <1>5, <1>7, ReplaceTop
<1> QED
  BY <1>1, <1>6, <1>8 DEF HeapInv

\* The object is done with: its weak references are broken, its elements next.
LEMMA DoneKeeps ==
  ASSUME HeapInv(heap), Cursed, ~Revived(heap, SvTop)
  PROVE  HeapInv(heap')
<1> DEFINE o == SvTop.sv
           f == [SvTop EXCEPT !.sv = NONE, !.class = NONE, !.iter = Append(SvTop.iter, o)]
           h == KillBackrefs(heap, o)
           c == [h EXCEPT !.state[o] = "clearing", !.class[o] = NONE, !.told[o] = NONE]
           k == WithTop(c, f)
           n == Len(heap.stack)
<1>1. SvTop.fn = "sv_clear" /\ o # NONE /\ heap' = k
  BY DEF Cursed
<1>2. /\ heap \in Heaps /\ DataInv(heap) /\ StackInv(heap) /\ heap.stack # <<>>
      /\ SvTop = heap.stack[n] /\ SvTop \in SvFrames
      /\ SvTop.iter \in Seq(Obj) /\ Len(SvTop.iter) \in Nat
      /\ \A x \in Obj : Clears(heap, n, x) <=> SvTop.sv = x
      /\ \A j \in 1 .. n - 1, x \in Obj : SvTop.sv = x => ~Clears(heap, j, x)
      /\ \A j : j \in 1 .. n <=> j \in 1 .. n - 1 \/ j = n
  BY <1>1, ClearTop
<1>3. o \in Obj /\ o = SvTop.sv /\ n = Len(heap.stack) /\ heap.rc[o] = 0
  <2>1. o \in Obj
    BY <1>1, <1>2 DEF SvFrames
  <2>2. heap.rc[o] \in Nat
    BY <1>2, <2>1 DEF Heaps
  <2> QED
    BY <2>1, <2>2 DEF Revived
<1>4. heap.state[o] = "live"
  BY <1>1, <1>3, NoneRuns
<1>5. /\ Append(SvTop.iter, o) \in Seq(Obj) /\ Len(Append(SvTop.iter, o)) = Len(SvTop.iter) + 1
      /\ Append(SvTop.iter, o)[Len(SvTop.iter) + 1] = o
      /\ \A l \in 1 .. Len(SvTop.iter) : Append(SvTop.iter, o)[l] = SvTop.iter[l]
  BY <1>2, <1>3, AppendProperties
<1>6. /\ f \in SvFrames /\ f.fn = "sv_clear" /\ f.sv = NONE /\ f.iter = Append(SvTop.iter, o)
      /\ f.class = NONE
  BY <1>1, <1>2, <1>5 DEF SvFrames
<1> HIDE DEF o, f, n
<1>7. /\ h \in Heaps
      /\ h.to = [r \in Ref |-> IF r \in heap.backrefs[o] THEN NONE ELSE heap.to[r]]
      /\ h.weak = [r \in Ref |-> r \notin heap.backrefs[o] /\ heap.weak[r]]
      /\ h.backrefs = [heap.backrefs EXCEPT ![o] = {}]
      /\ h.rc = heap.rc /\ h.state = heap.state /\ h.class = heap.class /\ h.told = heap.told
      /\ h.tmps = heap.tmps /\ h.stack = heap.stack
  BY <1>2, <1>3, KillFields
<1> HIDE DEF h
<1>8. /\ heap.state \in [Obj -> {"free", "live", "clearing"}]
      /\ heap.class \in [Obj -> Class \cup {NONE}] /\ heap.told \in [Obj -> Class \cup {NONE}]
  BY <1>2 DEF Heaps
<1>9. /\ c \in Heaps
      /\ c.state = [h.state EXCEPT ![o] = "clearing"]
      /\ c.class = [h.class EXCEPT ![o] = NONE] /\ c.told = [h.told EXCEPT ![o] = NONE]
      /\ c.to = h.to /\ c.weak = h.weak /\ c.backrefs = h.backrefs
      /\ c.rc = h.rc /\ c.tmps = h.tmps /\ c.stack = h.stack
  <2>1. [h.state EXCEPT ![o] = "clearing"] \in [Obj -> {"free", "live", "clearing"}]
    BY <1>7, <1>8
  <2>2. /\ [h.class EXCEPT ![o] = NONE] \in [Obj -> Class \cup {NONE}]
        /\ [h.told EXCEPT ![o] = NONE] \in [Obj -> Class \cup {NONE}]
    BY <1>7, <1>8
  <2> QED
    BY <1>7, <2>1, <2>2 DEF Heaps
<1> HIDE DEF c
<1>10. /\ k \in Heaps /\ k.stack = Append(Front(c.stack), f)
       /\ k.rc = c.rc /\ k.state = c.state /\ k.class = c.class
       /\ k.told = c.told /\ k.to = c.to /\ k.weak = c.weak
       /\ k.backrefs = c.backrefs /\ k.tmps = c.tmps
  <2>1. c \in Heaps /\ c.stack # <<>> /\ f \in SvFrames
    BY <1>2, <1>6, <1>7, <1>9
  <2> QED
    BY ONLY <2>1, WithTopFields
<1> HIDE DEF k
<1>11. /\ k.stack = Append(Front(heap.stack), f)
       /\ k.to = [r \in Ref |-> IF r \in heap.backrefs[o] THEN NONE ELSE heap.to[r]]
       /\ k.weak = [r \in Ref |-> r \notin heap.backrefs[o] /\ heap.weak[r]]
       /\ k.backrefs = [heap.backrefs EXCEPT ![o] = {}]
       /\ k.rc = heap.rc /\ k.state = [heap.state EXCEPT ![o] = "clearing"]
       /\ k.class = [heap.class EXCEPT ![o] = NONE] /\ k.told = [heap.told EXCEPT ![o] = NONE]
       /\ k.tmps = heap.tmps
  BY <1>7, <1>9, <1>10
<1>12. DataInv(k)
  <2>1. DataInv(heap) /\ k \in Heaps /\ o \in Obj /\ heap.rc[o] = 0
    BY <1>2, <1>3, <1>10
  <2> QED
    BY ONLY <1>11, <2>1, KillWeak
<1>13. /\ \A x \in Obj : k.state[x] = IF x = o THEN "clearing" ELSE heap.state[x]
       /\ \A x \in Obj : k.told[x] = IF x = o THEN NONE ELSE heap.told[x]
       /\ \A x \in Obj : k.class[x] = IF x = o THEN NONE ELSE heap.class[x]
  BY <1>8, <1>11
<1>14. Replaces(heap, k, f, n)
  <2>a. Below(heap, n)
    BY <1>2, <1>3, BelowFacts
  <2>1. /\ n \in 1 .. n
        /\ \A j \in 1 .. n : \A l \in 1 .. Len(heap.stack[j].iter) :
             heap.state[heap.stack[j].iter[l]] = "clearing" /\ heap.stack[j].iter[l] \in Obj
        /\ \A j \in 1 .. n - 1, x \in Obj : Clears(heap, j, x) => heap.state[x] = "live"
        /\ \A x \in Obj : heap.state[x] = "live" /\ heap.rc[x] = 0 =>
             \E j \in 1 .. n : Clears(heap, j, x)
    BY <2>a DEF Below
  <2>b. /\ \A l, p \in 1 .. Len(SvTop.iter) : SvTop.iter[l] = SvTop.iter[p] => l = p
        /\ \A l \in 1 .. Len(SvTop.iter), j \in 1 .. n - 1 :
             \A p \in 1 .. Len(heap.stack[j].iter) : SvTop.iter[l] # heap.stack[j].iter[p]
        /\ \A l \in 1 .. Len(SvTop.iter) :
             heap.state[SvTop.iter[l]] = "clearing" /\ SvTop.iter[l] \in Obj
    <3>1. SvTop = heap.stack[n]
      BY <1>2
    <3>2. \A l, p \in 1 .. Len(heap.stack[n].iter) :
            heap.stack[n].iter[l] = heap.stack[n].iter[p] => l = p
      BY ONLY <2>a DEF Below
    <3>3. \A l \in 1 .. Len(heap.stack[n].iter), j \in 1 .. n - 1 :
            \A p \in 1 .. Len(heap.stack[j].iter) :
              heap.stack[n].iter[l] # heap.stack[j].iter[p]
      BY ONLY <2>a DEF Below
    <3>4. \A l \in 1 .. Len(heap.stack[n].iter) :
            heap.state[heap.stack[n].iter[l]] = "clearing" /\ heap.stack[n].iter[l] \in Obj
      BY ONLY <2>1
    <3> QED
      BY ONLY <3>1, <3>2, <3>3, <3>4
  <2>2. \A x \in Obj : k.state[x] = "live" /\ k.rc[x] = 0 =>
          f.sv = x \/ \E j \in 1 .. n - 1 : Clears(heap, j, x)
    <3> SUFFICES ASSUME NEW x \in Obj, k.state[x] = "live", k.rc[x] = 0
                 PROVE  \E j \in 1 .. n - 1 : Clears(heap, j, x)
      OBVIOUS
    <3>1. x # o /\ heap.state[x] = "live" /\ heap.rc[x] = 0
      BY <1>11, <1>13
    <3>2. PICK j \in 1 .. n : Clears(heap, j, x)
      BY <2>1, <3>1
    <3>3. j # n
      BY <1>2, <1>3, <3>1, <3>2
    <3> QED
      BY <1>2, <3>2, <3>3
  <2>3. \A j \in 1 .. n - 1 : \A l \in 1 .. Len(heap.stack[j].iter) :
          k.state[heap.stack[j].iter[l]] = "clearing"
    <3>1. \A j \in 1 .. n - 1 : j \in 1 .. n
      BY <1>2
    <3>2. o \in Obj
      BY <1>3
    <3> QED
      BY ONLY <1>13, <2>1, <3>1, <3>2
  <2>4. ASSUME NEW l \in 1 .. Len(f.iter)
        PROVE  \/ l = Len(SvTop.iter) + 1 /\ f.iter[l] = o
               \/ /\ l \in 1 .. Len(SvTop.iter) /\ l # Len(SvTop.iter) + 1
                  /\ f.iter[l] = SvTop.iter[l] /\ f.iter[l] # o
    <3>1. CASE l = Len(SvTop.iter) + 1
      BY <1>5, <1>6, <3>1
    <3>2. CASE l # Len(SvTop.iter) + 1
      <4>1. l \in 1 .. Len(SvTop.iter)
        BY SMTT(30), <1>2, <1>5, <1>6, <3>2
      <4>2. f.iter[l] = SvTop.iter[l]
        BY <1>5, <1>6, <4>1
      <4>3. heap.state[SvTop.iter[l]] = "clearing"
        BY <2>b, <4>1
      <4> QED
        BY <1>4, <3>2, <4>1, <4>2, <4>3
    <3> QED
      BY <3>1, <3>2
  <2>5. ASSUME NEW l \in 1 .. Len(f.iter)
        PROVE  /\ k.state[f.iter[l]] = "clearing"
               /\ \A m \in 1 .. Len(f.iter) : f.iter[l] = f.iter[m] => l = m
               /\ \A j \in 1 .. n - 1 : \A m \in 1 .. Len(heap.stack[j].iter) :
                    f.iter[l] # heap.stack[j].iter[m]
    <3>1. CASE l = Len(SvTop.iter) + 1 /\ f.iter[l] = o
      <4>1. \A m \in 1 .. Len(f.iter) : f.iter[l] = f.iter[m] => l = m
        BY <2>4, <3>1
      <4>2. \A j \in 1 .. n - 1 : \A m \in 1 .. Len(heap.stack[j].iter) :
              f.iter[l] # heap.stack[j].iter[m]
        BY <1>2, <1>4, <2>1, <3>1
      <4> QED
        BY <1>3, <1>13, <3>1, <4>1, <4>2
    <3>2. CASE /\ l \in 1 .. Len(SvTop.iter) /\ l # Len(SvTop.iter) + 1
               /\ f.iter[l] = SvTop.iter[l] /\ f.iter[l] # o
      <4>1. \A m \in 1 .. Len(f.iter) : f.iter[l] = f.iter[m] => l = m
        BY <2>4, <2>b, <3>2
      <4>2. \A j \in 1 .. n - 1 : \A m \in 1 .. Len(heap.stack[j].iter) :
              f.iter[l] # heap.stack[j].iter[m]
        BY <2>b, <3>2
      <4>3. k.state[f.iter[l]] = "clearing"
        BY <1>13, <2>b, <3>2
      <4> QED
        BY <4>1, <4>2, <4>3
    <3> QED
      BY <2>4, <3>1, <3>2
  <2>6. ToldHasClass(k)
    BY <1>2, <1>13 DEF StackInv, ToldHasClass
  <2>7. \A x \in Obj : f.sv # x
    BY <1>6, RefsAssumption
  <2>8. \A j \in 1 .. n - 1, x \in Obj : Clears(heap, j, x) =>
          k.state[x] = "live" /\ k.told[x] = heap.told[x]
    BY <1>2, <1>3, <1>13, <2>1
  <2>9. \A x \in Obj :
          k.to[Itself(x)] = heap.to[Itself(x)] /\ k.weak[Itself(x)] = heap.weak[Itself(x)]
    <3>1. \A x \in Obj : ~heap.weak[Itself(x)]
      BY <1>2 DEF StackInv, Own
    <3>2. heap.backrefs[o] = {r \in Ref : heap.to[r] = o /\ heap.weak[r]}
      BY <1>2, <1>3 DEF DataInv, Backed
    <3>3. \A x \in Obj : Itself(x) \notin heap.backrefs[o] /\ Itself(x) \in Ref
      BY <3>1, <3>2, RefNotNone
    <3>4. heap.weak \in [Ref -> BOOLEAN]
      BY <1>2 DEF Heaps
    <3> QED
      BY ONLY <1>11, <3>3, <3>4
  <2>10. n = Len(heap.stack) /\ heap.stack[n].fn = "sv_clear"
    BY <1>1, <1>2, <1>3
  <2>11. /\ k.stack = Append(Front(heap.stack), f) /\ f.fn = "sv_clear" /\ f.class = NONE
    BY <1>6, <1>11
  <2> QED
    BY ONLY <2>2, <2>3, <2>5, <2>6, <2>7, <2>8, <2>9, <2>10, <2>11 DEF Replaces
<1>15. StackInv(k)
  <2>1. StackInv(heap) /\ k \in Heaps /\ f \in SvFrames
    BY <1>2, <1>6, <1>10
  <2> QED
    BY ONLY <1>14, <2>1, ReplaceTop
<1> QED
  BY <1>1, <1>12, <1>15 DEF HeapInv

LEMMA ClearReturnKeeps ==
  ASSUME HeapInv(heap), ClearReturn
  PROVE  HeapInv(heap')
<1> DEFINE k == Pop(heap)
<1>1. heap' = k /\ SvTop.fn = "sv_clear" /\ SvTop.sv = NONE
  BY DEF ClearReturn
<1>2. /\ heap \in Heaps /\ DataInv(heap) /\ StackInv(heap) /\ heap.stack # <<>>
      /\ SvTop = heap.stack[Len(heap.stack)]
  BY <1>1, ClearTop
<1>3. /\ k \in Heaps /\ k.stack = Front(heap.stack)
      /\ k.rc = heap.rc /\ k.state = heap.state /\ k.class = heap.class
      /\ k.told = heap.told /\ k.to = heap.to /\ k.weak = heap.weak
      /\ k.backrefs = heap.backrefs /\ k.tmps = heap.tmps
  BY <1>2, PopFields
<1> HIDE DEF k
<1>4. DataInv(k)
  BY ONLY <1>2, <1>3, DataSame
<1>5. StackInv(k)
  <2>1. \A x \in Obj :
          /\ k.to[Itself(x)] =
               IF SvTop.fn = "perl" /\ SvTop.sv = x THEN NONE ELSE heap.to[Itself(x)]
          /\ ~k.weak[Itself(x)]
    BY <1>1, <1>2, <1>3 DEF StackInv, Own
  <2>2. \A x \in Obj : k.rc[x] = 0 => heap.rc[x] = 0
    BY <1>3
  <2>3. SvTop.fn # "perl" /\ (SvTop.fn = "sv_clear" => SvTop.sv = NONE)
    BY <1>1
  <2> QED
    BY ONLY <1>2, <1>3, <2>1, <2>2, <2>3, PopStack
<1> QED
  BY <1>1, <1>4, <1>5 DEF HeapInv

\* sv_clear() is at an array: its last element that is set, if one is.
Left(h, o) == {i \in 1 .. Slots : h.to[<<o, i>>] # NONE}

LEMMA LastLeft ==
  ASSUME NEW h, NEW o, Left(h, o) # {}
  PROVE  (CHOOSE i \in Left(h, o) : \A j \in Left(h, o) : j <= i) \in Left(h, o)
<1> DEFINE T == {m \in Nat : Slots - m \in Left(h, o)}
<1>1. Left(h, o) \subseteq 1 .. Slots /\ Slots \in Nat
  BY RefsAssumption DEF Left
<1>2. \A i \in Left(h, o) : Slots - i \in T /\ i \in Int
  BY <1>1
<1>3. T # {} /\ T \subseteq Nat
  BY <1>2
<1>4. \A m \in T : Slots - m \in Left(h, o) /\ m \in Nat
  OBVIOUS
<1> HIDE DEF T
<1>5. PICK n \in T : \A m \in T : ~(<<m, n>> \in OpToRel(<, Nat))
  BY <1>3, NatLessThanWellFounded, WFMin
<1>6. \A m \in T : ~(m < n)
  BY <1>3, <1>5 DEF OpToRel
<1>7. \A j \in Left(h, o) : j <= Slots - n
  BY <1>1, <1>2, <1>4, <1>6
<1>8. \E i \in Left(h, o) : \A j \in Left(h, o) : j <= i
  BY <1>4, <1>7
<1> QED
  BY <1>8

LEMMA ElemCases ==
  ASSUME HeapInv(heap), ClearElem
  PROVE  LET n == Len(heap.stack)
             it == SvTop.iter
             o == Last(it)
         IN
         /\ heap \in Heaps /\ DataInv(heap) /\ StackInv(heap) /\ heap.stack # <<>>
         /\ SvTop = heap.stack[n] /\ SvTop \in SvFrames
         /\ SvTop.fn = "sv_clear" /\ SvTop.sv = NONE /\ SvTop.class = NONE
         /\ Len(it) \in Nat \ {0} /\ it \in Seq(Obj)
         /\ o = it[Len(it)] /\ Len(it) \in 1 .. Len(it) /\ o \in Obj
         /\ heap.state[o] = "clearing"
         /\ \A x \in Obj : ~Clears(heap, n, x)
         /\ \A j : j \in 1 .. n <=> j \in 1 .. n - 1 \/ j = n
<1> DEFINE n == Len(heap.stack)
           it == SvTop.iter
<1>1. SvTop.fn = "sv_clear" /\ SvTop.sv = NONE /\ it # <<>>
  BY DEF ClearElem
<1>2. /\ heap \in Heaps /\ DataInv(heap) /\ StackInv(heap) /\ heap.stack # <<>>
      /\ SvTop = heap.stack[n] /\ SvTop \in SvFrames
      /\ it \in Seq(Obj) /\ Len(it) \in Nat
      /\ \A x \in Obj : Clears(heap, n, x) <=> SvTop.sv = x
      /\ \A j : j \in 1 .. n <=> j \in 1 .. n - 1 \/ j = n
      /\ n \in 1 .. n
  BY <1>1, ClearTop
<1>3. \A x \in Obj : ~Clears(heap, n, x)
  BY <1>1, <1>2, RefsAssumption
<1>4. SvTop.class = NONE
  BY <1>2, <1>3 DEF StackInv, ClassWasTold
<1>5. Len(it) \in Nat \ {0} /\ Len(it) \in 1 .. Len(it)
  BY <1>1, <1>2, EmptySeq
<1>6. Last(it) = it[Len(it)] /\ it[Len(it)] \in Obj
  <2>1. it[Len(it)] \in Obj
    BY <1>2, <1>5, ElementOfSeq
  <2> QED
    BY <2>1 DEF Last
<1>7. heap.state[it[Len(it)]] = "clearing"
  BY <1>2, <1>5 DEF StackInv, ItersClear
<1> QED
  BY <1>1, <1>2, <1>3, <1>4, <1>5, <1>6, <1>7

\* The array is empty.
LEMMA FreedKeeps ==
  ASSUME HeapInv(heap), ClearElem, Left(heap, Last(SvTop.iter)) = {}
  PROVE  HeapInv(heap')
<1> DEFINE n == Len(heap.stack)
           it == SvTop.iter
           o == Last(it)
           f == [SvTop EXCEPT !.iter = Front(it)]
           c == [heap EXCEPT !.state[o] = "free"]
           k == WithTop(c, f)
<1>1. heap' = k
  BY DEF ClearElem, Left
<1>2. /\ heap \in Heaps /\ DataInv(heap) /\ StackInv(heap) /\ heap.stack # <<>>
      /\ SvTop = heap.stack[n] /\ SvTop \in SvFrames
      /\ SvTop.fn = "sv_clear" /\ SvTop.sv = NONE /\ SvTop.class = NONE
      /\ Len(it) \in Nat \ {0} /\ it \in Seq(Obj)
      /\ o = it[Len(it)] /\ Len(it) \in 1 .. Len(it) /\ o \in Obj
      /\ heap.state[o] = "clearing"
      /\ \A x \in Obj : ~Clears(heap, n, x)
      /\ \A j : j \in 1 .. n <=> j \in 1 .. n - 1 \/ j = n
  BY ElemCases
<1>3. /\ Front(it) \in Seq(Obj) /\ Len(Front(it)) = Len(it) - 1
      /\ \A l \in 1 .. Len(it) - 1 :
           Front(it)[l] = it[l] /\ l \in 1 .. Len(it) /\ l # Len(it)
  BY <1>2 DEF Front
<1>4. /\ f \in SvFrames /\ f.fn = "sv_clear" /\ f.sv = NONE /\ f.class = NONE
      /\ f.iter = Front(it)
  BY <1>2, <1>3 DEF SvFrames
<1>5. n = Len(heap.stack) /\ it = SvTop.iter
  OBVIOUS
<1> HIDE DEF f, o, n, it
<1>6. heap.state \in [Obj -> {"free", "live", "clearing"}]
  BY <1>2 DEF Heaps
<1>7. /\ c \in Heaps /\ c.state = [heap.state EXCEPT ![o] = "free"]
      /\ c.rc = heap.rc /\ c.class = heap.class /\ c.told = heap.told /\ c.to = heap.to
      /\ c.weak = heap.weak /\ c.backrefs = heap.backrefs /\ c.tmps = heap.tmps
      /\ c.stack = heap.stack
  <2>1. [heap.state EXCEPT ![o] = "free"] \in [Obj -> {"free", "live", "clearing"}]
    BY <1>6
  <2> QED
    BY <1>2, <2>1 DEF Heaps
<1> HIDE DEF c
<1>8. /\ k \in Heaps /\ k.stack = Append(Front(c.stack), f)
      /\ k.rc = c.rc /\ k.state = c.state /\ k.class = c.class
      /\ k.told = c.told /\ k.to = c.to /\ k.weak = c.weak
      /\ k.backrefs = c.backrefs /\ k.tmps = c.tmps
  <2>1. c \in Heaps /\ c.stack # <<>> /\ f \in SvFrames
    BY <1>2, <1>4, <1>7
  <2> QED
    BY ONLY <2>1, WithTopFields
<1> HIDE DEF k
<1>9. /\ k.stack = Append(Front(heap.stack), f)
      /\ k.state = [heap.state EXCEPT ![o] = "free"]
      /\ k.rc = heap.rc /\ k.class = heap.class /\ k.told = heap.told /\ k.to = heap.to
      /\ k.weak = heap.weak /\ k.backrefs = heap.backrefs /\ k.tmps = heap.tmps
  BY <1>7, <1>8
<1>10. DataInv(k)
  <2>1. DataInv(heap) /\ k \in Heaps /\ o \in Obj /\ heap.state[o] # "live"
    BY <1>2, <1>8
  <2> QED
    BY ONLY <1>9, <2>1, StateFree
<1>11. \A x \in Obj : k.state[x] = IF x = o THEN "free" ELSE heap.state[x]
  BY <1>6, <1>9
<1>12. Replaces(heap, k, f, n)
  <2>a. Below(heap, n)
    BY <1>2, <1>5, BelowFacts
  <2>1. /\ n \in 1 .. n
        /\ \A j \in 1 .. n : \A l \in 1 .. Len(heap.stack[j].iter) :
             heap.state[heap.stack[j].iter[l]] = "clearing" /\ heap.stack[j].iter[l] \in Obj
        /\ \A j \in 1 .. n - 1, x \in Obj : Clears(heap, j, x) => heap.state[x] = "live"
        /\ \A x \in Obj : heap.state[x] = "live" /\ heap.rc[x] = 0 =>
             \E j \in 1 .. n : Clears(heap, j, x)
    BY <2>a DEF Below
  <2>b. /\ \A l, p \in 1 .. Len(it) : it[l] = it[p] => l = p
        /\ \A l \in 1 .. Len(it), j \in 1 .. n - 1 :
             \A p \in 1 .. Len(heap.stack[j].iter) : it[l] # heap.stack[j].iter[p]
        /\ \A l \in 1 .. Len(it) : heap.state[it[l]] = "clearing" /\ it[l] \in Obj
    <3>1. it = heap.stack[n].iter
      BY <1>2, <1>5
    <3>2. \A l, p \in 1 .. Len(heap.stack[n].iter) :
            heap.stack[n].iter[l] = heap.stack[n].iter[p] => l = p
      BY ONLY <2>a DEF Below
    <3>3. \A l \in 1 .. Len(heap.stack[n].iter), j \in 1 .. n - 1 :
            \A p \in 1 .. Len(heap.stack[j].iter) :
              heap.stack[n].iter[l] # heap.stack[j].iter[p]
      BY ONLY <2>a DEF Below
    <3>4. \A l \in 1 .. Len(heap.stack[n].iter) :
            heap.state[heap.stack[n].iter[l]] = "clearing" /\ heap.stack[n].iter[l] \in Obj
      BY ONLY <2>1
    <3> QED
      BY ONLY <3>1, <3>2, <3>3, <3>4
  <2>2. \A x \in Obj : k.state[x] = "live" /\ k.rc[x] = 0 =>
          f.sv = x \/ \E j \in 1 .. n - 1 : Clears(heap, j, x)
    <3> SUFFICES ASSUME NEW x \in Obj, k.state[x] = "live", k.rc[x] = 0
                 PROVE  \E j \in 1 .. n - 1 : Clears(heap, j, x)
      OBVIOUS
    <3>1. heap.state[x] = "live" /\ heap.rc[x] = 0
      BY <1>9, <1>11
    <3> QED
      BY <1>2, <2>1, <3>1
  <2>3. \A j \in 1 .. n - 1 : \A l \in 1 .. Len(heap.stack[j].iter) :
          k.state[heap.stack[j].iter[l]] = "clearing"
    <3> SUFFICES ASSUME NEW j \in 1 .. n - 1, NEW l \in 1 .. Len(heap.stack[j].iter)
                 PROVE  k.state[heap.stack[j].iter[l]] = "clearing"
      OBVIOUS
    <3>1. heap.stack[j].iter[l] # o
      BY <1>2, <2>b
    <3>2. heap.state[heap.stack[j].iter[l]] = "clearing" /\ heap.stack[j].iter[l] \in Obj
      BY <1>2, <2>1
    <3> QED
      BY <1>11, <3>1, <3>2
  <2>4. ASSUME NEW l \in 1 .. Len(f.iter)
        PROVE  /\ k.state[f.iter[l]] = "clearing"
               /\ \A m \in 1 .. Len(f.iter) : f.iter[l] = f.iter[m] => l = m
               /\ \A j \in 1 .. n - 1 : \A m \in 1 .. Len(heap.stack[j].iter) :
                    f.iter[l] # heap.stack[j].iter[m]
    <3>1. \A m \in 1 .. Len(f.iter) : m \in 1 .. Len(it) /\ m # Len(it) /\ f.iter[m] = it[m]
      BY <1>3, <1>4
    <3>2. it[l] # o
      BY <1>2, <2>b, <3>1
    <3>3. k.state[it[l]] = "clearing"
      BY <1>11, <2>b, <3>1, <3>2
    <3> QED
      BY <2>b, <3>1, <3>3
  <2>5. ToldHasClass(k)
    BY <1>2, <1>9 DEF StackInv, ToldHasClass
  <2>6. \A x \in Obj : f.sv # x
    BY <1>4, RefsAssumption
  <2>7. \A j \in 1 .. n - 1, x \in Obj : Clears(heap, j, x) =>
          k.state[x] = "live" /\ k.told[x] = heap.told[x]
    BY <1>2, <1>9, <1>11, <2>1
  <2>8. \A x \in Obj :
          k.to[Itself(x)] = heap.to[Itself(x)] /\ k.weak[Itself(x)] = heap.weak[Itself(x)]
    BY <1>9
  <2>9. n = Len(heap.stack) /\ heap.stack[n].fn = "sv_clear"
    BY <1>2, <1>5
  <2>10. /\ k.stack = Append(Front(heap.stack), f) /\ f.fn = "sv_clear" /\ f.class = NONE
    BY <1>4, <1>9
  <2> QED
    BY ONLY <2>2, <2>3, <2>4, <2>5, <2>6, <2>7, <2>8, <2>9, <2>10 DEF Replaces
<1>13. StackInv(k)
  <2>1. StackInv(heap) /\ k \in Heaps /\ f \in SvFrames
    BY <1>2, <1>4, <1>8
  <2> QED
    BY ONLY <1>12, <2>1, ReplaceTop
<1> QED
  BY <1>1, <1>10, <1>13 DEF HeapInv

\* The last element that is left goes, and what it alone refers to is next.
LEMMA ElemGoes ==
  ASSUME HeapInv(heap), ClearElem, Left(heap, Last(SvTop.iter)) # {}
  PROVE  HeapInv(heap') /\ heap'.state = heap.state
<1> DEFINE n == Len(heap.stack)
           o == Last(SvTop.iter)
           i == CHOOSE j \in Left(heap, o) : \A l \in Left(heap, o) : l <= j
           r == <<o, i>>
           target == heap.to[r]
           weak == heap.weak[r]
           h == IF weak THEN Unset(DelBackref(heap, r), r)
                ELSE [Unset(heap, r) EXCEPT !.rc[target] = @ - 1]
           f == [SvTop EXCEPT !.sv = target]
<1>1. heap' = CASE Left(heap, o) = {} -> WithTop([heap EXCEPT !.state[o] = "free"],
                                                 [SvTop EXCEPT !.iter = Front(@)])
                [] Left(heap, o) # {} /\ ~weak /\ h.rc[target] = 0 -> WithTop(h, f)
                [] Left(heap, o) # {} /\ (weak \/ h.rc[target] > 0) -> h
  BY DEF ClearElem, Left
<1>2. /\ heap \in Heaps /\ DataInv(heap) /\ StackInv(heap) /\ heap.stack # <<>>
      /\ SvTop = heap.stack[n] /\ SvTop \in SvFrames
      /\ SvTop.fn = "sv_clear" /\ SvTop.sv = NONE /\ SvTop.class = NONE
      /\ o \in Obj
      /\ \A x \in Obj : ~Clears(heap, n, x)
      /\ \A j : j \in 1 .. n <=> j \in 1 .. n - 1 \/ j = n
  BY ElemCases
<1>3. i \in Left(heap, o)
  BY LastLeft
<1> HIDE DEF i
<1>4. r \in Ref /\ (\A x \in Obj : r # Itself(x)) /\ target # NONE
  <2>1. i \in 1 .. Slots /\ heap.to[<<o, i>>] # NONE
    BY <1>3 DEF Left
  <2>2. r \in Ref
    BY <1>2, <2>1, RefNotNone
  <2>3. i # 0
    BY <2>1, RefsAssumption
  <2> QED
    BY <2>1, <2>2, <2>3 DEF Itself
<1> HIDE DEF o, r
<1>5. target \in Obj /\ heap.state[target] = "live"
  BY <1>2, <1>4, RefTypes
<1>6. /\ heap.rc \in [Obj -> Nat] /\ heap.to \in [Ref -> Obj \cup {NONE}]
      /\ heap.weak \in [Ref -> BOOLEAN]
  BY <1>2 DEF Heaps
<1>7. /\ n = Len(heap.stack) /\ target = heap.to[r] /\ weak = heap.weak[r]
      /\ weak \in BOOLEAN /\ (weak <=> heap.weak[r])
  BY <1>4, <1>6
<1>8. CASE weak
  <2> DEFINE d == DelBackref(heap, r)
  <2>1. heap' = h /\ h = Unset(d, r)
    <3>1. h = Unset(d, r)
      BY <1>8
    <3>2. Left(heap, o) # {}
      BY DEF o
    <3> HIDE DEF h, weak
    <3> QED
      BY <1>1, <1>8, <3>1, <3>2
  <2>2. /\ d \in Heaps
        /\ d.backrefs = [heap.backrefs EXCEPT ![target] = heap.backrefs[target] \ {r}]
        /\ d.rc = heap.rc /\ d.state = heap.state /\ d.class = heap.class /\ d.told = heap.told
        /\ d.to = heap.to /\ d.weak = heap.weak /\ d.tmps = heap.tmps /\ d.stack = heap.stack
    <3>1. heap \in Heaps /\ r \in Ref /\ heap.to[r] # NONE
      BY <1>2, <1>4
    <3>2. /\ d \in Heaps
          /\ d.backrefs = [heap.backrefs EXCEPT ![heap.to[r]] = heap.backrefs[heap.to[r]] \ {r}]
          /\ d.rc = heap.rc /\ d.state = heap.state /\ d.class = heap.class
          /\ d.told = heap.told /\ d.to = heap.to /\ d.weak = heap.weak
          /\ d.tmps = heap.tmps /\ d.stack = heap.stack
      BY ONLY <3>1, DelBackrefFields
    <3> QED
      BY <3>2
  <2> HIDE DEF d, target, h
  <2>3. /\ h \in Heaps
        /\ h.to = [d.to EXCEPT ![r] = NONE] /\ h.weak = [d.weak EXCEPT ![r] = FALSE]
        /\ h.rc = d.rc /\ h.state = d.state /\ h.class = d.class /\ h.told = d.told
        /\ h.backrefs = d.backrefs /\ h.tmps = d.tmps /\ h.stack = d.stack
    BY <1>4, <2>1, <2>2, UnsetFields
  <2>4. /\ h.to = [heap.to EXCEPT ![r] = NONE] /\ h.weak = [heap.weak EXCEPT ![r] = FALSE]
        /\ h.backrefs = [heap.backrefs EXCEPT ![target] = heap.backrefs[target] \ {r}]
        /\ h.rc = heap.rc /\ h.state = heap.state /\ h.tmps = heap.tmps
    BY <2>2, <2>3
  <2>5. DataInv(h)
    <3>1. /\ DataInv(heap) /\ h \in Heaps /\ r \in Ref /\ target \in Obj
          /\ heap.to[r] = target /\ heap.weak[r]
      BY <1>2, <1>4, <1>5, <1>7, <1>8, <2>3
    <3> QED
      BY ONLY <2>4, <3>1, DropWeak
  <2>6. \A x \in Obj :
          h.to[Itself(x)] = heap.to[Itself(x)] /\ h.weak[Itself(x)] = heap.weak[Itself(x)]
    BY <1>4, <1>6, <2>4, RefNotNone
  <2>7. StackInv(h)
    <3>1. /\ StackInv(heap) /\ h \in Heaps /\ h.stack = heap.stack
          /\ h.state = heap.state /\ h.rc = heap.rc /\ h.told = heap.told /\ h.class = heap.class
      BY <1>2, <2>2, <2>3
    <3> QED
      BY ONLY <2>6, <3>1, SameStack
  <2> QED
    BY <2>1, <2>4, <2>5, <2>7 DEF HeapInv
<1>9. CASE ~weak
  <2> DEFINE u == Unset(heap, r)
  <2>1. /\ u \in Heaps
        /\ u.to = [heap.to EXCEPT ![r] = NONE] /\ u.weak = [heap.weak EXCEPT ![r] = FALSE]
        /\ u.rc = heap.rc /\ u.state = heap.state /\ u.class = heap.class /\ u.told = heap.told
        /\ u.backrefs = heap.backrefs /\ u.tmps = heap.tmps /\ u.stack = heap.stack
    BY <1>2, <1>4, UnsetFields
  <2>2. h = [u EXCEPT !.rc[target] = u.rc[target] - 1]
    BY <1>9
  <2>3. r \in StrongIn(heap, target) /\ ~heap.weak[r]
    BY <1>4, <1>7, <1>9 DEF StrongIn
  <2>4. heap.rc[target] > 0
    BY <1>2, <1>5, <2>3, CountFacts
  <2> HIDE DEF u, h, target
  <2>5. /\ h \in Heaps /\ h.rc = [u.rc EXCEPT ![target] = u.rc[target] - 1]
        /\ h.to = u.to /\ h.weak = u.weak /\ h.state = u.state /\ h.class = u.class
        /\ h.told = u.told /\ h.backrefs = u.backrefs /\ h.tmps = u.tmps /\ h.stack = u.stack
    <3>1. [u.rc EXCEPT ![target] = u.rc[target] - 1] \in [Obj -> Nat]
      BY <1>5, <1>6, <2>1, <2>4
    <3> QED
      BY <2>1, <2>2, <3>1 DEF Heaps
  <2>6. /\ h.to = [heap.to EXCEPT ![r] = NONE] /\ h.weak = [heap.weak EXCEPT ![r] = FALSE]
        /\ h.rc = [heap.rc EXCEPT ![target] = heap.rc[target] - 1]
        /\ h.state = heap.state /\ h.class = heap.class /\ h.told = heap.told
        /\ h.backrefs = heap.backrefs /\ h.tmps = heap.tmps /\ h.stack = heap.stack
    BY <2>1, <2>5
  <2>7. DataInv(h)
    <3>1. /\ DataInv(heap) /\ h \in Heaps /\ r \in Ref /\ target \in Obj
          /\ heap.to[r] = target /\ ~heap.weak[r]
      BY <1>2, <1>4, <1>5, <1>7, <2>3, <2>5
    <3> QED
      BY ONLY <2>6, <3>1, DropStrong
  <2>8. \A x \in Obj :
          h.to[Itself(x)] = heap.to[Itself(x)] /\ h.weak[Itself(x)] = heap.weak[Itself(x)]
    BY <1>4, <1>6, <2>6, RefNotNone
  <2>9. \A x \in Obj : h.rc[x] = IF x = target THEN heap.rc[x] - 1 ELSE heap.rc[x]
    BY <1>6, <2>6
  <2>10. CASE h.rc[target] # 0
    <3>1. h.rc[target] > 0 /\ ~(Left(heap, o) = {})
      <4>1. heap.rc[target] \in Nat /\ h.rc[target] = heap.rc[target] - 1
        BY <1>5, <1>6, <2>9
      <4> QED
        BY <2>4, <2>10, <4>1 DEF o
    <3>2. heap' = h
      BY <1>1, <1>9, <2>10, <3>1
    <3>3. \A x \in Obj : h.rc[x] = 0 => heap.rc[x] = 0
      BY <2>9, <2>10
    <3>4. /\ StackInv(heap) /\ h \in Heaps /\ h.stack = heap.stack
          /\ h.state = heap.state /\ h.told = heap.told /\ h.class = heap.class
      BY <1>2, <2>5, <2>6
    <3>5. StackInv(h)
      BY ONLY <2>8, <3>3, <3>4, SameStack
    <3> QED
      BY <2>6, <2>7, <3>2, <3>5 DEF HeapInv
  <2>11. CASE h.rc[target] = 0
    <3> DEFINE k == WithTop(h, f)
    <3>1. ~(Left(heap, o) = {}) /\ ~(h.rc[target] > 0)
      BY <2>11 DEF o
    <3>2. heap' = k
      BY <1>1, <1>9, <2>11, <3>1
    <3>3. /\ f \in SvFrames /\ f.fn = "sv_clear" /\ f.sv = target /\ f.class = NONE
          /\ f.iter = SvTop.iter
      BY <1>2, <1>5 DEF SvFrames
    <3> HIDE DEF f, n
    <3>4. /\ k \in Heaps /\ k.stack = Append(Front(h.stack), f)
          /\ k.rc = h.rc /\ k.state = h.state /\ k.class = h.class
          /\ k.told = h.told /\ k.to = h.to /\ k.weak = h.weak
          /\ k.backrefs = h.backrefs /\ k.tmps = h.tmps
      <4>1. h \in Heaps /\ h.stack # <<>> /\ f \in SvFrames
        BY <1>2, <2>5, <2>6, <3>3
      <4> QED
        BY ONLY <4>1, WithTopFields
    <3> HIDE DEF k
    <3>5. DataInv(k)
      BY ONLY <2>7, <3>4, DataSame
    <3>6. \A j \in 1 .. n - 1 : ~Clears(heap, j, target)
      <4>1. heap.rc[target] = 1
        <5>1. heap.rc[target] \in Nat /\ h.rc[target] = heap.rc[target] - 1
          BY <1>5, <1>6, <2>9
        <5> QED
          BY <2>11, <5>1
      <4>2. \E q \in Ref : q # Itself(target) /\ heap.to[q] = target /\ ~heap.weak[q]
        BY <1>4, <1>5, <1>7, <2>3
      <4>3. \A j \in 1 .. Len(heap.stack) - 1 : ~Clears(heap, j, target)
        BY ONLY HeapInv(heap), <1>5, <4>1, <4>2, LastIsNotCleared
      <4> QED
        BY <1>7, <4>3
    <3>7. Replaces(heap, k, f, n)
      <4>a. Below(heap, n)
        BY <1>2, <1>7, BelowFacts
      <4>1. /\ n \in 1 .. n
            /\ \A j \in 1 .. n : \A l \in 1 .. Len(heap.stack[j].iter) :
                 heap.state[heap.stack[j].iter[l]] = "clearing" /\ heap.stack[j].iter[l] \in Obj
            /\ \A j \in 1 .. n - 1, x \in Obj : Clears(heap, j, x) => heap.state[x] = "live"
            /\ \A x \in Obj : heap.state[x] = "live" /\ heap.rc[x] = 0 =>
                 \E j \in 1 .. n : Clears(heap, j, x)
        BY <4>a DEF Below
      <4>b. /\ \A l, p \in 1 .. Len(f.iter) : f.iter[l] = f.iter[p] => l = p
            /\ \A l \in 1 .. Len(f.iter), j \in 1 .. n - 1 :
                 \A p \in 1 .. Len(heap.stack[j].iter) : f.iter[l] # heap.stack[j].iter[p]
            /\ \A l \in 1 .. Len(f.iter) : heap.state[f.iter[l]] = "clearing"
        <5>1. f.iter = heap.stack[n].iter
          BY <1>2, <1>7, <3>3
        <5>2. \A l, p \in 1 .. Len(heap.stack[n].iter) :
                heap.stack[n].iter[l] = heap.stack[n].iter[p] => l = p
          BY ONLY <4>a DEF Below
        <5>3. \A l \in 1 .. Len(heap.stack[n].iter), j \in 1 .. n - 1 :
                \A p \in 1 .. Len(heap.stack[j].iter) :
                  heap.stack[n].iter[l] # heap.stack[j].iter[p]
          BY ONLY <4>a DEF Below
        <5>4. \A l \in 1 .. Len(heap.stack[n].iter) : heap.state[heap.stack[n].iter[l]] = "clearing"
          BY ONLY <4>1
        <5> QED
          BY ONLY <5>1, <5>2, <5>3, <5>4
      <4>2. \A x \in Obj : k.state[x] = "live" /\ k.rc[x] = 0 =>
              f.sv = x \/ \E j \in 1 .. n - 1 : Clears(heap, j, x)
        <5> SUFFICES ASSUME NEW x \in Obj, k.state[x] = "live", k.rc[x] = 0, x # target
                     PROVE  \E j \in 1 .. n - 1 : Clears(heap, j, x)
          BY <3>3
        <5>1. heap.state[x] = "live" /\ heap.rc[x] = 0
          BY <2>6, <2>9, <3>4
        <5> QED
          BY <1>2, <1>7, <4>1, <5>1
      <4>3. \A j \in 1 .. n - 1 : \A l \in 1 .. Len(heap.stack[j].iter) :
              k.state[heap.stack[j].iter[l]] = "clearing"
        <5>1. \A j \in 1 .. n - 1 : j \in 1 .. n
          BY <1>2, <1>7
        <5>2. k.state = heap.state
          BY <2>6, <3>4
        <5> QED
          BY ONLY <4>1, <5>1, <5>2
      <4>4. \A l \in 1 .. Len(f.iter) :
              /\ k.state[f.iter[l]] = "clearing"
              /\ \A m \in 1 .. Len(f.iter) : f.iter[l] = f.iter[m] => l = m
              /\ \A j \in 1 .. n - 1 : \A m \in 1 .. Len(heap.stack[j].iter) :
                   f.iter[l] # heap.stack[j].iter[m]
        <5>1. k.state = heap.state
          BY <2>6, <3>4
        <5> QED
          BY ONLY <4>b, <5>1
      <4>5. ToldHasClass(k)
        <5>1. k.told = heap.told /\ k.class = heap.class
          BY <2>6, <3>4
        <5> QED
          BY <1>2, <5>1 DEF StackInv, ToldHasClass
      <4>6. \A x \in Obj : f.sv = x =>
              k.state[x] = "live" /\ \A j \in 1 .. n - 1 : ~Clears(heap, j, x)
        BY <1>5, <2>6, <3>3, <3>4, <3>6
      <4>7. \A j \in 1 .. n - 1, x \in Obj : Clears(heap, j, x) =>
              k.state[x] = "live" /\ k.told[x] = heap.told[x]
        BY <2>6, <3>4, <4>1
      <4>8. \A x \in Obj :
              k.to[Itself(x)] = heap.to[Itself(x)] /\ k.weak[Itself(x)] = heap.weak[Itself(x)]
        BY <2>8, <3>4
      <4>9. n = Len(heap.stack) /\ heap.stack[n].fn = "sv_clear"
        BY <1>2, <1>7
      <4>10. k.stack = Append(Front(heap.stack), f) /\ f.fn = "sv_clear" /\ f.class = NONE
        BY <2>6, <3>3, <3>4
      <4> QED
        BY ONLY <4>2, <4>3, <4>4, <4>5, <4>6, <4>7, <4>8, <4>9, <4>10 DEF Replaces
    <3>8. StackInv(k)
      <4>1. StackInv(heap) /\ k \in Heaps /\ f \in SvFrames
        BY <1>2, <3>3, <3>4
      <4> QED
        BY ONLY <3>7, <4>1, ReplaceTop
    <3> QED
      BY <2>6, <3>2, <3>4, <3>5, <3>8 DEF HeapInv
  <2> QED
    BY <2>10, <2>11
<1> QED
  BY <1>7, <1>8, <1>9

-----------------------------------------------------------------------------
(* The invariant, and what follows from it.                                *)

LEMMA InitHeap == SvInit => HeapInv(heap)
<1> SUFFICES ASSUME SvInit PROVE HeapInv(heap)
  OBVIOUS
<1> DEFINE f == SvFrame("perl", NONE, 0)
<1>1. f \in SvFrames /\ f.fn = "perl" /\ f.sv = NONE /\ f.class = NONE /\ f.iter = <<>>
  BY FrameType
<1> HIDE DEF f
<1>2. /\ heap.rc = [o \in Obj |-> 0] /\ heap.state = [o \in Obj |-> "free"]
      /\ heap.class = [o \in Obj |-> NONE] /\ heap.told = [o \in Obj |-> NONE]
      /\ heap.to = [r \in Ref |-> NONE] /\ heap.weak = [r \in Ref |-> FALSE]
      /\ heap.backrefs = [o \in Obj |-> {}] /\ heap.tmps = <<>> /\ heap.stack = <<f>>
  BY DEF SvInit, f
<1>3. heap \in Heaps
  <2>1. <<f>> \in Seq(SvFrames)
    BY <1>1
  <2>2. heap = [rc |-> [o \in Obj |-> 0], state |-> [o \in Obj |-> "free"],
                class |-> [o \in Obj |-> NONE], told |-> [o \in Obj |-> NONE],
                to |-> [r \in Ref |-> NONE], weak |-> [r \in Ref |-> FALSE],
                backrefs |-> [o \in Obj |-> {}], tmps |-> <<>>, stack |-> <<f>>]
    BY DEF SvInit, f
  <2> QED
    BY <2>1, <2>2 DEF Heaps
<1>4. Exact(heap)
  <2> SUFFICES ASSUME NEW o \in Obj
               PROVE  /\ IsFiniteSet(StrongIn(heap, o))
                      /\ heap.rc[o] = Cardinality(StrongIn(heap, o)) + Cardinality(TmpsIn(heap, o))
    BY DEF Exact
  <2>1. StrongIn(heap, o) = {} /\ TmpsIn(heap, o) = {} /\ heap.rc[o] = 0
    BY <1>2, RefsAssumption DEF StrongIn, TmpsIn
  <2> QED
    BY <2>1, FS_EmptySet
<1>5. ToLive(heap) /\ Backed(heap) /\ NoneIsStrong(heap)
  BY <1>2 DEF ToLive, Backed, NoneIsStrong
<1>6. Len(heap.stack) = 1 /\ heap.stack[1] = f
  BY <1>2
<1>7. \A i \in 1 .. Len(heap.stack), o \in Obj : ~Clears(heap, i, o) /\ ~Destroys(heap, i, o)
  BY <1>1, <1>6, RefsAssumption DEF Clears, Destroys
<1>8. Bottom(heap)
  BY <1>1, <1>6 DEF Bottom
<1>9. /\ OverItsClear(heap) /\ UnderItsDestructor(heap) /\ OneClear(heap) /\ ClearsLive(heap)
  <2>1. \A i \in 1 .. Len(heap.stack) - 1 : FALSE
    BY <1>6
  <2> QED
    BY <1>7, <2>1 DEF OverItsClear, UnderItsDestructor, OneClear, ClearsLive
<1>10. Own(heap)
  BY <1>2, <1>7, RefNotNone DEF Own
<1>11. ItersClear(heap) /\ ItersOnce(heap)
  <2>1. \A i \in 1 .. Len(heap.stack) : heap.stack[i].iter = <<>>
    BY <1>1, <1>6
  <2>2. \A i \in 1 .. Len(heap.stack) : \A l \in 1 .. Len(heap.stack[i].iter) : FALSE
    BY <2>1
  <2> QED
    BY <2>2 DEF ItersClear, ItersOnce
<1>12. ToldHasClass(heap) /\ ClassWasTold(heap) /\ ZeroIsCleared(heap)
  <2>1. \A i \in 1 .. Len(heap.stack) : heap.stack[i].class = NONE
    BY <1>1, <1>6
  <2> QED
    BY <1>2, <2>1 DEF ToldHasClass, ClassWasTold, ZeroIsCleared
<1> QED
  BY <1>3, <1>4, <1>5, <1>8, <1>9, <1>10, <1>11, <1>12 DEF HeapInv, DataInv, StackInv

LEMMA NextHeap == HeapInv(heap) /\ [SvNext]_heap => HeapInv(heap')
<1> SUFFICES ASSUME HeapInv(heap), [SvNext]_heap PROVE HeapInv(heap')
  OBVIOUS
<1>1. CASE Code
  BY <1>1, CodeKeeps
<1>2. CASE FreeTmp
  BY <1>2, FreeTmpKeeps
<1>3. CASE CallDestroy
  BY <1>3, CallDestroyKeeps
<1>4. CASE DestroyReturn
  BY <1>4, DestroyReturnKeeps
<1>5. CASE Cursed
  BY <1>5, RevivedKeeps, DoneKeeps
<1>6. CASE ClearElem
  BY <1>6, FreedKeeps, ElemGoes
<1>7. CASE ClearReturn
  BY <1>7, ClearReturnKeeps
<1>8. CASE heap' = heap
  BY <1>8
<1> QED
  BY <1>1, <1>2, <1>3, <1>4, <1>5, <1>6, <1>7, <1>8 DEF SvNext

LEMMA HeapIsSound == SvSpec => []HeapInv(heap)
<1>1. HeapInv(heap) /\ [SvNext]_heap => HeapInv(heap)'
  BY NextHeap
<1> QED
  BY <1>1, InitHeap, PTL DEF SvSpec

LEMMA HeapMeaning == HeapInv(heap) => SvTypeOK
<1> SUFFICES ASSUME HeapInv(heap) PROVE SvTypeOK
  OBVIOUS
<1>1. heap \in Heaps /\ heap.stack # <<>> /\ Bottom(heap) /\ heap.stack \in Seq(SvFrames)
  BY TopFacts DEF HeapInv, StackInv, Heaps
<1>2. Head(heap.stack).fn = "perl"
  BY <1>1 DEF Bottom
<1>3. \A i \in DOMAIN heap.stack : heap.stack[i] \in SvFrames
  BY <1>1
<1> QED
  BY <1>1, <1>2, <1>3 DEF SvTypeOK, Heaps, SvFrames

\* The heap keeps its shape, and Perl code is at the bottom of its stack.
THEOREM SvTypes == SvSpec => []SvTypeOK
<1> QED
  BY HeapMeaning, HeapIsSound, PTL

\* Counts, references and back-references agree after every step of sv.c, also
\* in the middle of a destructor, however many values and references there are.
THEOREM CountsAreRight == SvSpec => []ReferencesAreCounted
<1>1. HeapInv(heap) => ReferencesAreCounted
  BY DEF HeapInv, DataInv, Exact, ToLive, Backed, StrongIn, TmpsIn, Strong,
         ReferencesAreCounted, RefcountIsExact, NoRefToFreed
<1> QED
  BY <1>1, HeapIsSound, PTL

\* A value whose count has reached zero is at a sv_clear(): none is forgotten.
THEOREM NoneIsForgotten == SvSpec => []NothingLeaks
<1>1. HeapInv(heap) => NothingLeaks
  <2> SUFFICES ASSUME HeapInv(heap) PROVE NothingLeaks
    OBVIOUS
  <2>1. heap.stack \in Seq(SvFrames)
    BY DEF HeapInv, DataInv, Heaps
  <2>2. DOMAIN heap.stack = 1 .. Len(heap.stack)
    BY <2>1, LenProperties
  <2> QED
    BY <2>2 DEF HeapInv, StackInv, ZeroIsCleared, Clears, NothingLeaks
<1> QED
  BY <1>1, HeapIsSound, PTL

\* What a step of Perl code makes of the states of values.
LEMMA CodeClearsNone ==
  ASSUME HeapInv(heap), Code, NEW o \in Obj, heap.state[o] = "live"
  PROVE  heap'.state[o] = "live"
<1>1. /\ heap \in Heaps /\ heap.state \in [Obj -> {"free", "live", "clearing"}]
      /\ Last(heap.stack).fn = "perl" /\ SvTop \in SvFrames
  <2>1. Running
    BY DEF Code
  <2> QED
    BY <2>1, CodeTop DEF Heaps
<1>2. \A r \in Writable : r \in Ref /\ \A x \in Obj : r # Itself(x)
  BY WritableFacts
<1>3. \A r \in Writable, now \in BOOLEAN :
        LET k == SvUnref(heap, r, now) IN k \in Heaps /\ k.state = heap.state /\ HeapInv(k)
  <2> SUFFICES ASSUME NEW r \in Writable, NEW now \in BOOLEAN
               PROVE  LET k == SvUnref(heap, r, now) IN HeapInv(k) /\ k.state = heap.state
    BY DEF HeapInv, DataInv
  <2> QED
    BY <1>1, <1>2, UnrefKeeps
<1>4. CASE \E r \in Writable, x \in Obj : New(r, x)
  <2>1. PICK r \in Writable, x \in Obj : New(r, x)
    BY <1>4
  <2> DEFINE h == SvUnref(heap, r, FALSE)
  <2>2. h \in Heaps /\ h.state = heap.state
    BY <1>3
  <2>3. heap' = [h EXCEPT !.state[x] = "live", !.rc[x] = 1, !.to[r] = x]
    BY <2>1 DEF New
  <2> HIDE DEF h
  <2>4. heap'.state = [h.state EXCEPT ![x] = "live"]
    BY <2>2, <2>3 DEF Heaps
  <2> QED
    BY <1>1, <2>2, <2>4
<1>5. CASE \E r \in Writable, s \in Named : Assign(r, s)
  <2>1. PICK r \in Writable, s \in Named : Assign(r, s)
    BY <1>5
  <2> DEFINE h == SvUnref(heap, r, FALSE)
  <2>2. h \in Heaps /\ h.state = heap.state
    BY <1>3
  <2>3. heap' = Copied(h, r, h.to[s])
    BY <2>1 DEF Assign
  <2> HIDE DEF h
  <2>4. heap'.state = h.state
    BY <2>2, <2>3 DEF Copied, Inc, Heaps
  <2> QED
    BY <2>2, <2>4
<1>6. CASE \E r \in Writable : Undef(r)
  BY <1>3, <1>6 DEF Undef
<1>7. CASE \E r \in Writable : Weaken(r)
  BY <1>1, <1>7 DEF Weaken, Weakened, Dec, Push, Heaps
<1>8. CASE \E r \in Writable : Unweaken(r)
  BY <1>1, <1>8 DEF Unweaken, Inc, DelBackref, Heaps
<1>9. CASE \E r \in Named, class \in Class : Bless(r, class)
  BY <1>1, <1>9 DEF Bless, Heaps
<1>10. CASE FreeTmps
  BY <1>1, <1>10 DEF FreeTmps, Push, Heaps
<1> QED
  BY <1>4, <1>5, <1>6, <1>7, <1>8, <1>9, <1>10 DEF Code

\* Only S_curse() takes an object, and the class it is in has been told.
LEMMA ClearsTold ==
  ASSUME HeapInv(heap), [SvNext]_heap, NEW o \in Obj, heap.state[o] = "live",
         heap'.state[o] = "clearing"
  PROVE  heap.class[o] = heap.told[o]
<1>1. heap \in Heaps /\ heap.state \in [Obj -> {"free", "live", "clearing"}]
  BY DEF HeapInv, DataInv, Heaps
<1>2. CASE Code
  BY <1>2, CodeClearsNone
<1>3. CASE FreeTmp
  BY <1>1, <1>3 DEF FreeTmp, Pop, Dec, Push, Heaps
<1>4. CASE CallDestroy
  BY <1>1, <1>4 DEF CallDestroy, WithTop, Pop, Push, Inc, Heaps
<1>5. CASE DestroyReturn
  BY <1>1, <1>5 DEF DestroyReturn, Unset, Pop, Heaps
<1>6. CASE ClearElem
  <2>1. CASE Left(heap, Last(SvTop.iter)) = {}
    BY <1>1, <1>6, <2>1 DEF ClearElem, Left, WithTop, Pop, Push, Heaps
  <2>2. CASE Left(heap, Last(SvTop.iter)) # {}
    BY <1>6, <2>2, ElemGoes
  <2> QED
    BY <2>1, <2>2
<1>7. CASE ClearReturn
  BY <1>1, <1>7 DEF ClearReturn, Pop, Heaps
<1>8. CASE heap' = heap
  BY <1>8
<1>9. CASE Cursed
  <2>1. SvTop.fn = "sv_clear" /\ SvTop.sv # NONE /\ ~Reblessed(heap, SvTop)
    BY <1>9 DEF Cursed
  <2>2. SvTop.sv = o
    BY <1>1, <1>9 DEF Cursed, WithTop, Pop, Push, KillBackrefs, Heaps
  <2>3. heap.class[o] = NONE \/ heap.class[o] = SvTop.class
    BY <2>1, <2>2 DEF Reblessed
  <2>4. CASE heap.class[o] = NONE
    BY <2>4 DEF HeapInv, StackInv, ToldHasClass
  <2>5. CASE heap.class[o] # NONE
    <3>1. SvTop = heap.stack[Len(heap.stack)] /\ Len(heap.stack) \in 1 .. Len(heap.stack)
      BY <2>1, ClearTop
    <3>2. PICK x \in Obj : Clears(heap, Len(heap.stack), x) /\ SvTop.class = heap.told[x]
      BY <2>3, <2>5, <3>1 DEF HeapInv, StackInv, ClassWasTold
    <3> QED
      BY <2>2, <2>3, <2>5, <3>1, <3>2 DEF Clears
  <2> QED
    BY <2>4, <2>5
<1> QED
  BY <1>2, <1>3, <1>4, <1>5, <1>6, <1>7, <1>8, <1>9 DEF SvNext

\* No object is taken apart before the destructor of the class that it is in
\* has been called for it.
THEOREM ClassIsTold == SvSpec => LastClassDestroys
<1> DEFINE Fit == \A o \in Obj : heap.state[o] = "live" /\ heap'.state[o] = "clearing" =>
                  heap.class[o] = heap.told[o]
<1>1. HeapInv(heap) /\ [SvNext]_heap => [Fit]_heap
  BY ClearsTold
<1>2. LastClassDestroys <=> [][Fit]_heap
  BY DEF LastClassDestroys
<1> HIDE DEF Fit
<1> QED
  BY <1>1, <1>2, HeapIsSound, PTL DEF SvSpec

LEMMA LeastOf ==
  ASSUME NEW T, T # {}, T \subseteq Nat
  PROVE  \E n \in T : \A m \in T : ~(m < n)
<1>1. PICK n \in T : \A m \in T : ~(<<m, n>> \in OpToRel(<, Nat))
  BY NatLessThanWellFounded, WFMin
<1>2. \A m \in T : ~(m < n)
  BY <1>1 DEF OpToRel
<1> QED BY <1>2

\* Induction on the natural numbers, for a set.
LEMMA ByInduction ==
  ASSUME NEW S, 0 \in S, \A n \in Nat : n \in S => n + 1 \in S
  PROVE  Nat \subseteq S
<1> SUFFICES ASSUME NEW x \in Nat, x \notin S
             PROVE  FALSE
  OBVIOUS
<1> DEFINE T == {n \in Nat : n \notin S}
<1>1. PICK n \in T : \A m \in T : ~(m < n)
  <2>1. T # {} /\ T \subseteq Nat
    OBVIOUS
  <2> HIDE DEF T
  <2> QED BY <2>1, LeastOf
<1>2. n \in Nat /\ n \notin S
  BY <1>1
<1>3. n # 0
  BY <1>2
<1>4. n - 1 \in Nat /\ n - 1 < n /\ n - 1 + 1 = n
  BY <1>2, <1>3
<1>5. n - 1 \in S
  BY <1>1, <1>4
<1> QED BY <1>2, <1>4, <1>5

\* A function on 0 .. n that is defined by what it is at 0 and by a step.
Stepwise(p, n, c, g) == DOMAIN p = 0 .. n /\ p[0] = c /\ \A i \in 1 .. n : p[i] = g[<<p[i - 1], i>>]

LEMMA StepwiseExists ==
  ASSUME NEW T, NEW c \in T, NEW n \in Nat, NEW g \in [T \X (1 .. n) -> T]
  PROVE  \E p \in [0 .. n -> T] : Stepwise(p, n, c, g)
<1> DEFINE Part(k, p) == /\ p \in [0 .. k -> T] /\ p[0] = c
                         /\ \A i \in 1 .. k : p[i] = g[<<p[i - 1], i>>]
           Q == {k \in Nat : k <= n => \E p : Part(k, p)}
<1>1. 0 \in Q
  <2>1. Part(0, [k \in 0 .. 0 |-> c])
    OBVIOUS
  <2> QED BY <2>1
<1>2. ASSUME NEW k \in Nat, k \in Q
      PROVE  k + 1 \in Q
  <2> SUFFICES ASSUME k + 1 <= n PROVE \E p : Part(k + 1, p)
    OBVIOUS
  <2>1. PICK p : Part(k, p)
    BY <1>2
  <2>2. PICK e : e = [i \in 0 .. k + 1 |-> IF i = k + 1 THEN g[<<p[k], k + 1>>] ELSE p[i]]
    OBVIOUS
  <2>3. p[k] \in T /\ k + 1 \in 1 .. n
    BY <2>1
  <2>4. g[<<p[k], k + 1>>] \in T
    BY <2>3
  <2>5. \A i \in 0 .. k + 1 : i = k + 1 \/ (i \in 0 .. k /\ i # k + 1)
    OBVIOUS
  <2>6. e \in [0 .. k + 1 -> T]
    BY <2>1, <2>2, <2>4, <2>5
  <2>7. e[0] = c /\ e[k] = p[k] /\ e[k + 1] = g[<<p[k], k + 1>>]
    BY <2>1, <2>2
  <2>8. ASSUME NEW i \in 1 .. k + 1
        PROVE  e[i] = g[<<e[i - 1], i>>]
    <3>1. CASE i = k + 1
      BY <2>7, <3>1
    <3>2. CASE i # k + 1
      <4>1. i \in 1 .. k /\ i - 1 \in 0 .. k /\ i \in 0 .. k + 1 /\ i - 1 \in 0 .. k + 1
            /\ i - 1 # k + 1
        BY <3>2
      <4>2. e[i] = p[i] /\ e[i - 1] = p[i - 1]
        BY <2>2, <3>2, <4>1
      <4> QED BY <2>1, <4>1, <4>2
    <3> QED BY <3>1, <3>2
  <2>9. Part(k + 1, e)
    BY <2>6, <2>7, <2>8
  <2> QED BY <2>9
<1>3. n \in Q
  <2> HIDE DEF Q
  <2> QED BY <1>1, <1>2, ByInduction
<1>4. PICK p : Part(n, p)
  BY <1>3
<1> QED BY <1>4 DEF Stepwise

\* A linearization of p.
Good(p, l) == l \in Seq(Package) /\ Len(l) > 0 /\ l[1] = p /\ IsInjective(l)

LEMMA ToSetIs ==
  ASSUME NEW S, NEW s \in Seq(S)
  PROVE  ToSet(s) = {s[i] : i \in 1 .. Len(s)} /\ ToSet(s) \subseteq S
BY DEF ToSet

LEMMA AncestorsIs ==
  ASSUME NEW p \in Package, NEW l, Good(p, l)
  PROVE  /\ Head(l) = p /\ Ancestors(l) = ToSet(l) \ {p} /\ p \in ToSet(l)
         /\ Ancestors(l) \subseteq Package
<1>1. l \in Seq(Package) /\ l # << >> /\ Len(l) \in Nat /\ Len(l) > 0 /\ l[1] = p
  BY EmptySeq DEF Good
<1>2. PICK t : t = Tail(l)
  OBVIOUS
<1>3. /\ t \in Seq(Package) /\ Len(t) = Len(l) - 1 /\ Head(l) = p
      /\ \A i \in 1 .. Len(t) : t[i] = l[i + 1]
  BY <1>1, <1>2, HeadTailProperties
<1>4. \A i, j \in 1 .. Len(l) : l[i] = l[j] => i = j
  BY <1>1 DEF Good, IsInjective
<1>5. ToSet(t) = {t[i] : i \in 1 .. Len(t)} /\ ToSet(t) \subseteq Package
  BY <1>3, ToSetIs
<1>6. ToSet(l) = {l[i] : i \in 1 .. Len(l)}
  BY <1>1, ToSetIs
<1>7. ASSUME NEW x \in ToSet(t)
      PROVE  x \in ToSet(l) /\ x # p
  <2>1. PICK i \in 1 .. Len(t) : x = t[i]
    BY <1>5
  <2>2. i + 1 \in 1 .. Len(l) /\ x = l[i + 1] /\ i + 1 # 1 /\ 1 \in 1 .. Len(l)
    BY <1>1, <1>3, <2>1
  <2> QED BY <1>1, <1>4, <1>6, <2>2
<1>8. ASSUME NEW x \in ToSet(l), x # p
      PROVE  x \in ToSet(t)
  <2>1. PICK i \in 1 .. Len(l) : x = l[i]
    BY <1>6
  <2>2. i # 1
    BY <1>1, <1>8, <2>1
  <2>3. i - 1 \in 1 .. Len(t) /\ i - 1 + 1 = i
    BY <1>1, <1>3, <2>2
  <2>4. t[i - 1] = l[i]
    BY <1>3, <2>3
  <2> QED BY <1>5, <2>1, <2>3, <2>4
<1>9. p \in ToSet(l)
  BY <1>1, <1>6
<1>10. Ancestors(l) = ToSet(t)
  BY <1>2 DEF Ancestors
<1> QED BY <1>3, <1>5, <1>7, <1>8, <1>9, <1>10

\* What one more parent makes of the linearization s.
Joins(s, t, r) ==
  /\ r \in Seq(Package) /\ Len(r) >= Len(s) /\ r[1] = s[1]
  /\ ToSet(s) \subseteq ToSet(r)
  /\ \A x \in ToSet(t) : x = UNIVERSAL \/ x \in ToSet(r)
  /\ \A x \in ToSet(r) : x \in ToSet(s) \/ x \in ToSet(t)
  /\ IsInjective(s) /\ s[1] \notin ToSet(t) => IsInjective(r)

LEMMA AppendJoins ==
  ASSUME NEW r \in Seq(Package), Len(r) > 0, NEW x \in Package
  PROVE  /\ Append(r, x) \in Seq(Package) /\ Len(Append(r, x)) = Len(r) + 1
         /\ Append(r, x)[1] = r[1]
         /\ ToSet(Append(r, x)) = ToSet(r) \cup {x}
         /\ IsInjective(r) /\ x \notin ToSet(r) => IsInjective(Append(r, x))
<1>1. PICK a : a = Append(r, x)
  OBVIOUS
<1>2. PICK n \in Nat : n = Len(r) /\ n > 0
  OBVIOUS
<1>3. /\ a \in Seq(Package) /\ Len(a) = n + 1 /\ a[n + 1] = x
      /\ \A i \in 1 .. n : a[i] = r[i]
  BY <1>1, <1>2, AppendProperties
<1>4. ToSet(a) = {a[i] : i \in 1 .. n + 1} /\ ToSet(r) = {r[i] : i \in 1 .. n}
  BY <1>2, <1>3, ToSetIs
<1>5. ToSet(a) = ToSet(r) \cup {x}
  <2>1. \A i \in 1 .. n + 1 : i \in 1 .. n \/ i = n + 1
    OBVIOUS
  <2>2. \A i \in 1 .. n : i \in 1 .. n + 1
    OBVIOUS
  <2>3. n + 1 \in 1 .. n + 1
    OBVIOUS
  <2>4. \A y \in ToSet(a) : y \in ToSet(r) \cup {x}
    BY <1>3, <1>4, <2>1
  <2>5. \A y \in ToSet(r) : y \in ToSet(a)
    BY <1>3, <1>4, <2>2
  <2>6. x \in ToSet(a)
    BY <1>3, <1>4, <2>3
  <2> QED BY <2>4, <2>5, <2>6
<1>6. ASSUME IsInjective(r), x \notin ToSet(r)
      PROVE  IsInjective(a)
  <2>1. DOMAIN r = 1 .. n /\ DOMAIN a = 1 .. n + 1
    BY <1>2, <1>3
  <2>2. \A i, j \in 1 .. n : r[i] = r[j] => i = j
    BY <1>6, <2>1 DEF IsInjective
  <2>3. \A i \in 1 .. n : r[i] # x
    BY <1>4, <1>6
  <2>4. ASSUME NEW i \in 1 .. n + 1, NEW j \in 1 .. n + 1, a[i] = a[j]
        PROVE  i = j
    <3>1. CASE i \in 1 .. n /\ j \in 1 .. n
      BY <1>3, <2>2, <2>4, <3>1
    <3>2. CASE i = n + 1 \/ j = n + 1
      <4>1. (i \in 1 .. n \/ i = n + 1) /\ (j \in 1 .. n \/ j = n + 1)
        OBVIOUS
      <4> QED BY <1>3, <2>3, <2>4, <3>2, <4>1
    <3> QED BY <3>1, <3>2
  <2> QED BY <2>1, <2>4 DEF IsInjective
<1>7. a[1] = r[1]
  BY <1>2, <1>3
<1> QED BY <1>1, <1>2, <1>3, <1>5, <1>6, <1>7

LEMMA TailHas ==
  ASSUME NEW r \in Seq(Package), Len(r) > 0
  PROVE  /\ ToSet(r) = ToSet(Tail(r)) \cup {r[1]}
         /\ ToSet(Tail(r)) \subseteq Package
<1>1. r # << >> /\ Len(r) \in Nat /\ Len(r) > 0
  BY EmptySeq
<1>2. PICK t : t = Tail(r)
  OBVIOUS
<1>3. /\ t \in Seq(Package) /\ Len(t) = Len(r) - 1
      /\ \A i \in 1 .. Len(t) : t[i] = r[i + 1]
  BY <1>1, <1>2, HeadTailProperties
<1>4. ToSet(t) = {t[i] : i \in 1 .. Len(t)} /\ ToSet(t) \subseteq Package
  BY <1>3, ToSetIs
<1>5. ToSet(r) = {r[i] : i \in 1 .. Len(r)}
  BY ToSetIs
<1>6. ASSUME NEW x \in ToSet(t)
      PROVE  x \in ToSet(r)
  <2>1. PICK i \in 1 .. Len(t) : x = t[i]
    BY <1>4
  <2>2. i + 1 \in 1 .. Len(r) /\ x = r[i + 1]
    BY <1>1, <1>3, <2>1
  <2> QED BY <1>5, <2>2
<1>7. ASSUME NEW x \in ToSet(r), x # r[1]
      PROVE  x \in ToSet(t)
  <2>1. PICK i \in 1 .. Len(r) : x = r[i]
    BY <1>5
  <2>2. i - 1 \in 1 .. Len(t) /\ i - 1 + 1 = i
    BY <1>1, <1>3, <1>7, <2>1
  <2>3. t[i - 1] = r[i]
    BY <1>3, <2>2
  <2> QED BY <1>4, <2>1, <2>2, <2>3
<1>8. r[1] \in ToSet(r)
  BY <1>1, <1>5
<1> QED BY <1>2, <1>4, <1>6, <1>7, <1>8

LEMMA LinesJoinedIs ==
  ASSUME NEW s \in Seq(Package), Len(s) > 0, NEW t \in Seq(Package)
  PROVE  Joins(s, t, LinesJoined(s, t))
<1>1. PICK n \in Nat : n = Len(t)
  OBVIOUS
<1> DEFINE Seen(r) == ToSet(Tail(r)) \cup {UNIVERSAL}
           Step(f) ==
             [i \in 0 .. Len(t) |->
               IF i = 0 THEN s
               ELSE IF t[i] \in ToSet(Tail(f[i - 1])) \cup {UNIVERSAL} THEN f[i - 1]
                    ELSE Append(f[i - 1], t[i])]
           F == CHOOSE f : f = Step(f)
           T == Seq(Package)
<1>2. PICK g : g = [q \in T \X (1 .. n) |->
                     IF t[q[2]] \in Seen(q[1]) THEN q[1] ELSE Append(q[1], t[q[2]])]
  OBVIOUS
<1>3. g \in [T \X (1 .. n) -> T]
  <2>1. ASSUME NEW q \in T \X (1 .. n)
        PROVE  (IF t[q[2]] \in Seen(q[1]) THEN q[1] ELSE Append(q[1], t[q[2]])) \in T
    <3>1. q[1] \in Seq(Package) /\ q[2] \in 1 .. n
      BY <2>1
    <3>2. t[q[2]] \in Package
      BY <1>1, <3>1
    <3> HIDE DEF Seen
    <3> QED BY <3>1, <3>2
  <2> HIDE DEF Seen
  <2> QED BY <1>2, <2>1
<1>4. PICK f1 \in [0 .. n -> T] : Stepwise(f1, n, s, g)
  <2>1. s \in T
    OBVIOUS
  <2> HIDE DEF T
  <2> QED BY <1>3, <2>1, StepwiseExists
<1>5. f1 = Step(f1)
  <2>1. f1[0] = s /\ \A i \in 1 .. n : f1[i] = g[<<f1[i - 1], i>>]
    BY <1>4 DEF Stepwise
  <2>2. ASSUME NEW i \in 1 .. n
        PROVE  f1[i] = IF t[i] \in Seen(f1[i - 1]) THEN f1[i - 1] ELSE Append(f1[i - 1], t[i])
    <3>1. f1[i - 1] \in T
      BY <1>4
    <3>2. <<f1[i - 1], i>> \in T \X (1 .. n)
      BY <3>1
    <3> HIDE DEF Seen
    <3>3. g[<<f1[i - 1], i>>]
            = IF t[i] \in Seen(f1[i - 1]) THEN f1[i - 1] ELSE Append(f1[i - 1], t[i])
      BY <1>2, <3>2
    <3> QED BY <2>1, <3>3
  <2>3. ASSUME NEW i \in 0 .. n
        PROVE  f1[i] = IF i = 0 THEN s
                       ELSE IF t[i] \in Seen(f1[i - 1]) THEN f1[i - 1]
                            ELSE Append(f1[i - 1], t[i])
    <3> HIDE DEF Seen
    <3>1. CASE i = 0
      BY <2>1, <3>1
    <3>2. CASE i # 0
      <4>1. i \in 1 .. n
        BY <3>2
      <4> QED BY <2>2, <3>2, <4>1
    <3> QED BY <3>1, <3>2
  <2>4. f1 = [i \in 0 .. n |-> f1[i]]
    BY <1>4
  <2> QED BY <1>1, <2>3, <2>4
<1>6. F = Step(F)
  <2> HIDE DEF Step
  <2> QED BY <1>5
<1>7. F[0] = s
  <2> HIDE DEF F
  <2>1. 0 \in 0 .. Len(t)
    BY <1>1
  <2> QED BY <1>6, <2>1
<1>8. ASSUME NEW i \in 1 .. n
      PROVE  F[i] = IF t[i] \in Seen(F[i - 1]) THEN F[i - 1] ELSE Append(F[i - 1], t[i])
  <2> HIDE DEF F
  <2>1. i \in 0 .. Len(t) /\ i # 0
    BY <1>1
  <2> QED BY <1>6, <2>1
<1>9. LinesJoined(s, t) = F[n]
  BY <1>1 DEF LinesJoined
<1> HIDE DEF F, Step, T
<1> DEFINE Upto(i) == {t[j] : j \in 1 .. i}
           P(i, r) ==
             /\ r \in Seq(Package) /\ Len(r) >= Len(s) /\ r[1] = s[1]
             /\ ToSet(s) \subseteq ToSet(r)
             /\ \A x \in Upto(i) : x = UNIVERSAL \/ x \in ToSet(r)
             /\ \A x \in ToSet(r) : x \in ToSet(s) \/ x \in Upto(i)
             /\ IsInjective(s) /\ s[1] \notin ToSet(t) => IsInjective(r)
           Q == {i \in Nat : i <= n => P(i, F[i])}
<1>10. 0 \in Q
  <2>1. P(0, s)
    OBVIOUS
  <2> QED BY <1>7, <2>1
<1>11. ASSUME NEW k \in Nat, k \in Q
       PROVE  k + 1 \in Q
  <2> SUFFICES ASSUME k + 1 <= n
               PROVE  P(k + 1, F[k + 1])
    OBVIOUS
  <2>1. PICK r : r = F[k]
    OBVIOUS
  <2>2. P(k, r)
    BY <1>11, <2>1
  <2>3. PICK m \in 1 .. n : m = k + 1 /\ m - 1 = k
    OBVIOUS
  <2>4. PICK x : x = t[m]
    OBVIOUS
  <2>5. x \in Package /\ x \in ToSet(t)
    BY <1>1, <2>3, <2>4, ToSetIs
  <2>6. F[m] = IF x \in Seen(r) THEN r ELSE Append(r, x)
    BY <1>8, <2>1, <2>3, <2>4
  <2>7. \A y : y \in Upto(m) <=> y \in Upto(k) \/ y = x
    BY <2>3, <2>4
  <2>8. r \in Seq(Package) /\ Len(r) > 0
    BY <2>2
  <2>9. ToSet(r) = ToSet(Tail(r)) \cup {r[1]}
    BY <2>8, TailHas
  <2> HIDE DEF Upto
  <2>10. CASE x \in Seen(r)
    <3>1. x = UNIVERSAL \/ x \in ToSet(r)
      BY <2>9, <2>10
    <3>2. P(m, r)
      BY <2>2, <2>7, <3>1
    <3> QED BY <2>3, <2>6, <2>10, <3>2
  <2>11. CASE x \notin Seen(r)
    <3>1. PICK a : a = Append(r, x)
      OBVIOUS
    <3>2. /\ a \in Seq(Package) /\ Len(a) = Len(r) + 1 /\ a[1] = r[1]
          /\ ToSet(a) = ToSet(r) \cup {x}
          /\ IsInjective(r) /\ x \notin ToSet(r) => IsInjective(a)
      BY <2>5, <2>8, <3>1, AppendJoins
    <3>3. s[1] \notin ToSet(t) => x \notin ToSet(r)
      BY <2>2, <2>5, <2>9, <2>11
    <3>4. Len(a) >= Len(s)
      BY <2>2, <2>8, <3>2
    <3>5. P(m, a)
      BY <2>2, <2>7, <3>2, <3>3, <3>4
    <3>6. F[m] = a
      BY <2>6, <2>11, <3>1
    <3> QED BY <2>3, <3>5, <3>6
  <2> QED BY <2>10, <2>11
<1>12. n \in Q
  <2> HIDE DEF Q
  <2> QED BY <1>10, <1>11, ByInduction
<1>13. Upto(n) = ToSet(t)
  BY <1>1, ToSetIs
<1>14. PICK r : r = F[n] /\ P(n, r)
  BY <1>12
<1>15. Joins(s, t, r)
  <2> HIDE DEF Upto
  <2> QED BY <1>13, <1>14 DEF Joins
<1> QED BY <1>9, <1>14, <1>15

LEMMA FirstParent ==
  ASSUME NEW p \in Package, NEW t \in Seq(Package)
  PROVE  /\ <<p>> \o t \in Seq(Package) /\ Len(<<p>> \o t) > 0 /\ (<<p>> \o t)[1] = p
         /\ ToSet(<<p>> \o t) = {p} \cup ToSet(t)
         /\ IsInjective(t) /\ p \notin ToSet(t) => IsInjective(<<p>> \o t)
<1>1. <<p>> \in Seq(Package) /\ Len(<<p>>) = 1
  OBVIOUS
<1>2. PICK a : a = <<p>> \o t
  OBVIOUS
<1>3. PICK n \in Nat : n = Len(t)
  OBVIOUS
<1>4. /\ a \in Seq(Package) /\ Len(a) = n + 1
      /\ a[1] = p /\ \A i \in 2 .. n + 1 : a[i] = t[i - 1]
  BY <1>1, <1>2, <1>3, ConcatProperties
<1>5. ToSet(a) = {a[i] : i \in 1 .. n + 1} /\ ToSet(t) = {t[i] : i \in 1 .. n}
  BY <1>3, <1>4, ToSetIs
<1>6. \A i \in 1 .. n + 1 : i = 1 \/ (i \in 2 .. n + 1 /\ i - 1 \in 1 .. n)
  OBVIOUS
<1>7. \A i \in 1 .. n : i + 1 \in 2 .. n + 1 /\ i + 1 \in 1 .. n + 1 /\ i + 1 - 1 = i
  OBVIOUS
<1>8. 1 \in 1 .. n + 1
  OBVIOUS
<1>9. ToSet(a) = {p} \cup ToSet(t)
  <2>1. \A x \in ToSet(a) : x = p \/ x \in ToSet(t)
    BY <1>4, <1>5, <1>6
  <2>2. ASSUME NEW x \in ToSet(t) PROVE x \in ToSet(a)
    <3>1. PICK i \in 1 .. n : x = t[i]
      BY <1>5
    <3>2. a[i + 1] = t[i]
      BY <1>4, <1>7
    <3> QED BY <1>5, <1>7, <3>1, <3>2
  <2>3. p \in ToSet(a)
    BY <1>4, <1>5, <1>8
  <2> QED BY <2>1, <2>2, <2>3
<1>10. ASSUME IsInjective(t), p \notin ToSet(t)
       PROVE  IsInjective(a)
  <2>1. DOMAIN a = 1 .. n + 1 /\ DOMAIN t = 1 .. n
    BY <1>3, <1>4
  <2>2. \A i, j \in 1 .. n : t[i] = t[j] => i = j
    BY <1>10, <2>1 DEF IsInjective
  <2>3. \A i \in 1 .. n : t[i] # p
    BY <1>5, <1>10
  <2>4. ASSUME NEW i \in 1 .. n + 1, NEW j \in 1 .. n + 1, a[i] = a[j]
        PROVE  i = j
    <3>1. CASE i = 1 /\ j = 1
      BY <3>1
    <3>2. CASE i # 1 /\ j # 1
      <4>1. i - 1 \in 1 .. n /\ j - 1 \in 1 .. n /\ a[i] = t[i - 1] /\ a[j] = t[j - 1]
        BY <1>4, <1>6, <3>2
      <4>2. i - 1 = j - 1
        BY <2>2, <2>4, <4>1
      <4> QED BY <4>2
    <3>3. CASE i = 1 /\ j # 1
      BY <1>4, <1>6, <2>3, <2>4, <3>3
    <3>4. CASE i # 1 /\ j = 1
      BY <1>4, <1>6, <2>3, <2>4, <3>4
    <3> QED BY <3>1, <3>2, <3>3, <3>4
  <2> QED BY <2>1, <2>4 DEF IsInjective
<1> QED BY <1>2, <1>4, <1>9, <1>10

\* What is in the linearization of p, from those of its parents.
Lines(p, ps, n, l) ==
  /\ l \in Seq(Package) /\ Len(l) > 0 /\ l[1] = p
  /\ \A i \in 1 .. n : \A x \in ToSet(ps[i]) : x = UNIVERSAL \/ x \in ToSet(l)
  /\ \A x \in ToSet(l) : x = p \/ \E i \in 1 .. n : x \in ToSet(ps[i])
  /\ (\A i \in 1 .. Len(ps) : IsInjective(ps[i]) /\ p \notin ToSet(ps[i])) => IsInjective(l)

LEMMA LineIs ==
  ASSUME NEW p \in Package, NEW ps \in Seq(Seq(Package))
  PROVE  Lines(p, ps, Len(ps), Line(p, ps))
<1>1. PICK n \in Nat : n = Len(ps)
  OBVIOUS
<1>2. \A i \in 1 .. n : ps[i] \in Seq(Package)
  BY <1>1
<1> DEFINE One == <<p>> \o ps[1]
           Step(f) ==
             [i \in 0 .. Len(ps) |->
               IF i = 0 THEN <<p>>
               ELSE IF i = 1 THEN <<p>> \o ps[1] ELSE LinesJoined(f[i - 1], ps[i])]
           F == CHOOSE f : f = Step(f)
           T == {s \in Seq(Package) : Len(s) > 0}
<1>3. PICK g : g = [q \in T \X (1 .. n) |-> IF q[2] = 1 THEN One ELSE LinesJoined(q[1], ps[q[2]])]
  OBVIOUS
<1>4. g \in [T \X (1 .. n) -> T]
  <2>1. ASSUME NEW q \in T \X (1 .. n)
        PROVE  (IF q[2] = 1 THEN One ELSE LinesJoined(q[1], ps[q[2]])) \in T
    <3>1. q[1] \in Seq(Package) /\ Len(q[1]) > 0 /\ q[2] \in 1 .. n
      BY <2>1
    <3>2. ps[q[2]] \in Seq(Package)
      BY <1>2, <3>1
    <3>3. CASE q[2] = 1
      <4>1. One \in Seq(Package) /\ Len(One) > 0
        BY <3>2, <3>3, FirstParent
      <4> HIDE DEF One
      <4> QED BY <3>3, <4>1
    <3>4. CASE q[2] # 1
      <4>1. PICK r : r = LinesJoined(q[1], ps[q[2]])
        OBVIOUS
      <4>2. Joins(q[1], ps[q[2]], r)
        BY <3>1, <3>2, <4>1, LinesJoinedIs
      <4>3. r \in Seq(Package) /\ Len(r) > 0
        BY <3>1, <4>2 DEF Joins
      <4> QED BY <3>4, <4>1, <4>3
    <3> QED BY <3>3, <3>4
  <2> HIDE DEF One
  <2> QED BY <1>3, <2>1
<1>5. <<p>> \in T
  OBVIOUS
<1>6. PICK f1 \in [0 .. n -> T] : Stepwise(f1, n, <<p>>, g)
  <2> HIDE DEF T
  <2> QED BY <1>4, <1>5, StepwiseExists
<1>7. f1 = Step(f1)
  <2>1. f1[0] = <<p>> /\ \A i \in 1 .. n : f1[i] = g[<<f1[i - 1], i>>]
    BY <1>6 DEF Stepwise
  <2>2. ASSUME NEW i \in 1 .. n
        PROVE  f1[i] = IF i = 1 THEN One ELSE LinesJoined(f1[i - 1], ps[i])
    <3>1. f1[i - 1] \in T
      BY <1>6
    <3> HIDE DEF T, One
    <3>2. <<f1[i - 1], i>> \in T \X (1 .. n)
      BY <3>1
    <3>3. g[<<f1[i - 1], i>>] = IF i = 1 THEN One ELSE LinesJoined(f1[i - 1], ps[i])
      BY <1>3, <3>2
    <3> QED BY <2>1, <3>3
  <2>3. ASSUME NEW i \in 0 .. n
        PROVE  f1[i] = IF i = 0 THEN <<p>>
                       ELSE IF i = 1 THEN <<p>> \o ps[1] ELSE LinesJoined(f1[i - 1], ps[i])
    <3>1. CASE i = 0
      BY <2>1, <3>1
    <3>2. CASE i # 0
      <4>1. i \in 1 .. n
        BY <3>2
      <4> QED BY <2>2, <3>2, <4>1
    <3> QED BY <3>1, <3>2
  <2>4. f1 = [i \in 0 .. n |-> f1[i]]
    BY <1>6
  <2> QED BY <1>1, <2>3, <2>4
<1>8. F = Step(F)
  <2> HIDE DEF Step
  <2> QED BY <1>7
<1>9. F[0] = <<p>>
  <2> HIDE DEF F
  <2>1. 0 \in 0 .. Len(ps)
    BY <1>1
  <2> QED BY <1>8, <2>1
<1>10. ASSUME NEW i \in 1 .. n
       PROVE  F[i] = IF i = 1 THEN One ELSE LinesJoined(F[i - 1], ps[i])
  <2> HIDE DEF F
  <2>1. i \in 0 .. Len(ps) /\ i # 0
    BY <1>1
  <2> QED BY <1>8, <2>1
<1>11. Line(p, ps) = F[n]
  BY <1>1 DEF Line
<1> HIDE DEF F, Step, T
<1> DEFINE Q == {i \in Nat : i <= n => Lines(p, ps, i, F[i])}
<1>12. 0 \in Q
  <2>1. <<p>> \in Seq(Package) /\ Len(<<p>>) = 1 /\ <<p>>[1] = p
    OBVIOUS
  <2>2. ToSet(<<p>>) = {p}
    <3>1. PICK o \in Seq(Package) : o = <<p>> /\ Len(o) = 1 /\ o[1] = p
      BY <2>1
    <3>2. ToSet(o) = {o[i] : i \in 1 .. Len(o)}
      BY ToSetIs
    <3>3. \A i \in 1 .. Len(o) : o[i] = p
      BY <3>1
    <3>4. 1 \in 1 .. Len(o)
      BY <3>1
    <3> QED BY <3>1, <3>2, <3>3, <3>4
  <2>3. IsInjective(<<p>>)
    BY DEF IsInjective
  <2>4. Lines(p, ps, 0, <<p>>)
    BY SMTT(30), <2>1, <2>2, <2>3 DEF Lines
  <2> QED BY <1>9, <2>4
<1>13. ASSUME NEW k \in Nat, k \in Q
       PROVE  k + 1 \in Q
  <2> SUFFICES ASSUME k + 1 <= n
               PROVE  Lines(p, ps, k + 1, F[k + 1])
    OBVIOUS
  <2>1. PICK r : r = F[k]
    OBVIOUS
  <2>2. Lines(p, ps, k, r)
    BY <1>13, <2>1
  <2>3. PICK m \in 1 .. n : m = k + 1 /\ m - 1 = k
    OBVIOUS
  <2>4. PICK t \in Seq(Package) : t = ps[m]
    BY <1>2
  <2>5. F[m] = IF m = 1 THEN One ELSE LinesJoined(r, t)
    BY <1>10, <2>1, <2>3, <2>4
  <2>6. \A i \in 1 .. m : i \in 1 .. k \/ i = m
    BY <2>3
  <2>7. \A i \in 1 .. k : i \in 1 .. m
    BY <2>3
  <2>8. m \in 1 .. m /\ m \in 1 .. Len(ps)
    BY <1>1, <2>3
  <2>9. CASE m = 1
    <3>1. PICK a : a = <<p>> \o t
      OBVIOUS
    <3>2. /\ a \in Seq(Package) /\ Len(a) > 0 /\ a[1] = p
          /\ ToSet(a) = {p} \cup ToSet(t)
          /\ IsInjective(t) /\ p \notin ToSet(t) => IsInjective(a)
      BY <3>1, FirstParent
    <3>3. \A i \in 1 .. m : i = m
      BY <2>9
    <3>4. Lines(p, ps, m, a)
      BY <2>4, <2>8, <3>2, <3>3 DEF Lines
    <3>5. F[m] = a
      BY <2>4, <2>5, <2>9, <3>1
    <3> QED BY <2>3, <3>4, <3>5
  <2>10. CASE m # 1
    <3>1. PICK a : a = LinesJoined(r, t)
      OBVIOUS
    <3>2. r \in Seq(Package) /\ Len(r) > 0 /\ r[1] = p
      BY <2>2 DEF Lines
    <3>3. Joins(r, t, a)
      BY <3>1, <3>2, LinesJoinedIs
    <3>4. a \in Seq(Package) /\ Len(a) > 0 /\ a[1] = p
      BY <3>2, <3>3 DEF Joins
    <3>5. ASSUME NEW i \in 1 .. m, NEW x \in ToSet(ps[i])
          PROVE  x = UNIVERSAL \/ x \in ToSet(a)
      <4>1. CASE i \in 1 .. k
        BY <2>2, <3>3, <3>5, <4>1 DEF Lines, Joins
      <4>2. CASE i = m
        BY <2>4, <3>3, <3>5, <4>2 DEF Joins
      <4> QED BY <2>6, <4>1, <4>2
    <3>6. ASSUME NEW x \in ToSet(a)
          PROVE  x = p \/ \E i \in 1 .. m : x \in ToSet(ps[i])
      <4>1. x \in ToSet(r) \/ x \in ToSet(t)
        BY <3>3 DEF Joins
      <4>2. CASE x \in ToSet(r)
        BY <2>2, <2>7, <4>2 DEF Lines
      <4>3. CASE x \in ToSet(t)
        BY <2>4, <2>8, <4>3
      <4> QED BY <4>1, <4>2, <4>3
    <3>7. ASSUME \A i \in 1 .. Len(ps) : IsInjective(ps[i]) /\ p \notin ToSet(ps[i])
          PROVE  IsInjective(a)
      <4>1. IsInjective(r)
        BY <2>2, <3>7 DEF Lines
      <4>2. p \notin ToSet(t)
        BY <2>4, <2>8, <3>7
      <4> QED BY <3>2, <3>3, <4>1, <4>2 DEF Joins
    <3>8. Lines(p, ps, m, a)
      BY <3>4, <3>5, <3>6, <3>7 DEF Lines
    <3>9. F[m] = a
      BY <2>5, <2>10, <3>1
    <3> QED BY <2>3, <3>8, <3>9
  <2> QED BY <2>9, <2>10
<1>14. n \in Q
  <2> HIDE DEF Q
  <2> QED BY <1>12, <1>13, ByInduction
<1> QED BY <1>1, <1>11, <1>14

-----------------------------------------------------------------------------
(* The depth-first search.                                                 *)

Known == Seq(Package) \cup {CYCLE}
Linears == [Package -> Seq(Package) \cup {NOCACHE}]
IsaTables == [Package -> Seq(Package)]

\* The parents of p as far as they are known.
Parents(p, isa, below) == [i \in 1 .. Len(isa[p]) |-> below[isa[p][i]]]

LEMMA Distinguished ==
  /\ CYCLE \notin Seq(Package) /\ NOCACHE \notin Seq(Package) /\ NOCACHE # CYCLE
  /\ \A x \in Package : \A v \in Nat : <<x, v>> # NOCACHE /\ <<x, v>> # NOMETHOD
  /\ NOCACHE # NOMETHOD
  /\ UNIVERSAL \in Package /\ IsFiniteSet(Package)
BY MroAssumption

LEMMA Depth == Cardinality(Package) \in Nat /\ Cardinality(Package) > 0
<1>1. Cardinality(Package) \in Nat
  BY Distinguished, FS_CardinalityType
<1>2. Cardinality(Package) # 0
  BY Distinguished, FS_EmptySet
<1> QED BY <1>1, <1>2

LEMMA DeeperIs ==
  ASSUME NEW linear \in Linears, NEW isa \in IsaTables, NEW below \in [Package -> Known]
  PROVE  /\ Deeper(linear, isa, below) \in [Package -> Known]
         /\ \A p \in Package :
              /\ linear[p] # NOCACHE => Deeper(linear, isa, below)[p] = linear[p]
              /\ linear[p] = NOCACHE /\ (\E i \in 1 .. Len(isa[p]) : below[isa[p][i]] = CYCLE)
                   => Deeper(linear, isa, below)[p] = CYCLE
              /\ linear[p] = NOCACHE /\ (\A i \in 1 .. Len(isa[p]) : below[isa[p][i]] # CYCLE)
                   => /\ Deeper(linear, isa, below)[p] = Line(p, Parents(p, isa, below))
                      /\ Parents(p, isa, below) \in Seq(Seq(Package))
                      /\ Len(Parents(p, isa, below)) = Len(isa[p])
                      /\ Line(p, Parents(p, isa, below)) \in Seq(Package)
<1> DEFINE Ps(p) == [i \in DOMAIN isa[p] |-> below[isa[p][i]]]
           L(p) == IF CYCLE \in ToSet(Ps(p)) THEN CYCLE ELSE Line(p, Ps(p))
<1>1. Deeper(linear, isa, below)
        = [p \in Package |-> IF linear[p] # NOCACHE THEN linear[p] ELSE L(p)]
  BY DEF Deeper
<1>2. ASSUME NEW p \in Package
      PROVE  /\ Ps(p) = Parents(p, isa, below)
             /\ \A i \in 1 .. Len(isa[p]) : Ps(p)[i] = below[isa[p][i]] /\ isa[p][i] \in Package
             /\ DOMAIN Ps(p) = 1 .. Len(isa[p]) /\ Len(isa[p]) \in Nat
  <2>1. isa[p] \in Seq(Package)
    BY DEF IsaTables
  <2>2. DOMAIN isa[p] = 1 .. Len(isa[p])
    BY <2>1
  <2> QED BY <2>1, <2>2 DEF Parents
<1>3. ASSUME NEW p \in Package
      PROVE  CYCLE \in ToSet(Ps(p)) <=> \E i \in 1 .. Len(isa[p]) : below[isa[p][i]] = CYCLE
  <2>1. PICK s : s = Ps(p)
    OBVIOUS
  <2>2. DOMAIN s = 1 .. Len(isa[p]) /\ \A i \in 1 .. Len(isa[p]) : s[i] = below[isa[p][i]]
    BY <1>2, <2>1
  <2>3. ToSet(s) = {s[i] : i \in 1 .. Len(isa[p])}
    BY <2>2 DEF ToSet
  <2> QED BY <2>1, <2>2, <2>3
<1>4. ASSUME NEW p \in Package, \A i \in 1 .. Len(isa[p]) : below[isa[p][i]] # CYCLE
      PROVE  /\ L(p) = Line(p, Parents(p, isa, below))
             /\ Parents(p, isa, below) \in Seq(Seq(Package))
             /\ Len(Parents(p, isa, below)) = Len(isa[p])
             /\ Line(p, Parents(p, isa, below)) \in Seq(Package)
  <2>1. PICK n \in Nat : n = Len(isa[p])
    BY <1>2
  <2>2. PICK s : s = Parents(p, isa, below)
    OBVIOUS
  <2>3. s = [i \in 1 .. n |-> below[isa[p][i]]]
    BY <2>1, <2>2 DEF Parents
  <2>4. \A i \in 1 .. n : below[isa[p][i]] \in Seq(Package)
    BY <1>2, <1>4, <2>1 DEF Known
  <2>5. s \in Seq(Seq(Package)) /\ Len(s) = n
    BY <2>3, <2>4
  <2>6. Lines(p, s, Len(s), Line(p, s))
    BY <2>5, LineIs
  <2>7. CYCLE \notin ToSet(Ps(p))
    BY <1>3, <1>4
  <2> QED BY <1>2, <2>1, <2>2, <2>5, <2>6, <2>7 DEF Lines
<1>5. ASSUME NEW p \in Package
      PROVE  /\ (\E i \in 1 .. Len(isa[p]) : below[isa[p][i]] = CYCLE) => L(p) = CYCLE
             /\ L(p) \in Known
  <2>1. CASE \E i \in 1 .. Len(isa[p]) : below[isa[p][i]] = CYCLE
    <3>1. CYCLE \in ToSet(Ps(p))
      BY <1>3, <2>1
    <3> QED BY <3>1 DEF Known
  <2>2. CASE \A i \in 1 .. Len(isa[p]) : below[isa[p][i]] # CYCLE
    <3> HIDE DEF L
    <3> QED BY <1>4, <2>2 DEF Known
  <2> QED BY <2>1, <2>2
<1> HIDE DEF L, Ps
<1>6. ASSUME NEW p \in Package
      PROVE  (IF linear[p] # NOCACHE THEN linear[p] ELSE L(p)) \in Known
  BY <1>5 DEF Linears, Known
<1>7. PICK d : d = Deeper(linear, isa, below)
  OBVIOUS
<1>8. d \in [Package -> Known] /\ \A p \in Package : d[p] = IF linear[p] # NOCACHE THEN linear[p] ELSE L(p)
  BY <1>1, <1>6, <1>7
<1> QED BY <1>4, <1>5, <1>7, <1>8

\* The search, step by step.
Depths(linear, isa, d) ==
  /\ d \in [0 .. Cardinality(Package) -> [Package -> Known]]
  /\ d[0] = All(CYCLE)
  /\ \A n \in 1 .. Cardinality(Package) : d[n] = Deeper(linear, isa, d[n - 1])
  /\ Linear(linear, isa) = d[Cardinality(Package)]

LEMMA DepthsExist ==
  ASSUME NEW linear \in Linears, NEW isa \in IsaTables
  PROVE  \E d : Depths(linear, isa, d)
<1>1. PICK n \in Nat : n = Cardinality(Package)
  BY Depth
<1> DEFINE Step(f) ==
             [i \in 0 .. Cardinality(Package) |->
               IF i = 0 THEN All(CYCLE) ELSE Deeper(linear, isa, f[i - 1])]
           F == CHOOSE f : f = Step(f)
           T == [Package -> Known]
<1>2. PICK g : g = [q \in T \X (1 .. n) |-> Deeper(linear, isa, q[1])]
  OBVIOUS
<1>3. g \in [T \X (1 .. n) -> T]
  <2>1. ASSUME NEW q \in T \X (1 .. n)
        PROVE  Deeper(linear, isa, q[1]) \in T
    <3>1. q[1] \in [Package -> Known]
      BY <2>1
    <3> QED BY <3>1, DeeperIs
  <2> HIDE DEF T
  <2> QED BY <1>2, <2>1
<1>4. All(CYCLE) \in T
  BY DEF All, Known
<1>5. PICK f1 \in [0 .. n -> T] : Stepwise(f1, n, All(CYCLE), g)
  <2> HIDE DEF T
  <2> QED BY <1>3, <1>4, StepwiseExists
<1>6. \A i \in 1 .. n : f1[i] = Deeper(linear, isa, f1[i - 1])
  <2> SUFFICES ASSUME NEW i \in 1 .. n
               PROVE  f1[i] = Deeper(linear, isa, f1[i - 1])
    OBVIOUS
  <2>1. f1[i] = g[<<f1[i - 1], i>>]
    BY <1>5 DEF Stepwise
  <2>2. f1[i - 1] \in T
    BY <1>5
  <2> HIDE DEF T
  <2>3. <<f1[i - 1], i>> \in T \X (1 .. n)
    BY <2>2
  <2> QED BY <1>2, <2>1, <2>3
<1>7. f1[0] = All(CYCLE)
  BY <1>5 DEF Stepwise
<1>8. f1 = Step(f1)
  <2>1. ASSUME NEW i \in 0 .. n
        PROVE  f1[i] = IF i = 0 THEN All(CYCLE) ELSE Deeper(linear, isa, f1[i - 1])
    <3>1. CASE i = 0
      BY <1>7, <3>1
    <3>2. CASE i # 0
      <4>1. i \in 1 .. n
        BY <3>2
      <4> QED BY <1>6, <3>2, <4>1
    <3> QED BY <3>1, <3>2
  <2>2. f1 = [i \in 0 .. n |-> f1[i]]
    BY <1>5
  <2> QED BY <1>1, <2>1, <2>2
<1>9. F = Step(F)
  <2> HIDE DEF Step
  <2> QED BY <1>8
<1>10. F[0] = All(CYCLE) /\ DOMAIN F = 0 .. n
  <2> HIDE DEF F
  <2>1. 0 \in 0 .. Cardinality(Package)
    BY <1>1
  <2> QED BY <1>1, <1>9, <2>1
<1>11. ASSUME NEW i \in 1 .. n
       PROVE  F[i] = Deeper(linear, isa, F[i - 1])
  <2> HIDE DEF F
  <2>1. i \in 0 .. Cardinality(Package) /\ i # 0
    BY <1>1
  <2> QED BY <1>9, <2>1
<1>12. Linear(linear, isa) = F[n]
  BY <1>1 DEF Linear
<1>13. F = [i \in 0 .. n |-> F[i]]
  <2> HIDE DEF F
  <2> QED BY <1>1, <1>9
<1> HIDE DEF F, Step, T
<1> DEFINE Q == {i \in Nat : i <= n => F[i] \in T}
<1>14. 0 \in Q
  BY <1>4, <1>10
<1>15. ASSUME NEW k \in Nat, k \in Q
       PROVE  k + 1 \in Q
  <2> SUFFICES ASSUME k + 1 <= n
               PROVE  F[k + 1] \in T
    OBVIOUS
  <2>1. PICK m \in 1 .. n : m = k + 1 /\ m - 1 = k
    OBVIOUS
  <2>2. F[k] \in T
    BY <1>15
  <2>3. Deeper(linear, isa, F[k]) \in T
    BY <2>2, DeeperIs DEF T
  <2> QED BY <1>11, <2>1, <2>3
<1>16. Nat \subseteq Q
  <2> HIDE DEF Q
  <2> QED BY <1>14, <1>15, ByInduction
<1>17. \A i \in 0 .. n : F[i] \in T
  BY <1>16
<1>18. F \in [0 .. n -> T]
  BY <1>13, <1>17
<1>19. Depths(linear, isa, F)
  BY <1>1, <1>10, <1>11, <1>12, <1>18 DEF Depths, T
<1> QED BY <1>19

\* One step of the search for one package.
LEMMA DepthStep ==
  ASSUME NEW linear \in Linears, NEW isa \in IsaTables, NEW d, Depths(linear, isa, d),
         NEW n \in 1 .. Cardinality(Package), NEW p \in Package
  PROVE  /\ d[n] \in [Package -> Known] /\ d[n - 1] \in [Package -> Known]
         /\ isa[p] \in Seq(Package)
         /\ linear[p] # NOCACHE => d[n][p] = linear[p] /\ d[n][p] # CYCLE
         /\ linear[p] = NOCACHE =>
              (d[n][p] # CYCLE <=> \A i \in 1 .. Len(isa[p]) : d[n - 1][isa[p][i]] # CYCLE)
         /\ linear[p] = NOCACHE /\ d[n][p] # CYCLE =>
              /\ d[n][p] = Line(p, Parents(p, isa, d[n - 1]))
              /\ Parents(p, isa, d[n - 1]) \in Seq(Seq(Package))
              /\ Len(Parents(p, isa, d[n - 1])) = Len(isa[p])
<1>1. PICK m \in Nat : m = Cardinality(Package)
  BY Depth
<1>2. n \in 0 .. m /\ n - 1 \in 0 .. m
  BY <1>1
<1>3. PICK b \in [Package -> Known] : b = d[n - 1]
  BY <1>1, <1>2 DEF Depths
<1>4. d[n] = Deeper(linear, isa, b) /\ d[n] \in [Package -> Known]
  BY <1>1, <1>2, <1>3 DEF Depths
<1>5. isa[p] \in Seq(Package) /\ linear[p] \in Seq(Package) \cup {NOCACHE}
  BY DEF IsaTables, Linears
<1>6. CASE linear[p] # NOCACHE
  <2>1. d[n][p] = linear[p]
    BY <1>4, <1>6, DeeperIs
  <2>2. linear[p] # CYCLE
    BY <1>5, <1>6, Distinguished
  <2> QED BY <1>3, <1>4, <1>5, <1>6, <2>1, <2>2
<1>7. CASE linear[p] = NOCACHE /\ \E i \in 1 .. Len(isa[p]) : b[isa[p][i]] = CYCLE
  <2>1. d[n][p] = CYCLE
    BY <1>4, <1>7, DeeperIs
  <2> QED BY <1>3, <1>4, <1>5, <1>7, <2>1
<1>8. CASE linear[p] = NOCACHE /\ \A i \in 1 .. Len(isa[p]) : b[isa[p][i]] # CYCLE
  <2>1. PICK ps : ps = Parents(p, isa, b)
    OBVIOUS
  <2>2. /\ d[n][p] = Line(p, ps) /\ ps \in Seq(Seq(Package)) /\ Len(ps) = Len(isa[p])
        /\ Line(p, ps) \in Seq(Package)
    BY <1>4, <1>8, <2>1, DeeperIs
  <2>3. d[n][p] # CYCLE
    BY <2>2, Distinguished
  <2> QED BY <1>3, <1>4, <1>5, <1>8, <2>1, <2>2, <2>3
<1> QED BY <1>6, <1>7, <1>8

\* What is found is not found otherwise deeper down.
LEMMA Stable ==
  ASSUME NEW linear \in Linears, NEW isa \in IsaTables, NEW d, Depths(linear, isa, d),
         NEW n \in 0 .. Cardinality(Package), NEW p \in Package, d[n][p] # CYCLE
  PROVE  /\ Linear(linear, isa)[p] = d[n][p]
         /\ n < Cardinality(Package) => d[n + 1][p] = d[n][p]
<1>1. PICK m \in Nat : m = Cardinality(Package) /\ m > 0
  BY Depth
<1> DEFINE Q == {k \in Nat : k < m => \A q \in Package : d[k][q] # CYCLE => d[k + 1][q] = d[k][q]}
<1>2. 0 \in Q
  BY <1>1 DEF Depths, All
<1>3. ASSUME NEW k \in Nat, k \in Q
      PROVE  k + 1 \in Q
  <2> SUFFICES ASSUME k + 1 < m, NEW q \in Package, d[k + 1][q] # CYCLE
               PROVE  d[(k + 1) + 1][q] = d[k + 1][q]
    OBVIOUS
  <2>1. PICK i, j \in 1 .. Cardinality(Package) : i = k + 1 /\ i - 1 = k /\ j = (k + 1) + 1 /\ j - 1 = i
    BY <1>1
  <2>2. \A x \in Package : d[k][x] # CYCLE => d[i][x] = d[k][x]
    BY <1>3, <2>1
  <2>3. CASE linear[q] # NOCACHE
    <3>1. d[i][q] = linear[q]
      BY <2>3, DepthStep
    <3>2. d[j][q] = linear[q]
      BY <2>3, DepthStep
    <3> QED BY <2>1, <3>1, <3>2
  <2>4. CASE linear[q] = NOCACHE
    <3>1. d[i][q] # CYCLE
      BY <2>1
    <3>2. /\ isa[q] \in Seq(Package)
          /\ \A x \in 1 .. Len(isa[q]) : d[k][isa[q][x]] # CYCLE
          /\ d[i][q] = Line(q, Parents(q, isa, d[k]))
      <4>1. /\ isa[q] \in Seq(Package)
            /\ d[i][q] # CYCLE <=> \A x \in 1 .. Len(isa[q]) : d[i - 1][isa[q][x]] # CYCLE
            /\ d[i][q] # CYCLE => d[i][q] = Line(q, Parents(q, isa, d[i - 1]))
        BY <2>4, DepthStep
      <4> QED BY <2>1, <3>1, <4>1
    <3>3. \A x \in 1 .. Len(isa[q]) : isa[q][x] \in Package
      BY <3>2
    <3>4. \A x \in 1 .. Len(isa[q]) : d[i][isa[q][x]] = d[k][isa[q][x]]
      BY <2>2, <3>2, <3>3
    <3>5. \A x \in 1 .. Len(isa[q]) : d[i][isa[q][x]] # CYCLE
      BY <3>2, <3>4
    <3>6. d[j][q] # CYCLE
      <4>1. \A x \in 1 .. Len(isa[q]) : d[j - 1][isa[q][x]] # CYCLE
        BY <2>1, <3>5
      <4>2. d[j][q] # CYCLE <=> \A x \in 1 .. Len(isa[q]) : d[j - 1][isa[q][x]] # CYCLE
        BY SMTT(30), <2>4, DepthStep
      <4> QED BY <4>1, <4>2
    <3>7. d[j][q] = Line(q, Parents(q, isa, d[i]))
      BY <2>1, <2>4, <3>6, DepthStep
    <3>8. Parents(q, isa, d[i]) = Parents(q, isa, d[k])
      BY <3>4 DEF Parents
    <3> QED BY <2>1, <3>2, <3>7, <3>8
  <2> QED BY <2>3, <2>4
<1>4. Nat \subseteq Q
  <2> HIDE DEF Q
  <2> QED BY <1>2, <1>3, ByInduction
<1>5. \A k \in Nat : k < m => \A q \in Package : d[k][q] # CYCLE => d[k + 1][q] = d[k][q]
  BY <1>4
<1> HIDE DEF Q
<1> DEFINE R == {k \in Nat : n + k <= m => d[n + k][p] = d[n][p]}
<1>6. 0 \in R
  BY <1>1
<1>7. ASSUME NEW k \in Nat, k \in R
      PROVE  k + 1 \in R
  <2> SUFFICES ASSUME n + (k + 1) <= m
               PROVE  d[n + (k + 1)][p] = d[n][p]
    OBVIOUS
  <2>1. PICK i \in Nat : i = n + k /\ i < m /\ i + 1 = n + (k + 1)
    BY <1>1
  <2>2. d[i][p] = d[n][p]
    BY <1>7, <2>1
  <2>3. d[i + 1][p] = d[i][p]
    BY <1>5, <2>1, <2>2
  <2> QED BY <2>1, <2>2, <2>3
<1>8. Nat \subseteq R
  <2> HIDE DEF R
  <2> QED BY <1>6, <1>7, ByInduction
<1>9. PICK k \in Nat : k = m - n /\ n + k = m
  BY <1>1
<1>10. d[m][p] = d[n][p]
  BY <1>8, <1>9
<1> QED BY <1>1, <1>5, <1>10 DEF Depths

\* Two searches find the same for the packages S if each of them is cached, or
\* has the same parents, which are in S.
LEMMA Agree ==
  ASSUME NEW l1 \in Linears, NEW isa1 \in IsaTables, NEW l2 \in Linears, NEW isa2 \in IsaTables,
         NEW S \in SUBSET Package,
         \A q \in S :
           /\ Linear(l1, isa1)[q] # CYCLE
           /\ \/ l2[q] = Linear(l1, isa1)[q]
              \/ /\ l1[q] = NOCACHE /\ l2[q] = NOCACHE /\ isa1[q] = isa2[q]
                 /\ \A i \in 1 .. Len(isa1[q]) : isa1[q][i] \in S
  PROVE  \A q \in S : Linear(l2, isa2)[q] = Linear(l1, isa1)[q]
<1>1. PICK m \in Nat : m = Cardinality(Package) /\ m > 0
  BY Depth
<1>2. PICK d : Depths(l1, isa1, d)
  BY DepthsExist
<1>3. PICK e : Depths(l2, isa2, e)
  BY DepthsExist
<1>4. PICK L : L = Linear(l1, isa1)
  OBVIOUS
<1> DEFINE Q == {k \in Nat : k <= m => \A q \in S : d[k][q] # CYCLE => e[k][q] = d[k][q]}
<1>5. 0 \in Q
  BY <1>2 DEF Depths, All
<1>6. ASSUME NEW k \in Nat, k \in Q
      PROVE  k + 1 \in Q
  <2> SUFFICES ASSUME k + 1 <= m, NEW q \in S, d[k + 1][q] # CYCLE
               PROVE  e[k + 1][q] = d[k + 1][q]
    OBVIOUS
  <2>1. PICK i \in 1 .. Cardinality(Package) : i = k + 1 /\ i - 1 = k /\ i \in 0 .. Cardinality(Package)
    BY <1>1
  <2>2. \A x \in S : d[k][x] # CYCLE => e[k][x] = d[k][x]
    BY <1>6
  <2>3. q \in Package
    OBVIOUS
  <2>4. d[i][q] # CYCLE
    BY <2>1
  <2>5. L[q] = d[i][q]
    BY <1>2, <1>4, <2>1, <2>3, <2>4, Stable
  <2>6. CASE l2[q] = L[q]
    <3>1. d[i][q] \in Seq(Package)
      BY <1>2, <2>3, <2>4, DepthStep DEF Known
    <3>2. l2[q] # NOCACHE
      BY <2>5, <2>6, <3>1, Distinguished
    <3>3. e[i][q] = l2[q]
      BY <1>3, <2>3, <3>2, DepthStep
    <3> QED BY <2>1, <2>5, <2>6, <3>3
  <2>7. CASE /\ l1[q] = NOCACHE /\ l2[q] = NOCACHE /\ isa1[q] = isa2[q]
             /\ \A x \in 1 .. Len(isa1[q]) : isa1[q][x] \in S
    <3>1. /\ \A x \in 1 .. Len(isa1[q]) : d[k][isa1[q][x]] # CYCLE
          /\ d[i][q] = Line(q, Parents(q, isa1, d[k]))
      BY <1>2, <2>1, <2>3, <2>4, <2>7, DepthStep
    <3>2. \A x \in 1 .. Len(isa1[q]) : e[k][isa1[q][x]] = d[k][isa1[q][x]]
      BY <2>2, <2>7, <3>1
    <3>3. \A x \in 1 .. Len(isa2[q]) : e[k][isa2[q][x]] # CYCLE
      BY <2>7, <3>1, <3>2
    <3>4. e[i][q] # CYCLE
      <4>1. e[i][q] # CYCLE <=> \A x \in 1 .. Len(isa2[q]) : e[i - 1][isa2[q][x]] # CYCLE
        BY <1>3, <2>3, <2>7, DepthStep
      <4> QED BY <2>1, <3>3, <4>1
    <3>5. e[i][q] = Line(q, Parents(q, isa2, e[k]))
      <4>1. e[i][q] = Line(q, Parents(q, isa2, e[i - 1]))
        BY <1>3, <2>3, <2>7, <3>4, DepthStep
      <4> QED BY <2>1, <4>1
    <3>6. Parents(q, isa1, d[k]) = Parents(q, isa2, e[k])
      <4>1. \A x \in 1 .. Len(isa1[q]) : d[k][isa1[q][x]] = e[k][isa1[q][x]]
        BY <3>2
      <4>2. isa1[q] = isa2[q]
        BY <2>7
      <4> QED BY <4>1, <4>2 DEF Parents
    <3> QED BY <2>1, <3>1, <3>5, <3>6
  <2> QED BY <1>4, <2>6, <2>7
<1>7. m \in Q
  <2> HIDE DEF Q
  <2> QED BY <1>5, <1>6, ByInduction
<1>8. \A q \in S : d[m][q] # CYCLE => e[m][q] = d[m][q]
  BY <1>7
<1> QED BY <1>1, <1>2, <1>3, <1>8 DEF Depths

\* The linearizations without caches, and tables where they can be had: no
\* package inherits from itself, and none names UNIVERSAL.
Plain(isa) == Linear(All(NOCACHE), isa)

Ordinary(isa) ==
  /\ isa \in IsaTables
  /\ \A p \in Package :
       /\ Plain(isa)[p] # CYCLE
       /\ \A i \in 1 .. Len(isa[p]) : isa[p][i] # UNIVERSAL

LEMMA NoneCached == All(NOCACHE) \in Linears /\ \A p \in Package : All(NOCACHE)[p] = NOCACHE
BY DEF All, Linears

\* Each package comes first and once in its linearization, which has that of
\* each parent in it.
LEMMA PlainIs ==
  ASSUME NEW isa, Ordinary(isa), NEW p \in Package
  PROVE  /\ Good(p, Plain(isa)[p])
         /\ \A i \in 1 .. Len(isa[p]) : isa[p][i] \in Package
         /\ \A i \in 1 .. Len(isa[p]) : ToSet(Plain(isa)[isa[p][i]]) \subseteq ToSet(Plain(isa)[p])
         /\ UNIVERSAL \in ToSet(Plain(isa)[p]) => p = UNIVERSAL
<1>1. PICK m \in Nat : m = Cardinality(Package) /\ m > 0
  BY Depth
<1>2. isa \in IsaTables
  BY DEF Ordinary
<1>3. PICK l \in Linears : l = All(NOCACHE) /\ \A q \in Package : l[q] = NOCACHE
  BY NoneCached
<1>4. PICK d : Depths(l, isa, d)
  BY <1>2, DepthsExist
<1>5. \A q \in Package : isa[q] \in Seq(Package) /\ \A i \in 1 .. Len(isa[q]) : isa[q][i] \in Package
  BY <1>2 DEF IsaTables
<1> DEFINE I(k, q) ==
             /\ Good(q, d[k][q])
             /\ UNIVERSAL \in ToSet(d[k][q]) => q = UNIVERSAL
             /\ \A x \in ToSet(d[k][q]) : d[k][x] # CYCLE
           Q == {k \in Nat : k <= m => \A q \in Package : d[k][q] # CYCLE => I(k, q)}
<1>6. 0 \in Q
  BY <1>4 DEF Depths, All
<1>7. ASSUME NEW k \in Nat, k \in Q
      PROVE  k + 1 \in Q
  <2> SUFFICES ASSUME k + 1 <= m, NEW q \in Package, d[k + 1][q] # CYCLE
               PROVE  I(k + 1, q)
    OBVIOUS
  <2>1. PICK i \in 1 .. Cardinality(Package) : i = k + 1 /\ i - 1 = k
    BY <1>1
  <2>2. k \in 0 .. Cardinality(Package) /\ k < Cardinality(Package)
    BY <1>1
  <2>3. \A x \in Package : d[k][x] # CYCLE => I(k, x)
    BY <1>7, <2>1
  <2>4. \A x \in Package : d[k][x] # CYCLE => d[i][x] = d[k][x]
    BY <1>2, <1>4, <2>1, <2>2, Stable
  <2>5. d[i][q] # CYCLE
    BY <2>1
  <2>6. CASE d[k][q] # CYCLE
    <3>1. I(k, q) /\ d[i][q] = d[k][q]
      BY <2>3, <2>4, <2>6
    <3>2. ToSet(d[k][q]) \subseteq Package
      BY <3>1, ToSetIs DEF Good
    <3>3. I(i, q)
      BY <2>4, <3>1, <3>2
    <3> QED BY <2>1, <3>3
  <2>7. CASE d[k][q] = CYCLE
    <3>1. PICK ps : ps = Parents(q, isa, d[i - 1])
      OBVIOUS
    <3>2. /\ \A x \in 1 .. Len(isa[q]) : d[i - 1][isa[q][x]] # CYCLE
          /\ d[i][q] = Line(q, ps) /\ ps \in Seq(Seq(Package)) /\ Len(ps) = Len(isa[q])
      BY <1>2, <1>3, <1>4, <2>5, <3>1, DepthStep
    <3>3. \A x \in 1 .. Len(ps) : ps[x] = d[k][isa[q][x]] /\ d[k][isa[q][x]] # CYCLE
      BY <2>1, <3>1, <3>2 DEF Parents
    <3>4. \A x \in 1 .. Len(ps) : isa[q][x] \in Package /\ isa[q][x] # UNIVERSAL
      BY <1>5, <3>2 DEF Ordinary
    <3>5. ASSUME NEW x \in 1 .. Len(ps)
          PROVE  /\ IsInjective(ps[x]) /\ q \notin ToSet(ps[x]) /\ UNIVERSAL \notin ToSet(ps[x])
                 /\ \A y \in ToSet(ps[x]) : y \in Package /\ d[k][y] # CYCLE
      <4>1. PICK y \in Package : y = isa[q][x] /\ y # UNIVERSAL
        BY <3>4
      <4>2. ps[x] = d[k][y] /\ I(k, y)
        BY <2>3, <3>3, <4>1
      <4>3. ToSet(d[k][y]) \subseteq Package
        BY <4>2, ToSetIs DEF Good
      <4> QED BY <2>7, <4>1, <4>2, <4>3 DEF Good
    <3>6. PICK r : r = d[i][q]
      OBVIOUS
    <3>7. Lines(q, ps, Len(ps), r)
      BY <3>2, <3>6, LineIs
    <3>8. Good(q, r)
      BY <3>5, <3>7 DEF Lines, Good
    <3>9. UNIVERSAL \in ToSet(r) => q = UNIVERSAL
      BY <3>5, <3>7 DEF Lines
    <3>10. ASSUME NEW x \in ToSet(r)
           PROVE  d[i][x] # CYCLE
      <4>1. CASE x = q
        BY <2>5, <4>1
      <4>2. CASE x # q
        <5>1. PICK y \in 1 .. Len(ps) : x \in ToSet(ps[y])
          BY <3>7, <4>2 DEF Lines
        <5>2. x \in Package /\ d[k][x] # CYCLE
          BY <3>5, <5>1
        <5> QED BY <2>4, <5>2
      <4> QED BY <4>1, <4>2
    <3> QED BY <2>1, <3>6, <3>8, <3>9, <3>10
  <2> QED BY <2>6, <2>7
<1>8. m \in Q
  <2> HIDE DEF Q
  <2> QED BY <1>6, <1>7, ByInduction
<1>9. Plain(isa) = d[m]
  BY <1>1, <1>3, <1>4 DEF Plain, Depths
<1>10. \A q \in Package : d[m][q] # CYCLE
  BY <1>9 DEF Ordinary
<1>11. \A q \in Package : I(m, q)
  BY <1>8, <1>10
<1>12. ASSUME NEW i \in 1 .. Len(isa[p])
       PROVE  ToSet(d[m][isa[p][i]]) \subseteq ToSet(d[m][p])
  <2>1. PICK n \in 1 .. Cardinality(Package) : n = m
    BY <1>1
  <2>2. PICK ps : ps = Parents(p, isa, d[n - 1])
    OBVIOUS
  <2>3. /\ \A x \in 1 .. Len(isa[p]) : d[n - 1][isa[p][x]] # CYCLE
        /\ d[n][p] = Line(p, ps) /\ ps \in Seq(Seq(Package)) /\ Len(ps) = Len(isa[p])
    BY <1>2, <1>3, <1>4, <1>10, <2>1, <2>2, DepthStep
  <2>4. PICK y \in Package : y = isa[p][i] /\ y # UNIVERSAL
    BY <1>5 DEF Ordinary
  <2>5. ps[i] = d[n - 1][y] /\ d[n - 1][y] # CYCLE
    BY <2>2, <2>3, <2>4 DEF Parents
  <2>6. n - 1 \in 0 .. Cardinality(Package) /\ n - 1 < Cardinality(Package) /\ n - 1 + 1 = n
    BY Depth
  <2>7. d[n][y] = d[n - 1][y]
    BY <1>2, <1>4, <2>5, <2>6, Stable
  <2>8. Lines(p, ps, Len(ps), d[n][p])
    BY <2>3, LineIs
  <2>9. UNIVERSAL \notin ToSet(d[m][y])
    BY <1>11, <2>4
  <2>10. ToSet(ps[i]) \subseteq ToSet(d[n][p])
    BY <2>1, <2>3, <2>5, <2>7, <2>8, <2>9 DEF Lines
  <2> QED BY <2>1, <2>4, <2>5, <2>7, <2>10
<1> QED BY <1>5, <1>9, <1>11, <1>12

\* With nothing above it, a package is found: the tables at the start.
LEMMA PlainAtStart ==
  ASSUME NEW isa \in IsaTables, \A p \in Package : isa[p] = << >>
  PROVE  Ordinary(isa) /\ \A p \in Package : Ancestors(Plain(isa)[p]) = {}
<1>1. PICK m \in 1 .. Cardinality(Package) : m = Cardinality(Package)
  BY Depth
<1>2. PICK l \in Linears : l = All(NOCACHE) /\ \A q \in Package : l[q] = NOCACHE
  BY NoneCached
<1>3. PICK d : Depths(l, isa, d)
  BY DepthsExist
<1>4. Plain(isa) = d[m]
  BY <1>1, <1>2, <1>3 DEF Plain, Depths
<1>5. \A p \in Package : Len(isa[p]) = 0
  BY EmptySeq
<1>6. \A p \in Package : d[m][p] # CYCLE
  BY <1>2, <1>3, <1>5, DepthStep
<1>7. Ordinary(isa)
  BY <1>4, <1>5, <1>6 DEF Ordinary
<1>8. ASSUME NEW p \in Package
      PROVE  Ancestors(Plain(isa)[p]) = {}
  <2>1. PICK ps : ps = Parents(p, isa, d[m - 1])
    OBVIOUS
  <2>2. d[m][p] = Line(p, ps) /\ ps \in Seq(Seq(Package)) /\ Len(ps) = 0
    BY <1>2, <1>3, <1>5, <1>6, <2>1, DepthStep
  <2>3. Lines(p, ps, Len(ps), d[m][p])
    BY <2>2, LineIs
  <2>4. \A x \in ToSet(d[m][p]) : x = p
    BY <2>2, <2>3 DEF Lines
  <2>5. Good(p, d[m][p])
    BY <1>4, <1>7, PlainIs
  <2>6. Ancestors(d[m][p]) = ToSet(d[m][p]) \ {p}
    BY <2>5, AncestorsIs
  <2> QED BY <1>4, <2>4, <2>6
<1> QED BY <1>7, <1>8

\* Caches that are right do not change what is found.
LEMMA CachedIsPlain ==
  ASSUME NEW isa, Ordinary(isa), NEW linear \in Linears,
         \A q \in Package : linear[q] = NOCACHE \/ linear[q] = Plain(isa)[q],
         NEW p \in Package
  PROVE  Linear(linear, isa)[p] = Plain(isa)[p]
<1>1. isa \in IsaTables /\ \A q \in Package : Plain(isa)[q] # CYCLE
  BY DEF Ordinary
<1>2. PICK l \in Linears : l = All(NOCACHE) /\ \A q \in Package : l[q] = NOCACHE
  BY NoneCached
<1>3. \A q \in Package : \A i \in 1 .. Len(isa[q]) : isa[q][i] \in Package
  BY PlainIs
<1>4. Plain(isa) = Linear(l, isa)
  BY <1>2 DEF Plain
<1>5. \A q \in Package : Linear(linear, isa)[q] = Linear(l, isa)[q]
  BY <1>1, <1>2, <1>3, <1>4, Agree
<1> QED BY <1>4, <1>5

\* A new @ISA of p changes nothing for those that do not inherit from p.
LEMMA OthersKeep ==
  ASSUME NEW isa, Ordinary(isa), NEW p \in Package, NEW s \in Seq(Package),
         NEW q \in Package, p \notin ToSet(Plain(isa)[q])
  PROVE  Plain([isa EXCEPT ![p] = s])[q] = Plain(isa)[q]
<1>1. isa \in IsaTables /\ \A x \in Package : Plain(isa)[x] # CYCLE
  BY DEF Ordinary
<1>2. PICK l \in Linears : l = All(NOCACHE) /\ \A x \in Package : l[x] = NOCACHE
  BY NoneCached
<1>3. PICK new \in IsaTables : new = [isa EXCEPT ![p] = s]
  BY <1>1 DEF IsaTables
<1>4. \A x \in Package : x # p => new[x] = isa[x]
  BY <1>1, <1>3 DEF IsaTables
<1>5. PICK S \in SUBSET Package : S = {x \in Package : p \notin ToSet(Plain(isa)[x])}
  OBVIOUS
<1>6. Plain(isa) = Linear(l, isa) /\ Plain(new) = Linear(l, new)
  BY <1>2 DEF Plain
<1>7. ASSUME NEW x \in S
      PROVE  isa[x] = new[x] /\ \A i \in 1 .. Len(isa[x]) : isa[x][i] \in S
  <2>1. x # p
    <3>1. p \in ToSet(Plain(isa)[p])
      BY PlainIs, AncestorsIs
    <3> QED BY <1>5, <3>1
  <2>2. ASSUME NEW i \in 1 .. Len(isa[x])
        PROVE  isa[x][i] \in S
    <3>1. /\ isa[x][i] \in Package
          /\ ToSet(Plain(isa)[isa[x][i]]) \subseteq ToSet(Plain(isa)[x])
      BY PlainIs
    <3>2. p \notin ToSet(Plain(isa)[x])
      BY <1>5
    <3> QED BY <1>5, <3>1, <3>2
  <2> QED BY <1>4, <2>1, <2>2
<1>8. \A x \in S : Linear(l, new)[x] = Linear(l, isa)[x]
  <2>1. \A x \in S : Linear(l, isa)[x] # CYCLE /\ l[x] = NOCACHE
    BY <1>1, <1>2, <1>6
  <2> QED BY <1>1, <1>7, <2>1, Agree
<1>9. q \in S
  BY <1>5
<1> QED BY <1>3, <1>6, <1>8, <1>9

-----------------------------------------------------------------------------
(* Looking for the method.                                                 *)

Subs == [Package -> 0 .. MaxVersion]

LEMMA VersionsAre == MaxVersion \in Nat
BY MroAssumption

\* The first package of the line that has the method.
LEMMA InLineIs ==
  ASSUME NEW m, m.sub \in Subs, NEW line \in Seq(Package)
  PROVE  /\ (\A i \in 1 .. Len(line) : m.sub[line[i]] = 0) => InLine(m, line) = NOMETHOD
         /\ \A i \in 1 .. Len(line) :
              m.sub[line[i]] > 0 /\ (\A j \in 1 .. i - 1 : m.sub[line[j]] = 0)
                => InLine(m, line) = <<line[i], m.sub[line[i]]>>
         /\ \/ \A i \in 1 .. Len(line) : m.sub[line[i]] = 0
            \/ \E i \in 1 .. Len(line) :
                 m.sub[line[i]] > 0 /\ \A j \in 1 .. i - 1 : m.sub[line[j]] = 0
<1> DEFINE H == {i \in DOMAIN line : m.sub[line[i]] > 0}
           Least == CHOOSE i \in H : \A j \in H : i <= j
           E == InLine(m, line)
<1>1. PICK n \in Nat : n = Len(line) /\ DOMAIN line = 1 .. n
  OBVIOUS
<1>2. H = {i \in 1 .. n : m.sub[line[i]] > 0}
  BY <1>1
<1>3. \A i \in 1 .. n : line[i] \in Package /\ m.sub[line[i]] \in Nat
  BY <1>1, VersionsAre DEF Subs
<1>4. E = IF H = {} THEN NOMETHOD ELSE <<line[Least], m.sub[line[Least]]>>
  BY DEF InLine
<1> HIDE DEF E
<1>5. ASSUME \A i \in 1 .. n : m.sub[line[i]] = 0
      PROVE  E = NOMETHOD
  <2>1. H = {}
    <3> SUFFICES ASSUME NEW i \in H PROVE FALSE
      OBVIOUS
    <3>1. i \in 1 .. n /\ m.sub[line[i]] > 0
      BY <1>2
    <3>2. m.sub[line[i]] = 0
      BY <1>5, <3>1
    <3> QED BY <3>1, <3>2
  <2> QED BY <1>4, <2>1
<1>6. ASSUME NEW i \in 1 .. n, m.sub[line[i]] > 0, \A j \in 1 .. i - 1 : m.sub[line[j]] = 0
      PROVE  E = <<line[i], m.sub[line[i]]>>
  <2>1. i \in H
    BY <1>2, <1>6
  <2>2. ASSUME NEW j \in H PROVE i <= j
    <3>1. j \in 1 .. n /\ m.sub[line[j]] > 0
      BY <1>2
    <3>2. j \notin 1 .. i - 1
      BY <1>6, <3>1
    <3> QED BY <3>1, <3>2
  <2>3. \A j \in H : (\A k \in H : j <= k) => j = i
    <3> SUFFICES ASSUME NEW j \in H, \A k \in H : j <= k
                 PROVE  j = i
      OBVIOUS
    <3>1. j <= i /\ i <= j /\ j \in 1 .. n
      BY <1>2, <2>1, <2>2
    <3> QED BY <3>1
  <2> HIDE DEF H
  <2>4. Least = i
    BY <2>1, <2>2, <2>3
  <2> HIDE DEF Least
  <2> QED BY <1>4, <2>1, <2>4
<1>7. ASSUME ~(\A i \in 1 .. n : m.sub[line[i]] = 0)
      PROVE  \E i \in 1 .. n : m.sub[line[i]] > 0 /\ \A j \in 1 .. i - 1 : m.sub[line[j]] = 0
  <2>1. H # {} /\ H \subseteq Nat
    <3>1. PICK i \in 1 .. n : m.sub[line[i]] # 0
      BY <1>7
    <3>2. m.sub[line[i]] > 0
      BY <1>3, <3>1
    <3> QED BY <1>2, <3>2
  <2> HIDE DEF H
  <2>2. PICK i \in H : \A j \in H : ~(j < i)
    BY <2>1, LeastOf
  <2> USE DEF H
  <2>3. i \in 1 .. n /\ m.sub[line[i]] > 0
    BY <1>2
  <2>4. ASSUME NEW j \in 1 .. i - 1 PROVE m.sub[line[j]] = 0
    <3>1. j \in 1 .. n /\ j < i
      BY <2>3
    <3>2. j \notin H
      BY <2>2, <3>1
    <3>3. ~(m.sub[line[j]] > 0)
      BY <1>2, <3>1, <3>2
    <3> QED BY <1>3, <3>1, <3>3
  <2> QED BY <2>3, <2>4
<1> HIDE DEF H, Least
<1> USE DEF E
<1> QED BY <1>1, <1>5, <1>6, <1>7

\* It depends on the methods of the packages in the line.
LEMMA InLineSame ==
  ASSUME NEW m, m.sub \in Subs, NEW n, n.sub \in Subs, NEW line \in Seq(Package),
         \A x \in ToSet(line) : m.sub[x] = n.sub[x]
  PROVE  InLine(m, line) = InLine(n, line)
<1>1. \A i \in 1 .. Len(line) : m.sub[line[i]] = n.sub[line[i]]
  BY ToSetIs
<1>2. CASE \A i \in 1 .. Len(line) : m.sub[line[i]] = 0
  <2>1. \A i \in 1 .. Len(line) : n.sub[line[i]] = 0
    BY <1>1, <1>2
  <2> QED BY <1>2, <2>1, InLineIs
<1>3. ASSUME NEW i \in 1 .. Len(line), m.sub[line[i]] > 0, \A j \in 1 .. i - 1 : m.sub[line[j]] = 0
      PROVE  InLine(m, line) = InLine(n, line)
  <2>1. \A j \in 1 .. i - 1 : j \in 1 .. Len(line)
    OBVIOUS
  <2>2. n.sub[line[i]] > 0 /\ \A j \in 1 .. i - 1 : n.sub[line[j]] = 0
    BY <1>1, <1>3, <2>1
  <2>3. InLine(m, line) = <<line[i], m.sub[line[i]]>>
    BY <1>3, InLineIs
  <2>4. InLine(n, line) = <<line[i], n.sub[line[i]]>>
    BY <2>2, InLineIs
  <2> QED BY <1>1, <2>3, <2>4
<1> QED BY <1>2, <1>3, InLineIs

LEMMA InLineType ==
  ASSUME NEW m, m.sub \in Subs, NEW line \in Seq(Package)
  PROVE  InLine(m, line) \in Method \cup {NOMETHOD} /\ InLine(m, line) # NOCACHE
<1>1. CASE \A i \in 1 .. Len(line) : m.sub[line[i]] = 0
  BY <1>1, InLineIs, Distinguished
<1>2. ASSUME NEW i \in 1 .. Len(line), m.sub[line[i]] > 0, \A j \in 1 .. i - 1 : m.sub[line[j]] = 0
      PROVE  InLine(m, line) \in Method /\ InLine(m, line) # NOCACHE
  <2>1. InLine(m, line) = <<line[i], m.sub[line[i]]>>
    BY <1>2, InLineIs
  <2>2. line[i] \in Package
    OBVIOUS
  <2>3. m.sub[line[i]] \in 1 .. MaxVersion /\ m.sub[line[i]] \in Nat
    BY <1>2, <2>2, VersionsAre DEF Subs
  <2> QED BY <2>1, <2>2, <2>3, Distinguished DEF Method
<1> QED BY <1>1, <1>2, InLineIs

\* A line and another one after it.
LEMMA InLineJoin ==
  ASSUME NEW m, m.sub \in Subs, NEW s \in Seq(Package), NEW t \in Seq(Package)
  PROVE  /\ InLine(m, s) # NOMETHOD => InLine(m, s \o t) = InLine(m, s)
         /\ InLine(m, s) = NOMETHOD => InLine(m, s \o t) = InLine(m, t)
<1>1. PICK a, b \in Nat : a = Len(s) /\ b = Len(t)
  OBVIOUS
<1>2. PICK l \in Seq(Package) : l = s \o t
  BY ConcatProperties
<1>3. /\ Len(l) = a + b
      /\ \A i \in 1 .. a : l[i] = s[i]
      /\ \A i \in a + 1 .. a + b : l[i] = t[i - a]
  <2>1. Len(l) = a + b /\ \A i \in 1 .. a + b : l[i] = IF i <= a THEN s[i] ELSE t[i - a]
    BY <1>1, <1>2, ConcatProperties
  <2> QED BY <2>1
<1>4. ASSUME NEW i \in 1 .. a, m.sub[s[i]] > 0, \A j \in 1 .. i - 1 : m.sub[s[j]] = 0
      PROVE  InLine(m, l) = InLine(m, s) /\ InLine(m, s) # NOMETHOD
  <2>1. InLine(m, s) = <<s[i], m.sub[s[i]]>>
    BY <1>1, <1>4, InLineIs
  <2>2. i \in 1 .. Len(l) /\ m.sub[l[i]] > 0
    BY <1>3, <1>4
  <2>3. \A j \in 1 .. i - 1 : m.sub[l[j]] = 0
    <3>1. \A j \in 1 .. i - 1 : j \in 1 .. a
      OBVIOUS
    <3> QED BY <1>3, <1>4, <3>1
  <2>4. InLine(m, l) = <<l[i], m.sub[l[i]]>>
    BY <2>2, <2>3, InLineIs
  <2>5. s[i] \in Package /\ m.sub[s[i]] \in Nat
    BY <1>1, VersionsAre DEF Subs
  <2> QED BY <1>3, <2>1, <2>4, <2>5, Distinguished
<1>5. ASSUME \A i \in 1 .. a : m.sub[s[i]] = 0
      PROVE  InLine(m, l) = InLine(m, t) /\ InLine(m, s) = NOMETHOD
  <2>1. InLine(m, s) = NOMETHOD
    BY <1>1, <1>5, InLineIs
  <2>2. CASE \A i \in 1 .. b : m.sub[t[i]] = 0
    <3>1. ASSUME NEW i \in 1 .. a + b PROVE m.sub[l[i]] = 0
      <4>1. CASE i \in 1 .. a
        BY <1>3, <1>5, <4>1
      <4>2. CASE i \notin 1 .. a
        <5>1. i \in a + 1 .. a + b /\ i - a \in 1 .. b
          BY <4>2
        <5> QED BY <1>3, <2>2, <5>1
      <4> QED BY <4>1, <4>2
    <3>2. InLine(m, l) = NOMETHOD
      BY <1>3, <3>1, InLineIs
    <3>3. InLine(m, t) = NOMETHOD
      BY <1>1, <2>2, InLineIs
    <3> QED BY <2>1, <3>2, <3>3
  <2>3. ASSUME NEW i \in 1 .. b, m.sub[t[i]] > 0, \A j \in 1 .. i - 1 : m.sub[t[j]] = 0
        PROVE  InLine(m, l) = InLine(m, t)
    <3>1. InLine(m, t) = <<t[i], m.sub[t[i]]>>
      BY <1>1, <2>3, InLineIs
    <3>2. PICK k \in Nat : k = a + i
      OBVIOUS
    <3>3. k \in 1 .. Len(l) /\ k \in a + 1 .. a + b /\ k - a = i
      BY <1>3, <3>2
    <3>4. l[k] = t[i]
      BY <1>3, <3>3
    <3>5. ASSUME NEW j \in 1 .. k - 1 PROVE m.sub[l[j]] = 0
      <4>1. CASE j \in 1 .. a
        BY <1>3, <1>5, <4>1
      <4>2. CASE j \notin 1 .. a
        <5>1. j \in a + 1 .. a + b /\ j - a \in 1 .. i - 1
          BY <3>2, <3>3, <4>2
        <5> QED BY <1>3, <2>3, <5>1
      <4> QED BY <4>1, <4>2
    <3>6. m.sub[l[k]] > 0
      BY <2>3, <3>4
    <3>7. InLine(m, l) = <<l[k], m.sub[l[k]]>>
      BY <3>3, <3>5, <3>6, InLineIs
    <3> QED BY <3>1, <3>4, <3>7
  <2>4. (\A i \in 1 .. b : m.sub[t[i]] = 0)
        \/ \E i \in 1 .. b : m.sub[t[i]] > 0 /\ \A j \in 1 .. i - 1 : m.sub[t[j]] = 0
    BY <1>1, InLineIs
  <2> QED BY <2>1, <2>2, <2>3, <2>4
<1>6. (\A i \in 1 .. a : m.sub[s[i]] = 0)
      \/ \E i \in 1 .. a : m.sub[s[i]] > 0 /\ \A j \in 1 .. i - 1 : m.sub[s[j]] = 0
  BY <1>1, InLineIs
<1>7. \/ InLine(m, l) = InLine(m, s) /\ InLine(m, s) # NOMETHOD
      \/ InLine(m, l) = InLine(m, t) /\ InLine(m, s) = NOMETHOD
  BY <1>4, <1>5, <1>6
<1> QED BY <1>2, <1>7

-----------------------------------------------------------------------------
(* The invariant.                                                          *)

Mros == [isa : IsaTables, sub : Subs, linear : Linears, isarev : [Package -> SUBSET Package],
         method : [Package -> Cached], destroy : [Package -> Cached], moved : SUBSET Package]

\* What a search without caches finds for p.
Answer(m, p) == InLine(m, Plain(m.isa)[p] \o Plain(m.isa)[UNIVERSAL])

LinesCurrent(m) == \A p \in Package : m.linear[p] = NOCACHE \/ m.linear[p] = Plain(m.isa)[p]
HeirsKnown(m) == \A p \in Package : \A a \in Ancestors(Plain(m.isa)[p]) : p \in m.isarev[a]
MethodsCurrent(m) ==
  \A p \in Package : m.sub[p] = 0 /\ m.method[p] # NOCACHE => m.method[p] = Answer(m, p)
DestroysCurrent(m) ==
  \A p \in Package \ m.moved : m.destroy[p] # NOCACHE => m.destroy[p] = Answer(m, p)

Base(m) == m \in Mros /\ Ordinary(m.isa) /\ LinesCurrent(m)
MroInv(m) ==
  /\ Base(m) /\ HeirsKnown(m) /\ MethodsCurrent(m) /\ DestroysCurrent(m)
  /\ \A p \in Package : m.isa[p] \in Isas[p] \cup {<< >>}

LEMMA MroFields ==
  ASSUME NEW m \in Mros
  PROVE  /\ m.isa \in IsaTables /\ m.sub \in Subs /\ m.linear \in Linears
         /\ m.isarev \in [Package -> SUBSET Package]
         /\ m.method \in [Package -> Cached] /\ m.destroy \in [Package -> Cached]
         /\ m.moved \in SUBSET Package
         /\ \A p \in Package : m.sub[p] \in Nat /\ m.isarev[p] \subseteq Package
BY VersionsAre DEF Mros, Subs

LEMMA AnswerParts ==
  ASSUME NEW m, m.sub \in Subs, Ordinary(m.isa), NEW p \in Package
  PROVE  /\ Plain(m.isa)[p] \in Seq(Package) /\ Plain(m.isa)[UNIVERSAL] \in Seq(Package)
         /\ InLine(m, Plain(m.isa)[p]) # NOMETHOD => Answer(m, p) = InLine(m, Plain(m.isa)[p])
         /\ InLine(m, Plain(m.isa)[p]) = NOMETHOD
              => Answer(m, p) = InLine(m, Plain(m.isa)[UNIVERSAL])
         /\ Answer(m, UNIVERSAL) = InLine(m, Plain(m.isa)[UNIVERSAL])
         /\ m.sub[p] > 0 => /\ InLine(m, Plain(m.isa)[p]) = <<p, m.sub[p]>>
                            /\ Answer(m, p) = <<p, m.sub[p]>>
         /\ Answer(m, p) \in Cached /\ Answer(m, p) # NOCACHE
<1>1. PICK u : u = Plain(m.isa)
  OBVIOUS
<1>2. Good(p, u[p]) /\ Good(UNIVERSAL, u[UNIVERSAL])
  BY <1>1, Distinguished, PlainIs
<1>3. u[p] \in Seq(Package) /\ u[UNIVERSAL] \in Seq(Package)
  BY <1>2 DEF Good
<1>4. /\ InLine(m, u[p]) # NOMETHOD => Answer(m, p) = InLine(m, u[p])
      /\ InLine(m, u[p]) = NOMETHOD => Answer(m, p) = InLine(m, u[UNIVERSAL])
  BY <1>1, <1>3, InLineJoin DEF Answer
<1>5. Answer(m, UNIVERSAL) = InLine(m, u[UNIVERSAL])
  BY <1>1, <1>3, InLineJoin DEF Answer
<1>6. ASSUME m.sub[p] > 0
      PROVE  InLine(m, u[p]) = <<p, m.sub[p]>> /\ Answer(m, p) = <<p, m.sub[p]>>
  <2>1. 1 \in 1 .. Len(u[p]) /\ u[p][1] = p /\ 1 .. 1 - 1 = {}
    BY <1>2 DEF Good
  <2>2. InLine(m, u[p]) = <<p, m.sub[p]>>
    BY <1>3, <1>6, <2>1, InLineIs
  <2>3. m.sub[p] \in Nat
    BY VersionsAre DEF Subs
  <2> QED BY <1>4, <2>2, <2>3, Distinguished
<1>7. Answer(m, p) \in Cached /\ Answer(m, p) # NOCACHE
  BY <1>3, <1>4, InLineType DEF Cached
<1> QED BY <1>1, <1>3, <1>4, <1>5, <1>6, <1>7

\* The answer depends on @ISA and on the methods of the packages in the lines.
LEMMA AnswerSame ==
  ASSUME NEW m, m.sub \in Subs, Ordinary(m.isa), NEW n, n.sub \in Subs, NEW p \in Package,
         Plain(n.isa)[p] = Plain(m.isa)[p],
         Plain(n.isa)[UNIVERSAL] = Plain(m.isa)[UNIVERSAL],
         \A x \in ToSet(Plain(m.isa)[p]) \cup ToSet(Plain(m.isa)[UNIVERSAL]) : n.sub[x] = m.sub[x]
  PROVE  Answer(n, p) = Answer(m, p)
<1>1. PICK s, t \in Seq(Package) : s = Plain(m.isa)[p] /\ t = Plain(m.isa)[UNIVERSAL]
  BY AnswerParts
<1>2. InLine(n, s) = InLine(m, s) /\ InLine(n, t) = InLine(m, t)
  BY <1>1, InLineSame
<1>3. InLine(n, s \o t) = InLine(m, s \o t)
  BY <1>2, InLineJoin
<1> QED BY <1>1, <1>3 DEF Answer

LEMMA ComputedHas ==
  ASSUME NEW linear \in Linears, NEW isa \in IsaTables, NEW S \in SUBSET Package
  PROVE  S \subseteq Computed(linear, isa, S)
<1>1. PICK n \in Nat : n = Cardinality(Package)
  BY Depth
<1> DEFINE Above(q) == IF linear[q] = NOCACHE THEN ToSet(isa[q]) ELSE {}
           More(R) == R \cup UNION {Above(q) : q \in R}
           Step(f) ==
             [i \in 0 .. Cardinality(Package) |->
               IF i = 0 THEN S ELSE f[i - 1] \cup UNION {Above(q) : q \in f[i - 1]}]
           F == CHOOSE f : f = Step(f)
           T == SUBSET Package
<1>2. PICK g : g = [q \in T \X (1 .. n) |-> More(q[1])]
  OBVIOUS
<1>3. ASSUME NEW R \in T
      PROVE  More(R) \in T
  <2>1. ASSUME NEW q \in R PROVE Above(q) \subseteq Package
    <3>1. isa[q] \in Seq(Package)
      BY <1>3 DEF IsaTables
    <3> QED BY <3>1, ToSetIs
  <2> HIDE DEF Above
  <2> QED BY <1>3, <2>1
<1> HIDE DEF Above
<1>4. g \in [T \X (1 .. n) -> T]
  <2>1. ASSUME NEW q \in T \X (1 .. n)
        PROVE  More(q[1]) \in T
    <3>1. q[1] \in T
      BY <2>1
    <3> HIDE DEF More, T
    <3> QED BY <1>3, <3>1
  <2> HIDE DEF More, T
  <2> QED BY <1>2, <2>1
<1>5. PICK f1 \in [0 .. n -> T] : Stepwise(f1, n, S, g)
  <2>1. S \in T
    OBVIOUS
  <2> HIDE DEF T
  <2> QED BY <1>4, <2>1, StepwiseExists
<1>6. \A i \in 1 .. n : f1[i] = More(f1[i - 1])
  <2> SUFFICES ASSUME NEW i \in 1 .. n
               PROVE  f1[i] = More(f1[i - 1])
    OBVIOUS
  <2>1. f1[i] = g[<<f1[i - 1], i>>]
    BY <1>5 DEF Stepwise
  <2>2. f1[i - 1] \in T
    BY <1>5
  <2> HIDE DEF T, More
  <2>3. <<f1[i - 1], i>> \in T \X (1 .. n)
    BY <2>2
  <2> QED BY <1>2, <2>1, <2>3
<1>7. f1 = Step(f1)
  <2>1. ASSUME NEW i \in 0 .. n
        PROVE  f1[i] = IF i = 0 THEN S ELSE More(f1[i - 1])
    <3> HIDE DEF More
    <3>1. CASE i = 0
      BY <1>5, <3>1 DEF Stepwise
    <3>2. CASE i # 0
      <4>1. i \in 1 .. n
        BY <3>2
      <4> QED BY <1>6, <3>2, <4>1
    <3> QED BY <3>1, <3>2
  <2>2. f1 = [i \in 0 .. n |-> f1[i]]
    BY <1>5
  <2> QED BY <1>1, <2>1, <2>2
<1>8. F = Step(F)
  <2> HIDE DEF Step
  <2> QED BY <1>7
<1>9. F[0] = S /\ \A i \in 1 .. n : F[i - 1] \subseteq F[i]
  <2> HIDE DEF F
  <2>1. 0 \in 0 .. Cardinality(Package)
    BY <1>1
  <2>2. F[0] = S
    BY <1>8, <2>1
  <2>3. ASSUME NEW i \in 1 .. n PROVE F[i - 1] \subseteq F[i]
    <3>1. i \in 0 .. Cardinality(Package) /\ i # 0
      BY <1>1
    <3>2. F[i] = F[i - 1] \cup UNION {Above(q) : q \in F[i - 1]}
      BY <1>8, <3>1
    <3> QED BY <3>2
  <2> QED BY <2>2, <2>3
<1>10. Computed(linear, isa, S) = F[n]
  BY <1>1 DEF Computed, Above
<1> HIDE DEF F, Step, T
<1> DEFINE Q == {i \in Nat : i <= n => S \subseteq F[i]}
<1>11. 0 \in Q
  BY <1>9
<1>12. ASSUME NEW k \in Nat, k \in Q
       PROVE  k + 1 \in Q
  <2> SUFFICES ASSUME k + 1 <= n
               PROVE  S \subseteq F[k + 1]
    OBVIOUS
  <2>1. PICK i \in 1 .. n : i = k + 1 /\ i - 1 = k
    OBVIOUS
  <2>2. S \subseteq F[k] /\ F[i - 1] \subseteq F[i]
    BY <1>9, <1>12
  <2> QED BY <2>1, <2>2
<1>13. n \in Q
  <2> HIDE DEF Q
  <2> QED BY <1>11, <1>12, ByInduction
<1> QED BY <1>10, <1>13

LEMMA LinearizedIs ==
  ASSUME NEW m, Base(m), NEW S \in SUBSET Package
  PROVE  /\ Base(Linearized(m, S))
         /\ Linearized(m, S) = [m EXCEPT !.linear = Linearized(m, S).linear]
         /\ \A p \in S : Linearized(m, S).linear[p] = Plain(m.isa)[p]
<1>1. /\ m \in Mros /\ Ordinary(m.isa) /\ LinesCurrent(m)
      /\ m.isa \in IsaTables /\ m.linear \in Linears
  BY MroFields DEF Base
<1>2. PICK line : line = Linear(m.linear, m.isa)
  OBVIOUS
<1>3. PICK c : c = Computed(m.linear, m.isa, S)
  OBVIOUS
<1>4. \A p \in Package : line[p] = Plain(m.isa)[p]
  BY <1>1, <1>2, CachedIsPlain DEF LinesCurrent
<1>5. \A p \in Package : line[p] \in Seq(Package)
  BY <1>1, <1>4, PlainIs DEF Good
<1>6. PICK new : new = [q \in Package |-> IF q \in c THEN line[q] ELSE m.linear[q]]
  OBVIOUS
<1>7. Linearized(m, S) = [m EXCEPT !.linear = new]
  BY <1>2, <1>3, <1>6 DEF Linearized
<1>8. new \in Linears
  BY <1>1, <1>5, <1>6 DEF Linears
<1>9. PICK l : l = [m EXCEPT !.linear = new]
  OBVIOUS
<1>10. l \in Mros /\ l.linear = new /\ l.isa = m.isa
  BY <1>1, <1>8, <1>9 DEF Mros
<1>11. LinesCurrent(l)
  BY <1>1, <1>4, <1>6, <1>10 DEF LinesCurrent
<1>12. S \subseteq c
  BY <1>1, <1>3, ComputedHas
<1>13. \A p \in S : new[p] = Plain(m.isa)[p]
  BY <1>4, <1>6, <1>12
<1> QED BY <1>1, <1>7, <1>9, <1>10, <1>11, <1>13 DEF Base

-----------------------------------------------------------------------------
(* Lookups.                                                                *)

\* Only what is cached of linearizations and methods is different.
Looked(m, n) ==
  /\ Base(n) /\ n.isa = m.isa /\ n.sub = m.sub /\ n.isarev = m.isarev
  /\ n.destroy = m.destroy /\ n.moved = m.moved

LEMMA FetchedIs ==
  ASSUME NEW m, Base(m), NEW p \in Package
  PROVE  LET u == Fetched(m, p) IN
         /\ Looked(m, u)
         /\ m.sub[p] > 0 \/ m.method[p] # NOCACHE => u = m
         /\ m.sub[p] = 0 /\ m.method[p] = NOCACHE
              => u.method = [m.method EXCEPT ![p] = InLine(m, Plain(m.isa)[p])]
<1>1. /\ m \in Mros /\ Ordinary(m.isa) /\ m.isa \in IsaTables /\ m.sub \in Subs
      /\ m.method \in [Package -> Cached] /\ m.sub[p] \in Nat
  BY MroFields DEF Base
<1>2. PICK u : u = Fetched(m, p)
  OBVIOUS
<1>3. PICK l : l = Linearized(m, {p})
  OBVIOUS
<1>4. /\ Base(l) /\ l = [m EXCEPT !.linear = l.linear]
      /\ l.linear[p] = Plain(m.isa)[p]
  BY <1>3, LinearizedIs
<1>5. PICK x : x = InLine(m, l.linear[p])
  OBVIOUS
<1>6. x = InLine(m, Plain(m.isa)[p]) /\ x \in Cached
  <2>1. Plain(m.isa)[p] \in Seq(Package)
    BY <1>1, AnswerParts
  <2> QED BY <1>1, <1>4, <1>5, <2>1, InLineType DEF Cached
<1>7. u = CASE m.sub[p] > 0 \/ m.method[p] # NOCACHE -> m
            [] m.sub[p] = 0 /\ m.method[p] = NOCACHE -> [l EXCEPT !.method[p] = x]
  BY <1>2, <1>3, <1>5 DEF Fetched
<1>8. CASE m.sub[p] > 0 \/ m.method[p] # NOCACHE
  <2>1. u = m
    BY <1>1, <1>7, <1>8
  <2> QED BY <1>1, <1>2, <1>8, <2>1 DEF Looked
<1>9. CASE m.sub[p] = 0 /\ m.method[p] = NOCACHE
  <2>1. u = [l EXCEPT !.method[p] = x]
    BY <1>7, <1>9
  <2>2. l \in Mros /\ Ordinary(l.isa) /\ LinesCurrent(l) /\ l.method = m.method
    BY <1>1, <1>4 DEF Base, Mros
  <2>3. [m.method EXCEPT ![p] = x] \in [Package -> Cached]
    BY <1>1, <1>6
  <2>4. u = [l EXCEPT !.method = [m.method EXCEPT ![p] = x]]
    BY <2>1, <2>2
  <2>5. /\ u \in Mros /\ u.isa = l.isa /\ u.sub = l.sub /\ u.isarev = l.isarev
        /\ u.destroy = l.destroy /\ u.moved = l.moved /\ u.linear = l.linear
        /\ u.method = [m.method EXCEPT ![p] = x]
    BY <2>2, <2>3, <2>4 DEF Mros
  <2>6. /\ l.isa = m.isa /\ l.sub = m.sub /\ l.isarev = m.isarev
        /\ l.destroy = m.destroy /\ l.moved = m.moved
    BY <1>1, <1>4 DEF Mros
  <2>7. Base(u)
    BY <2>2, <2>5 DEF Base, LinesCurrent
  <2>8. Looked(m, u)
    BY <2>5, <2>6, <2>7 DEF Looked
  <2> QED BY <1>2, <1>6, <1>9, <2>5, <2>8
<1> QED BY <1>1, <1>8, <1>9

LEMMA FetchIs ==
  ASSUME NEW m, Base(m), MethodsCurrent(m), NEW p \in Package
  PROVE  /\ Looked(m, Fetch(m, p)) /\ MethodsCurrent(Fetch(m, p))
         /\ m.sub[p] = 0 => Fetch(m, p).method[p] = Answer(m, p)
<1> DEFINE u == Fetched(m, p)
           v == Fetched(u, UNIVERSAL)
           inherited == IF v.sub[UNIVERSAL] > 0 THEN <<UNIVERSAL, v.sub[UNIVERSAL]>>
                        ELSE v.method[UNIVERSAL]
<1>1. PICK f : f = Fetch(m, p)
  OBVIOUS
<1>2. f = IF m.sub[p] > 0 \/ m.method[p] # NOCACHE \/ u.method[p] # NOMETHOD THEN u
          ELSE [v EXCEPT !.method[p] = inherited]
  BY <1>1 DEF Fetch
<1>3. /\ m \in Mros /\ Ordinary(m.isa) /\ m.sub \in Subs /\ UNIVERSAL \in Package
      /\ m.method \in [Package -> Cached] /\ m.sub[p] \in Nat /\ m.sub[UNIVERSAL] \in Nat
  BY Distinguished, MroFields DEF Base
<1>4. /\ Looked(m, u)
      /\ m.sub[p] > 0 \/ m.method[p] # NOCACHE => u = m
      /\ m.sub[p] = 0 /\ m.method[p] = NOCACHE
           => u.method = [m.method EXCEPT ![p] = InLine(m, Plain(m.isa)[p])]
  BY FetchedIs
<1> HIDE DEF u
<1>5. Base(u) /\ u.isa = m.isa /\ u.sub = m.sub
  BY <1>4 DEF Looked
<1>6. /\ Looked(u, v)
      /\ u.sub[UNIVERSAL] > 0 \/ u.method[UNIVERSAL] # NOCACHE => v = u
      /\ u.sub[UNIVERSAL] = 0 /\ u.method[UNIVERSAL] = NOCACHE
           => v.method = [u.method EXCEPT ![UNIVERSAL] = InLine(u, Plain(u.isa)[UNIVERSAL])]
  BY <1>3, <1>5, FetchedIs
<1> HIDE DEF v
<1>7. \A n, q : n.sub = m.sub /\ n.isa = m.isa => Answer(n, q) = Answer(m, q)
  BY DEF Answer, InLine
<1>8. CASE m.sub[p] > 0 \/ m.method[p] # NOCACHE
  <2>1. f = m
    BY <1>2, <1>4, <1>8
  <2>2. m.sub[p] = 0 => m.method[p] = Answer(m, p)
    BY <1>3, <1>8 DEF MethodsCurrent
  <2> QED BY <1>1, <1>4, <1>8, <2>1, <2>2
<1> DEFINE x == InLine(m, Plain(m.isa)[p])
           y == InLine(m, Plain(m.isa)[UNIVERSAL])
<1>9. CASE m.sub[p] = 0 /\ m.method[p] = NOCACHE /\ u.method[p] # NOMETHOD
  <2>1. f = u
    BY <1>2, <1>9
  <2>2. u.method = [m.method EXCEPT ![p] = x]
    BY <1>4, <1>9
  <2>3. u.method[p] = x /\ \A q \in Package : q # p => u.method[q] = m.method[q]
    BY <1>3, <2>2
  <2>4. x = Answer(m, p)
    BY <1>3, <1>9, <2>3, AnswerParts
  <2>5. \A q \in Package : Answer(u, q) = Answer(m, q)
    BY <1>5, <1>7
  <2>6. ASSUME NEW q \in Package, u.sub[q] = 0, u.method[q] # NOCACHE
        PROVE  u.method[q] = Answer(u, q)
    <3>1. CASE q = p
      BY <2>3, <2>4, <2>5, <3>1
    <3>2. CASE q # p
      <4>1. u.method[q] = m.method[q] /\ m.sub[q] = 0
        BY <1>5, <2>3, <2>6, <3>2
      <4> QED BY <2>5, <2>6, <4>1 DEF MethodsCurrent
    <3> QED BY <3>1, <3>2
  <2>7. MethodsCurrent(u)
    BY <2>6 DEF MethodsCurrent
  <2> QED BY <1>1, <1>4, <2>1, <2>3, <2>4, <2>7
<1>10. CASE m.sub[p] = 0 /\ m.method[p] = NOCACHE /\ u.method[p] = NOMETHOD
  <2>1. f = [v EXCEPT !.method[p] = inherited]
    BY <1>2, <1>3, <1>10
  <2>2. u.method = [m.method EXCEPT ![p] = x]
    BY <1>4, <1>10
  <2>3. u.method[p] = x /\ \A q \in Package : q # p => u.method[q] = m.method[q]
    BY <1>3, <2>2
  <2>4. x = NOMETHOD
    BY <1>10, <2>3
  <2>5. Answer(m, p) = y /\ Answer(m, UNIVERSAL) = y
    BY <1>3, <2>4, AnswerParts
  <2>6. /\ v \in Mros /\ Base(v) /\ v.isa = m.isa /\ v.sub = m.sub
        /\ v.method \in [Package -> Cached] /\ u.method \in [Package -> Cached]
    BY <1>5, <1>6, MroFields DEF Looked, Base
  <2>7. m.sub[UNIVERSAL] > 0 => y = <<UNIVERSAL, m.sub[UNIVERSAL]>>
    BY <1>3, AnswerParts
  <2>8. InLine(u, Plain(u.isa)[UNIVERSAL]) = y
    BY <1>5 DEF InLine
  <2>9. ASSUME m.sub[UNIVERSAL] = 0
        PROVE  v.method[UNIVERSAL] = y
    <3>1. CASE u.method[UNIVERSAL] = NOCACHE
      <4>1. v.method = [u.method EXCEPT ![UNIVERSAL] = y]
        BY <1>5, <1>6, <2>8, <2>9, <3>1
      <4> QED BY <1>3, <2>6, <4>1
    <3>2. CASE u.method[UNIVERSAL] # NOCACHE
      <4>1. v = u
        BY <1>6, <3>2
      <4>2. CASE UNIVERSAL = p
        <5>1. x = y
          BY <4>2
        <5> QED BY <2>3, <4>1, <4>2, <5>1
      <4>3. CASE UNIVERSAL # p
        <5>1. u.method[UNIVERSAL] = m.method[UNIVERSAL]
          BY <1>3, <2>3, <4>3
        <5>2. m.method[UNIVERSAL] = Answer(m, UNIVERSAL)
          BY <1>3, <2>9, <3>2, <5>1 DEF MethodsCurrent
        <5> QED BY <2>5, <4>1, <5>1, <5>2
      <4> QED BY <4>2, <4>3
    <3> QED BY <3>1, <3>2
  <2>10. inherited = y
    BY <1>3, <2>6, <2>7, <2>9
  <2> HIDE DEF inherited
  <2>11. \A q \in Package : q # UNIVERSAL => v.method[q] = u.method[q]
    <3>1. v.method = u.method \/ v.method = [u.method EXCEPT ![UNIVERSAL] = y]
      <4>1. u.sub[UNIVERSAL] \in Nat
        BY <1>3, <1>5
      <4> QED BY <1>6, <2>8, <4>1
    <3> QED BY <2>6, <3>1
  <2>12. y \in Cached
    <3>1. y \in Method \cup {NOMETHOD}
      BY <1>3, AnswerParts, InLineType
    <3> QED BY <3>1 DEF Cached
  <2>13. [v.method EXCEPT ![p] = y] \in [Package -> Cached]
    BY <2>6, <2>12
  <2>14. /\ f \in Mros /\ f.isa = v.isa /\ f.sub = v.sub /\ f.isarev = v.isarev
         /\ f.destroy = v.destroy /\ f.moved = v.moved /\ f.linear = v.linear
         /\ f.method = [v.method EXCEPT ![p] = y]
    BY <2>1, <2>6, <2>10, <2>13 DEF Mros
  <2>15. Base(f)
    BY <2>6, <2>14 DEF Base, LinesCurrent
  <2>16. Looked(m, f)
    BY <1>4, <1>6, <2>14, <2>15 DEF Looked
  <2>17. f.method[p] = y /\ \A q \in Package : q # p => f.method[q] = v.method[q]
    BY <2>6, <2>14
  <2>18. \A q \in Package : Answer(f, q) = Answer(m, q)
    BY <1>7, <2>6, <2>14
  <2>19. ASSUME NEW q \in Package, f.sub[q] = 0, f.method[q] # NOCACHE
         PROVE  f.method[q] = Answer(f, q)
    <3>1. CASE q = p
      BY <2>5, <2>17, <2>18, <3>1
    <3>2. CASE q # p /\ q = UNIVERSAL
      <4>1. f.method[q] = y
        BY <2>6, <2>9, <2>14, <2>17, <2>19, <3>2
      <4> QED BY <2>5, <2>18, <3>2, <4>1
    <3>3. CASE q # p /\ q # UNIVERSAL
      <4>1. f.method[q] = m.method[q] /\ m.sub[q] = 0
        BY <2>3, <2>6, <2>11, <2>14, <2>17, <2>19, <3>3
      <4> QED BY <2>18, <2>19, <4>1 DEF MethodsCurrent
    <3> QED BY <3>1, <3>2, <3>3
  <2>20. MethodsCurrent(f)
    BY <2>19 DEF MethodsCurrent
  <2> QED BY <1>1, <2>5, <2>16, <2>17, <2>20
<1> QED BY <1>3, <1>8, <1>9, <1>10

\* The result of a call, and that of a lookup for DESTROY.
LEMMA FetchKeeps ==
  ASSUME NEW m, MroInv(m), NEW p \in Package
  PROVE  /\ MroInv(Fetch(m, p)) /\ Looked(m, Fetch(m, p))
         /\ Result(Fetch(m, p), p) = Answer(m, p)
<1>1. Base(m) /\ MethodsCurrent(m)
  BY DEF MroInv
<1>2. PICK f : f = Fetch(m, p)
  OBVIOUS
<1>3. Looked(m, f) /\ MethodsCurrent(f) /\ (m.sub[p] = 0 => f.method[p] = Answer(m, p))
  BY <1>1, <1>2, FetchIs
<1>4. \A q \in Package : Answer(f, q) = Answer(m, q)
  <2>1. f.sub = m.sub /\ f.isa = m.isa
    BY <1>3 DEF Looked
  <2> QED BY <2>1 DEF Answer, InLine
<1>5. HeirsKnown(f) /\ DestroysCurrent(f)
  BY <1>3, <1>4 DEF MroInv, HeirsKnown, DestroysCurrent, Looked
<1>6. MroInv(f)
  BY <1>3, <1>5 DEF MroInv, Looked
<1>7. m.sub[p] \in Nat /\ m.sub \in Subs /\ Ordinary(m.isa) /\ f.sub = m.sub
  BY <1>1, <1>3, MroFields DEF Base, Looked
<1>8. m.sub[p] > 0 => Answer(m, p) = <<p, m.sub[p]>>
  BY <1>7, AnswerParts
<1>9. Result(f, p) = Answer(m, p)
  BY <1>3, <1>7, <1>8 DEF Result
<1> QED BY <1>2, <1>3, <1>6, <1>9

-----------------------------------------------------------------------------
(* Changes.                                                                *)

\* What is left of the caches of methods and destructors when those of the
\* packages S and D are forgotten.
Forgotten(m, n, S, D) ==
  /\ n \in Mros /\ n.isa = m.isa /\ n.sub = m.sub /\ n.linear = m.linear /\ n.isarev = m.isarev
  /\ \A q \in Package : n.method[q] # NOCACHE => n.method[q] = m.method[q] /\ q \notin S
  /\ \A q \in Package : n.destroy[q] # NOCACHE =>
       n.destroy[q] = m.destroy[q] /\ q \notin D /\ (q \in n.moved <=> q \in m.moved)

LEMMA ForgottenIs ==
  ASSUME NEW m \in Mros, NEW S \in SUBSET Package, NEW D \in SUBSET Package
  PROVE  /\ Forgotten(m, AllForgotten(m), Package, Package)
         /\ Forgotten(m, DestroysForgotten(MethodsForgotten(m, S), D), S, D)
<1>1. NOCACHE \in Cached
  BY DEF Cached
<1>2. m.method \in [Package -> Cached] /\ m.destroy \in [Package -> Cached] /\ m.moved \subseteq Package
  BY MroFields
<1>3. Forgotten(m, AllForgotten(m), Package, Package)
  <2>1. PICK n : n = AllForgotten(m)
    OBVIOUS
  <2>2. PICK e \in [Package -> Cached] : e = All(NOCACHE) /\ \A q \in Package : e[q] = NOCACHE
    <3>1. All(NOCACHE) \in [Package -> Cached] /\ \A q \in Package : All(NOCACHE)[q] = NOCACHE
      BY <1>1 DEF All
    <3> QED BY <3>1
  <2>3. n = [m EXCEPT !.method = e, !.destroy = e, !.moved = {}]
    BY <2>1, <2>2 DEF AllForgotten
  <2>4. /\ n \in Mros /\ n.isa = m.isa /\ n.sub = m.sub /\ n.linear = m.linear
        /\ n.isarev = m.isarev /\ n.method = e /\ n.destroy = e
    BY <2>2, <2>3 DEF Mros
  <2> QED BY <2>1, <2>2, <2>4 DEF Forgotten
<1>4. Forgotten(m, DestroysForgotten(MethodsForgotten(m, S), D), S, D)
  <2>1. PICK a : a = [q \in Package |-> IF q \in S THEN NOCACHE ELSE m.method[q]]
    OBVIOUS
  <2>2. PICK b : b = [q \in Package |-> IF q \in D THEN NOCACHE ELSE m.destroy[q]]
    OBVIOUS
  <2>3. a \in [Package -> Cached] /\ b \in [Package -> Cached]
    BY <1>1, <1>2, <2>1, <2>2
  <2>4. PICK k : k = MethodsForgotten(m, S)
    OBVIOUS
  <2>5. k = [m EXCEPT !.method = a]
    BY <2>1, <2>4 DEF MethodsForgotten
  <2>6. /\ k \in Mros /\ k.isa = m.isa /\ k.sub = m.sub /\ k.linear = m.linear
        /\ k.isarev = m.isarev /\ k.method = a /\ k.destroy = m.destroy /\ k.moved = m.moved
    BY <2>3, <2>5 DEF Mros
  <2>7. PICK n : n = DestroysForgotten(k, D)
    OBVIOUS
  <2>8. n = [k EXCEPT !.destroy = b, !.moved = k.moved \ D]
    BY <2>2, <2>6, <2>7 DEF DestroysForgotten
  <2>9. /\ n \in Mros /\ n.isa = m.isa /\ n.sub = m.sub /\ n.linear = m.linear
        /\ n.isarev = m.isarev /\ n.method = a /\ n.destroy = b /\ n.moved = m.moved \ D
    BY <1>2, <2>3, <2>6, <2>8 DEF Mros
  <2>10. \A q \in Package : a[q] # NOCACHE => a[q] = m.method[q] /\ q \notin S
    BY <2>1
  <2>11. \A q \in Package : b[q] # NOCACHE => b[q] = m.destroy[q] /\ q \notin D
    BY <2>2
  <2> QED BY <2>4, <2>7, <2>9, <2>10, <2>11 DEF Forgotten
<1> QED BY <1>3, <1>4

\* A package is in the linearization of its heirs.
LEMMA HeirsHave ==
  ASSUME NEW m, MroInv(m), NEW p \in Package, NEW q \in Package, q # p, q \notin m.isarev[p]
  PROVE  p \notin ToSet(Plain(m.isa)[q])
<1>1. Good(q, Plain(m.isa)[q])
  BY PlainIs DEF MroInv, Base
<1>2. Ancestors(Plain(m.isa)[q]) = ToSet(Plain(m.isa)[q]) \ {q}
  BY <1>1, AncestorsIs
<1> QED BY <1>2 DEF MroInv, HeirsKnown

\* sub p::m { ... }, or it is deleted.
LEMMA SubKeeps ==
  ASSUME NEW m, MroInv(m), NEW p \in Package, NEW v \in 0 .. MaxVersion
  PROVE  MroInv(MethodChanged([m EXCEPT !.sub[p] = v, !.method[p] = NOCACHE], p))
<1>1. m \in Mros /\ Base(m) /\ Ordinary(m.isa) /\ LinesCurrent(m)
  BY DEF MroInv, Base
<1>2. /\ m.sub \in Subs /\ m.method \in [Package -> Cached] /\ m.isarev[p] \subseteq Package
      /\ UNIVERSAL \in Package
  BY <1>1, MroFields, Distinguished
<1>3. PICK n : n = [m EXCEPT !.sub[p] = v, !.method[p] = NOCACHE]
  OBVIOUS
<1>4. PICK a : a = [m.sub EXCEPT ![p] = v]
  OBVIOUS
<1>5. PICK b : b = [m.method EXCEPT ![p] = NOCACHE]
  OBVIOUS
<1>6. a \in Subs /\ \A q \in Package : q # p => a[q] = m.sub[q]
  BY <1>2, <1>4 DEF Subs
<1>7. /\ b \in [Package -> Cached] /\ b[p] = NOCACHE
      /\ \A q \in Package : q # p => b[q] = m.method[q]
  BY <1>2, <1>5 DEF Cached
<1>8. n = [m EXCEPT !.sub = a, !.method = b]
  BY <1>1, <1>3, <1>4, <1>5 DEF Mros
<1>9. /\ n \in Mros /\ n.isa = m.isa /\ n.sub = a /\ n.linear = m.linear
      /\ n.isarev = m.isarev /\ n.method = b /\ n.destroy = m.destroy /\ n.moved = m.moved
  BY <1>1, <1>6, <1>7, <1>8 DEF Mros
<1>10. PICK c : c = MethodChanged(n, p)
  OBVIOUS
<1>11. \/ Forgotten(n, c, Package, Package)
       \/ ~IsUniversal(n, p) /\ Forgotten(n, c, m.isarev[p], m.isarev[p] \cup {p})
  BY <1>2, <1>9, <1>10, ForgottenIs DEF MethodChanged
<1>12. /\ c \in Mros /\ c.isa = m.isa /\ c.sub = a /\ c.linear = m.linear /\ c.isarev = m.isarev
       /\ \A q \in Package : c.method[q] # NOCACHE =>
            c.method[q] = m.method[q] /\ q # p /\ q \notin m.isarev[p] /\ ~IsUniversal(n, p)
       /\ \A q \in Package : c.destroy[q] # NOCACHE =>
            /\ c.destroy[q] = m.destroy[q] /\ q # p /\ q \notin m.isarev[p] /\ ~IsUniversal(n, p)
            /\ q \in c.moved <=> q \in m.moved
  BY <1>7, <1>9, <1>11 DEF Forgotten
<1>13. ASSUME NEW q \in Package, q # p, q \notin m.isarev[p], ~IsUniversal(n, p)
       PROVE  Answer(c, q) = Answer(m, q)
  <2>1. p \notin ToSet(Plain(m.isa)[q])
    BY <1>13, HeirsHave
  <2>2. UNIVERSAL # p /\ UNIVERSAL \notin m.isarev[p]
    BY <1>9, <1>13 DEF IsUniversal
  <2>3. p \notin ToSet(Plain(m.isa)[UNIVERSAL])
    BY <1>2, <2>2, HeirsHave
  <2>4. ASSUME NEW x \in ToSet(Plain(m.isa)[q]) \cup ToSet(Plain(m.isa)[UNIVERSAL])
        PROVE  c.sub[x] = m.sub[x]
    <3>1. Plain(m.isa)[q] \in Seq(Package) /\ Plain(m.isa)[UNIVERSAL] \in Seq(Package)
      BY <1>1, <1>2, AnswerParts
    <3>2. x \in Package /\ x # p
      BY <2>1, <2>3, <3>1, ToSetIs
    <3> QED BY <1>6, <1>12, <3>2
  <2> QED BY <1>1, <1>2, <1>6, <1>12, <2>4, AnswerSame
<1>14. Base(c)
  BY <1>1, <1>12 DEF Base, LinesCurrent
<1>15. HeirsKnown(c)
  BY <1>12 DEF MroInv, HeirsKnown
<1>16. ASSUME NEW q \in Package, c.sub[q] = 0, c.method[q] # NOCACHE
       PROVE  c.method[q] = Answer(c, q)
  <2>1. c.method[q] = m.method[q] /\ q # p /\ q \notin m.isarev[p] /\ ~IsUniversal(n, p)
    BY <1>12, <1>16
  <2>2. m.sub[q] = 0
    BY <1>6, <1>12, <1>16, <2>1
  <2>3. m.method[q] = Answer(m, q)
    BY <1>16, <2>1, <2>2 DEF MroInv, MethodsCurrent
  <2> QED BY <1>13, <2>1, <2>3
<1>17. ASSUME NEW q \in Package \ c.moved, c.destroy[q] # NOCACHE
       PROVE  c.destroy[q] = Answer(c, q)
  <2>1. /\ c.destroy[q] = m.destroy[q] /\ q # p /\ q \notin m.isarev[p] /\ ~IsUniversal(n, p)
        /\ q \notin m.moved
    BY <1>12, <1>17
  <2>2. m.destroy[q] = Answer(m, q)
    BY <1>17, <2>1 DEF MroInv, DestroysCurrent
  <2> QED BY <1>13, <2>1, <2>2
<1>18. \A q \in Package : c.isa[q] \in Isas[q] \cup {<< >>}
  BY <1>12 DEF MroInv
<1> QED
  BY <1>3, <1>10, <1>14, <1>15, <1>16, <1>17, <1>18 DEF MroInv, MethodsCurrent, DestroysCurrent

\* The first half of mro_isa_changed_in(): everything is wiped that could be
\* wrong, or else noted as moved.
Told(m, p) == {p} \cup m.isarev[p]
Gone(m, p) == IF IsUniversal(m, p) THEN AllForgotten(m)
              ELSE DestroysForgotten(MethodsForgotten(m, Told(m, p)), {p})
WipedFor(m, p) ==
  [Wiped(Gone(m, p), p) EXCEPT !.moved = @ \cup {q \in m.isarev[p] : Gone(m, p).destroy[q] # NOCACHE}]

LEMMA WipedIs ==
  ASSUME NEW m, MroInv(m), NEW p \in Package, NEW isa, Ordinary(isa),
         NEW s \in Seq(Package), isa = [m.isa EXCEPT ![p] = s],
         NEW n, n = [m EXCEPT !.isa = isa],
         NEW told, told = Told(n, p), NEW wiped, wiped = WipedFor(n, p)
  PROVE  /\ Base(wiped) /\ MethodsCurrent(wiped) /\ DestroysCurrent(wiped)
         /\ wiped.isa = isa /\ wiped.isarev = m.isarev
         /\ \A q \in Package \ told : Plain(isa)[q] = Plain(m.isa)[q]
<1>1. m \in Mros /\ Base(m) /\ Ordinary(m.isa) /\ LinesCurrent(m) /\ isa \in IsaTables
  BY DEF MroInv, Base, Ordinary
<1>2. /\ m.sub \in Subs /\ m.linear \in Linears /\ m.isarev[p] \subseteq Package
      /\ UNIVERSAL \in Package
  BY <1>1, MroFields, Distinguished
<1>3. /\ n \in Mros /\ n.isa = isa /\ n.sub = m.sub /\ n.linear = m.linear /\ n.isarev = m.isarev
      /\ n.method = m.method /\ n.destroy = m.destroy /\ n.moved = m.moved
  BY <1>1 DEF Mros
<1>4. told = {p} \cup m.isarev[p] /\ told \subseteq Package
  BY <1>2, <1>3 DEF Told
<1>gone. PICK gone : gone = Gone(n, p)
  OBVIOUS
<1>5. \/ Forgotten(n, gone, Package, Package)
      \/ ~IsUniversal(n, p) /\ Forgotten(n, gone, told, {p})
  <2>1. gone = IF IsUniversal(n, p) THEN AllForgotten(n)
               ELSE DestroysForgotten(MethodsForgotten(n, told), {p})
    BY <1>gone DEF Gone
  <2> QED BY <1>3, <1>4, <2>1, ForgottenIs
<1>6. /\ gone \in Mros /\ gone.isa = isa /\ gone.sub = m.sub /\ gone.linear = m.linear
      /\ gone.isarev = m.isarev
      /\ \A q \in Package : gone.method[q] # NOCACHE =>
           gone.method[q] = m.method[q] /\ q \notin told /\ ~IsUniversal(n, p)
      /\ \A q \in Package : gone.destroy[q] # NOCACHE =>
           /\ gone.destroy[q] = m.destroy[q] /\ q # p /\ ~IsUniversal(n, p)
           /\ q \in gone.moved <=> q \in m.moved
  <2>1. CASE Forgotten(n, gone, Package, Package)
    <3>1. \A q \in Package : gone.method[q] = NOCACHE /\ gone.destroy[q] = NOCACHE
      BY <2>1 DEF Forgotten
    <3> QED BY <1>3, <2>1, <3>1 DEF Forgotten
  <2>2. CASE ~IsUniversal(n, p) /\ Forgotten(n, gone, told, {p})
    <3>1. Forgotten(n, gone, told, {p})
      BY <2>2
    <3>2. \A q \in Package : gone.method[q] # NOCACHE => gone.method[q] = m.method[q] /\ q \notin told
      BY <1>3, <3>1 DEF Forgotten
    <3>3. \A q \in Package : gone.destroy[q] # NOCACHE =>
            gone.destroy[q] = m.destroy[q] /\ q # p /\ (q \in gone.moved <=> q \in m.moved)
      BY <1>3, <3>1 DEF Forgotten
    <3>4. /\ gone \in Mros /\ gone.isa = isa /\ gone.sub = m.sub /\ gone.linear = m.linear
          /\ gone.isarev = m.isarev
      BY <1>3, <3>1 DEF Forgotten
    <3> QED BY <2>2, <3>2, <3>3, <3>4
  <2> QED BY <1>5, <2>1, <2>2
<1>7. PICK l : l = [q \in Package |-> IF q \in {p} \cup gone.isarev[p] THEN NOCACHE ELSE gone.linear[q]]
  OBVIOUS
<1>8. /\ l \in Linears /\ \A q \in Package \ told : l[q] = m.linear[q]
      /\ \A q \in told : l[q] = NOCACHE
  <2>1. {p} \cup gone.isarev[p] = told /\ gone.linear = m.linear
    BY <1>4, <1>6
  <2>2. l = [q \in Package |-> IF q \in told THEN NOCACHE ELSE m.linear[q]]
    BY <1>7, <2>1
  <2>3. l \in Linears
    BY <1>2, <2>2 DEF Linears
  <2> QED BY <1>4, <2>2, <2>3
<1>9. PICK moved : moved = gone.moved \cup {q \in n.isarev[p] : gone.destroy[q] # NOCACHE}
  OBVIOUS
<1>10. moved \in SUBSET Package
  BY <1>2, <1>3, <1>6, <1>9, MroFields
<1>11. PICK w : w = Wiped(gone, p)
  OBVIOUS
<1>12. w = [gone EXCEPT !.linear = l]
  BY <1>7, <1>11 DEF Wiped
<1>13. w.moved = gone.moved /\ w \in Mros
  BY <1>6, <1>8, <1>12 DEF Mros
<1>14. wiped = [w EXCEPT !.moved = moved]
  BY <1>gone, <1>9, <1>11, <1>13 DEF WipedFor
<1>15. /\ wiped \in Mros /\ wiped.isa = isa /\ wiped.sub = m.sub /\ wiped.linear = l
       /\ wiped.isarev = m.isarev /\ wiped.method = gone.method /\ wiped.destroy = gone.destroy
       /\ wiped.moved = moved
  <2>1. /\ w.isa = isa /\ w.sub = m.sub /\ w.linear = l
        /\ w.isarev = m.isarev /\ w.method = gone.method /\ w.destroy = gone.destroy
    BY <1>6, <1>12 DEF Mros
  <2> QED BY <1>10, <1>13, <1>14, <2>1 DEF Mros
<1>16. ASSUME NEW q \in Package \ told
       PROVE  Plain(isa)[q] = Plain(m.isa)[q]
  <2>1. p \notin ToSet(Plain(m.isa)[q])
    BY <1>4, <1>16, HeirsHave
  <2> QED BY <1>1, <2>1, OthersKeep
<1>17. LinesCurrent(wiped)
  <2>1. ASSUME NEW q \in Package
        PROVE  l[q] = NOCACHE \/ l[q] = Plain(isa)[q]
    <3>1. CASE q \in told
      BY <1>8, <3>1
    <3>2. CASE q \in Package \ told
      <4>1. l[q] = m.linear[q] /\ Plain(isa)[q] = Plain(m.isa)[q]
        BY <1>8, <1>16, <3>2
      <4> QED BY <1>1, <4>1 DEF LinesCurrent
    <3> QED BY <3>1, <3>2
  <2> QED BY <1>15, <2>1 DEF LinesCurrent
<1>18. ASSUME NEW q \in Package \ told, ~IsUniversal(n, p)
       PROVE  Answer(wiped, q) = Answer(m, q)
  <2>1. UNIVERSAL \in Package \ told
    BY <1>2, <1>3, <1>4, <1>18 DEF IsUniversal
  <2>2. Plain(isa)[q] = Plain(m.isa)[q] /\ Plain(isa)[UNIVERSAL] = Plain(m.isa)[UNIVERSAL]
    <3>1. \A x \in Package \ told : Plain(isa)[x] = Plain(m.isa)[x]
      BY <1>16
    <3> QED BY <1>18, <2>1, <3>1
  <2> QED BY <1>1, <1>2, <1>15, <2>2, AnswerSame
<1>19. ASSUME NEW q \in Package, wiped.sub[q] = 0, wiped.method[q] # NOCACHE
       PROVE  wiped.method[q] = Answer(wiped, q)
  <2>1. wiped.method[q] = m.method[q] /\ q \notin told /\ ~IsUniversal(n, p) /\ m.sub[q] = 0
    <3>1. wiped.method[q] = gone.method[q] /\ m.sub[q] = 0
      BY <1>15, <1>19
    <3> QED BY <1>6, <1>19, <3>1
  <2>2. m.method[q] = Answer(m, q)
    BY <1>19, <2>1 DEF MroInv, MethodsCurrent
  <2> QED BY <1>18, <2>1, <2>2
<1>20. ASSUME NEW q \in Package \ wiped.moved, wiped.destroy[q] # NOCACHE
       PROVE  wiped.destroy[q] = Answer(wiped, q)
  <2>1. wiped.destroy[q] = gone.destroy[q] /\ q \notin moved
    BY <1>15, <1>20
  <2>2. wiped.destroy[q] = m.destroy[q] /\ q # p /\ ~IsUniversal(n, p) /\ q \notin m.moved
    BY <1>6, <1>9, <1>20, <2>1
  <2>3. q \notin m.isarev[p]
    BY <1>3, <1>9, <1>20, <2>1
  <2>4. m.destroy[q] = Answer(m, q)
    BY <1>20, <2>2 DEF MroInv, DestroysCurrent
  <2> QED BY <1>4, <1>18, <2>2, <2>3, <2>4
<1> QED BY <1>15, <1>16, <1>17, <1>19, <1>20 DEF Base, MethodsCurrent, DestroysCurrent

\* The second half.
LEMMA RegisteredKeeps ==
  ASSUME NEW m, MroInv(m), NEW told \in SUBSET Package,
         NEW w, Base(w), MethodsCurrent(w), DestroysCurrent(w), w.isarev = m.isarev,
         \A q \in Package \ told : Plain(w.isa)[q] = Plain(m.isa)[q],
         \A q \in Package : w.isa[q] \in Isas[q] \cup {<< >>}
  PROVE  MroInv(Registered(Linearized(w, told), told, m.linear))
<1>1. PICK l : l = Linearized(w, told)
  OBVIOUS
<1>2. /\ Base(l) /\ l = [w EXCEPT !.linear = l.linear]
      /\ \A q \in told : l.linear[q] = Plain(w.isa)[q]
  BY <1>1, LinearizedIs
<1>3. /\ w \in Mros /\ l \in Mros /\ LinesCurrent(l) /\ Ordinary(w.isa)
      /\ m \in Mros
  BY <1>2 DEF Base, MroInv
<1>4. /\ l.isa = w.isa /\ l.sub = w.sub /\ l.isarev = m.isarev /\ l.method = w.method
      /\ l.destroy = w.destroy /\ l.moved = w.moved
  BY <1>2, <1>3 DEF Mros
<1>5. m.isarev \in [Package -> SUBSET Package] /\ m.linear \in Linears
  BY <1>3, MroFields
<1> DEFINE Was(q) == IF m.linear[q] = NOCACHE THEN {} ELSE Ancestors(m.linear[q]) \ {UNIVERSAL}
           Rev == [a \in Package |->
                     (l.isarev[a] \ {q \in told : a \in Was(q)})
                       \cup {q \in told : a \in Ancestors(l.linear[q])}]
<1>6. PICK rev : rev = Rev
  OBVIOUS
<1>7. PICK r : r = Registered(l, told, m.linear)
  OBVIOUS
<1>8. r = [l EXCEPT !.isarev = rev]
  BY <1>6, <1>7 DEF Registered
<1> HIDE DEF Was
<1>9. /\ rev \in [Package -> SUBSET Package]
      /\ \A a \in Package : \A q \in Package :
           /\ q \notin told => (q \in rev[a] <=> q \in m.isarev[a])
           /\ q \in told /\ a \in Ancestors(l.linear[q]) => q \in rev[a]
  <2>1. \A a \in Package :
          rev[a] = (m.isarev[a] \ {q \in told : a \in Was(q)})
                     \cup {q \in told : a \in Ancestors(l.linear[q])}
    BY <1>4, <1>6
  <2>2. \A a \in Package : rev[a] \subseteq Package
    BY <1>5, <2>1
  <2>3. rev \in [Package -> SUBSET Package]
    BY <1>6, <2>2
  <2> QED BY <2>1, <2>3
<1>10. /\ r \in Mros /\ r.isa = w.isa /\ r.sub = w.sub /\ r.linear = l.linear /\ r.isarev = rev
       /\ r.method = w.method /\ r.destroy = w.destroy /\ r.moved = w.moved
  BY <1>3, <1>4, <1>8, <1>9 DEF Mros
<1>11. Base(r)
  BY <1>3, <1>4, <1>10 DEF Base, LinesCurrent
<1>12. ASSUME NEW q \in Package, NEW a \in Ancestors(Plain(w.isa)[q])
       PROVE  q \in r.isarev[a]
  <2>1. a \in Package
    <3>1. Good(q, Plain(w.isa)[q])
      BY <1>3, PlainIs
    <3> QED BY <1>12, <3>1, AncestorsIs
  <2>2. CASE q \in told
    <3>1. a \in Ancestors(l.linear[q])
      BY <1>2, <1>12, <2>2
    <3> QED BY <1>9, <1>10, <2>1, <2>2, <3>1
  <2>3. CASE q \notin told
    <3>1. a \in Ancestors(Plain(m.isa)[q])
      BY <1>12, <2>3
    <3>2. q \in m.isarev[a]
      BY <3>1 DEF MroInv, HeirsKnown
    <3> QED BY <1>9, <1>10, <2>1, <2>3, <3>2
  <2> QED BY <2>2, <2>3
<1>13. HeirsKnown(r)
  BY <1>10, <1>12 DEF HeirsKnown
<1>14. \A q \in Package : Answer(r, q) = Answer(w, q)
  BY <1>10 DEF Answer, InLine
<1>15. MethodsCurrent(r) /\ DestroysCurrent(r)
  BY <1>10, <1>14 DEF MethodsCurrent, DestroysCurrent
<1>16. \A q \in Package : r.isa[q] \in Isas[q] \cup {<< >>}
  BY <1>10
<1> QED BY <1>1, <1>7, <1>11, <1>13, <1>15, <1>16 DEF MroInv

\* @p::ISA = s
LEMMA IsaKeeps ==
  ASSUME NEW m, MroInv(m), NEW p \in Package, NEW s \in Isas[p],
         Ordinary([m.isa EXCEPT ![p] = s])
  PROVE  MroInv(IsaChanged([m EXCEPT !.isa[p] = s], p))
<1>1. m \in Mros /\ m.isa \in IsaTables /\ s \in Seq(Package)
  BY MroFields, MroAssumption DEF MroInv, Base
<1>2. PICK isa : isa = [m.isa EXCEPT ![p] = s]
  OBVIOUS
<1>3. PICK n : n = [m EXCEPT !.isa = isa]
  OBVIOUS
<1>4. n = [m EXCEPT !.isa[p] = s] /\ n.isarev = m.isarev /\ n.linear = m.linear
  BY <1>1, <1>2, <1>3 DEF Mros
<1>5. PICK told : told = Told(n, p)
  OBVIOUS
<1>7. PICK w : w = WipedFor(n, p)
  OBVIOUS
<1>8. /\ Base(w) /\ MethodsCurrent(w) /\ DestroysCurrent(w)
      /\ w.isa = isa /\ w.isarev = m.isarev
      /\ \A q \in Package \ told : Plain(isa)[q] = Plain(m.isa)[q]
  BY <1>1, <1>2, <1>3, <1>5, <1>7, WipedIs
<1>9. told \in SUBSET Package
  BY <1>1, <1>4, <1>5, MroFields DEF Told
<1>10. \A q \in told : ~IsCyclic(w, q)
  <2> SUFFICES ASSUME NEW q \in told
               PROVE  ~IsCyclic(w, q)
    OBVIOUS
  <2>1. w \in Mros /\ Ordinary(w.isa) /\ LinesCurrent(w) /\ q \in Package /\ w.linear \in Linears
    BY <1>8, <1>9, MroFields DEF Base
  <2>2. Linear(w.linear, w.isa)[q] = Plain(w.isa)[q]
    BY <2>1, CachedIsPlain DEF LinesCurrent
  <2>3. Plain(w.isa)[q] # CYCLE
    BY <2>1 DEF Ordinary
  <2> QED BY <2>2, <2>3 DEF IsCyclic
<1>11. IsaChanged(n, p) = Registered(Linearized(w, told), told, m.linear)
  <2>1. IsaChanged(n, p) = IF \E q \in Told(n, p) : IsCyclic(WipedFor(n, p), q) THEN WipedFor(n, p)
                           ELSE Registered(Linearized(WipedFor(n, p), Told(n, p)), Told(n, p), n.linear)
    BY DEF IsaChanged, Told, Gone, WipedFor
  <2> QED BY <1>4, <1>5, <1>7, <1>10, <2>1
<1>12. \A q \in Package : isa[q] \in Isas[q] \cup {<< >>}
  BY <1>1, <1>2 DEF MroInv, IsaTables
<1>13. MroInv(Registered(Linearized(w, told), told, m.linear))
  BY <1>8, <1>9, <1>12, RegisteredKeeps
<1> QED BY <1>4, <1>11, <1>13

-----------------------------------------------------------------------------
(* Packages.                                                               *)

\* No @ISA names UNIVERSAL.
UnnamedUNIVERSAL ==
  \A p \in Package : \A s \in Isas[p] : \A i \in 1 .. Len(s) : s[i] # UNIVERSAL

MroInvariant == MroInv(mro) /\ changes \in 0 .. MaxChanges

LEMMA BoundsAre == MaxChanges \in Nat /\ MaxVersion \in Nat
BY MroAssumption

LEMMA MroStart == MroInit => MroInvariant
<1> SUFFICES ASSUME MroInit
             PROVE  MroInvariant
  OBVIOUS
<1>1. PICK isa : isa = All(<< >>)
  OBVIOUS
<1>2. isa \in IsaTables /\ \A p \in Package : isa[p] = << >>
  <2>1. << >> \in Seq(Package)
    BY EmptySeq
  <2> QED BY <1>1, <2>1 DEF IsaTables, All
<1>3. Ordinary(isa) /\ \A p \in Package : Ancestors(Plain(isa)[p]) = {}
  BY <1>2, PlainAtStart
<1>4. All(NOCACHE) \in Linears /\ All(0) \in Subs /\ All(NOCACHE) \in [Package -> Cached]
  BY BoundsAre DEF All, Linears, Subs, Cached
<1>5. All({}) \in [Package -> SUBSET Package]
  BY DEF All
<1>6. \A p \in Package : All(NOCACHE)[p] = NOCACHE
  BY DEF All
<1>7. mro = [isa |-> isa, sub |-> All(0), linear |-> All(NOCACHE), isarev |-> All({}),
             method |-> All(NOCACHE), destroy |-> All(NOCACHE), moved |-> {}]
  BY <1>1 DEF MroInit
<1>8. /\ mro \in Mros /\ mro.isa = isa /\ mro.linear = All(NOCACHE)
      /\ mro.method = All(NOCACHE) /\ mro.destroy = All(NOCACHE)
  BY <1>2, <1>4, <1>5, <1>7 DEF Mros
<1>9. Base(mro)
  BY <1>3, <1>6, <1>8 DEF Base, LinesCurrent
<1>10. HeirsKnown(mro)
  BY <1>3, <1>8 DEF HeirsKnown
<1>11. MethodsCurrent(mro) /\ DestroysCurrent(mro)
  BY <1>6, <1>8 DEF MethodsCurrent, DestroysCurrent
<1>12. \A p \in Package : mro.isa[p] \in Isas[p] \cup {<< >>}
  BY <1>2, <1>8
<1>13. changes \in 0 .. MaxChanges
  BY BoundsAre DEF MroInit
<1> QED BY <1>9, <1>10, <1>11, <1>12, <1>13 DEF MroInvariant, MroInv

\* A new @ISA that makes no circle.
LEMMA SetIsaOrdinary ==
  ASSUME UnnamedUNIVERSAL, NEW m, MroInv(m), NEW p \in Package, NEW s \in Isas[p],
         CYCLE \notin Range(Linear(All(NOCACHE), [m.isa EXCEPT ![p] = s]))
  PROVE  Ordinary([m.isa EXCEPT ![p] = s])
<1>1. m.isa \in IsaTables /\ s \in Seq(Package) /\ Ordinary(m.isa)
  BY MroFields, MroAssumption DEF MroInv, Base
<1>2. PICK isa : isa = [m.isa EXCEPT ![p] = s]
  OBVIOUS
<1>3. isa \in IsaTables /\ isa[p] = s /\ \A q \in Package : q # p => isa[q] = m.isa[q]
  BY <1>1, <1>2 DEF IsaTables
<1>4. PICK line : line = Linear(All(NOCACHE), isa)
  OBVIOUS
<1>5. PICK d : Depths(All(NOCACHE), isa, d)
  BY <1>3, NoneCached, DepthsExist
<1>6. line \in [Package -> Known]
  BY <1>4, <1>5, Depth DEF Depths
<1>7. Range(line) = {line[q] : q \in Package}
  BY <1>6 DEF Range
<1>8. \A q \in Package : line[q] # CYCLE
  BY <1>2, <1>4, <1>7
<1>9. ASSUME NEW q \in Package, NEW i \in 1 .. Len(isa[q])
      PROVE  isa[q][i] # UNIVERSAL
  <2>1. CASE q = p
    BY <1>3, <1>9, <2>1 DEF UnnamedUNIVERSAL
  <2>2. CASE q # p
    BY <1>1, <1>3, <1>9, <2>2 DEF Ordinary
  <2> QED BY <2>1, <2>2
<1> QED BY <1>2, <1>3, <1>4, <1>8, <1>9 DEF Ordinary, Plain

LEMMA MroStep ==
  ASSUME ~Cycles, UnnamedUNIVERSAL, MroInvariant, MroNext
  PROVE  MroInvariant'
<1>1. MroInv(mro) /\ changes \in 0 .. MaxChanges /\ MaxChanges \in Nat
  BY BoundsAre DEF MroInvariant
<1>2. ASSUME NEW p \in Package, NEW s \in Isas[p], SetIsa(p, s)
      PROVE  MroInvariant'
  <2>1. PICK m : m = [mro EXCEPT !.isa[p] = s]
    OBVIOUS
  <2>2. mro \in Mros
    BY <1>1 DEF MroInv, Base
  <2>3. m.isa = [mro.isa EXCEPT ![p] = s]
    BY <2>1, <2>2 DEF Mros
  <2>4. CYCLE \notin Range(Linear(All(NOCACHE), [mro.isa EXCEPT ![p] = s]))
    BY <1>2, <2>1, <2>3 DEF SetIsa
  <2>5. Ordinary([mro.isa EXCEPT ![p] = s])
    BY <1>1, <2>4, SetIsaOrdinary
  <2>6. MroInv(IsaChanged(m, p))
    BY <1>1, <2>1, <2>5, IsaKeeps
  <2>7. mro' = IsaChanged(m, p) /\ changes' \in 0 .. MaxChanges
    BY <1>1, <1>2, <2>1 DEF SetIsa
  <2>8. MroInv(mro')
    BY <2>6, <2>7
  <2> QED BY <2>7, <2>8 DEF MroInvariant, MroInv, Base, HeirsKnown, MethodsCurrent, DestroysCurrent,
                            LinesCurrent, Answer
<1>3. ASSUME NEW p \in Package, NEW v \in 0 .. MaxVersion,
             mro' = MethodChanged([mro EXCEPT !.sub[p] = v, !.method[p] = NOCACHE], p),
             changes < MaxChanges, changes' = changes + 1
      PROVE  MroInvariant'
  <2>1. MroInv(mro')
    BY <1>1, <1>3, SubKeeps
  <2>2. changes' \in 0 .. MaxChanges
    BY <1>1, <1>3
  <2> QED BY <2>1, <2>2 DEF MroInvariant
<1>4. ASSUME NEW p \in Package, NEW v \in 1 .. MaxVersion, Define(p, v)
      PROVE  MroInvariant'
  <2>1. v \in 0 .. MaxVersion
    BY BoundsAre
  <2> QED BY <1>3, <1>4, <2>1 DEF Define
<1>5. ASSUME NEW p \in Package, Delete(p)
      PROVE  MroInvariant'
  <2>1. 0 \in 0 .. MaxVersion
    BY BoundsAre
  <2> QED BY <1>3, <1>5, <2>1 DEF Delete
<1>6. ASSUME NEW p \in Package, MethodCall(p)
      PROVE  MroInvariant'
  <2>1. MroInv(Fetch(mro, p))
    BY <1>1, FetchKeeps
  <2>2. MroInv(mro')
    BY <1>6, <2>1 DEF MethodCall
  <2> QED BY <1>1, <1>6, <2>2 DEF MethodCall, MroInvariant
<1>7. ASSUME NEW p \in Package, DestroyObject(p)
      PROVE  MroInvariant'
  <2>1. PICK m : m = Fetch(mro, p)
    OBVIOUS
  <2>2. MroInv(m) /\ Looked(mro, m) /\ Result(m, p) = Answer(mro, p)
    BY <1>1, <2>1, FetchKeeps
  <2>3. PICK kept : kept = [m EXCEPT !.destroy[p] = Result(m, p)]
    OBVIOUS
  <2>4. PICK again : again = [kept EXCEPT !.method[p] = mro.method[p]]
    OBVIOUS
  <2>5. mro' \in {kept, again} /\ changes' = changes
    BY <1>7, <2>1, <2>3, <2>4 DEF DestroyObject
  <2>6. /\ mro \in Mros /\ m \in Mros /\ m.isa = mro.isa /\ m.sub = mro.sub /\ Ordinary(m.isa)
        /\ mro.method \in [Package -> Cached] /\ m.method \in [Package -> Cached]
        /\ m.destroy \in [Package -> Cached] /\ m.sub \in Subs
    BY <1>1, <2>2, MroFields DEF MroInv, Base, Looked
  <2>7. Answer(m, p) = Answer(mro, p) /\ Answer(m, p) \in Cached
    <3>1. Answer(m, p) = Answer(mro, p)
      BY <2>6 DEF Answer, InLine
    <3> QED BY <2>6, <3>1, AnswerParts
  <2>8. PICK e \in [Package -> Cached] : e = [m.destroy EXCEPT ![p] = Answer(m, p)]
    BY <2>6, <2>7
  <2>9. kept = [m EXCEPT !.destroy = e]
    BY <2>2, <2>3, <2>6, <2>7, <2>8 DEF Mros
  <2>10. /\ kept \in Mros /\ kept.isa = m.isa /\ kept.sub = m.sub /\ kept.linear = m.linear
         /\ kept.isarev = m.isarev /\ kept.method = m.method /\ kept.destroy = e
         /\ kept.moved = m.moved
    BY <2>6, <2>8, <2>9 DEF Mros
  <2>11. \A q \in Package : Answer(kept, q) = Answer(m, q)
    BY <2>10 DEF Answer, InLine
  <2>12. DestroysCurrent(kept)
    <3>1. ASSUME NEW q \in Package \ kept.moved, kept.destroy[q] # NOCACHE
          PROVE  kept.destroy[q] = Answer(kept, q)
      <4>1. CASE q = p
        BY <2>6, <2>8, <2>10, <2>11, <4>1
      <4>2. CASE q # p
        <5>1. e[q] = m.destroy[q]
          BY <2>6, <2>8, <4>2
        <5> QED BY <2>2, <2>10, <2>11, <3>1, <5>1 DEF MroInv, DestroysCurrent
      <4> QED BY <4>1, <4>2
    <3> QED BY <3>1 DEF DestroysCurrent
  <2>13. MroInv(kept)
    <3>1. Base(kept) /\ HeirsKnown(kept) /\ MethodsCurrent(kept)
      BY <2>2, <2>10, <2>11 DEF MroInv, Base, LinesCurrent, HeirsKnown, MethodsCurrent
    <3> QED BY <2>2, <2>10, <2>12, <3>1 DEF MroInv
  <2>14. PICK f \in [Package -> Cached] : f = [m.method EXCEPT ![p] = mro.method[p]]
    BY <2>6
  <2>15. again = [kept EXCEPT !.method = f]
    BY <2>4, <2>10, <2>14 DEF Mros
  <2>16. /\ again \in Mros /\ again.isa = m.isa /\ again.sub = m.sub /\ again.linear = m.linear
         /\ again.isarev = m.isarev /\ again.method = f /\ again.destroy = e
         /\ again.moved = m.moved
    BY <2>10, <2>14, <2>15 DEF Mros
  <2>17. \A q \in Package : Answer(again, q) = Answer(m, q) /\ Answer(mro, q) = Answer(m, q)
    BY <2>6, <2>16 DEF Answer, InLine
  <2>18. MethodsCurrent(again)
    <3>1. ASSUME NEW q \in Package, again.sub[q] = 0, again.method[q] # NOCACHE
          PROVE  again.method[q] = Answer(again, q)
      <4>1. CASE q = p
        <5>1. again.method[q] = mro.method[q] /\ mro.sub[q] = 0
          BY <2>6, <2>14, <2>16, <3>1, <4>1
        <5> QED BY <1>1, <2>17, <3>1, <5>1 DEF MroInv, MethodsCurrent
      <4>2. CASE q # p
        <5>1. again.method[q] = m.method[q] /\ m.sub[q] = 0
          BY <2>6, <2>14, <2>16, <3>1, <4>2
        <5> QED BY <2>2, <2>17, <3>1, <5>1 DEF MroInv, MethodsCurrent
      <4> QED BY <4>1, <4>2
    <3> QED BY <3>1 DEF MethodsCurrent
  <2>19. MroInv(again)
    <3>1. DestroysCurrent(again)
      BY <2>10, <2>11, <2>12, <2>16, <2>17 DEF DestroysCurrent
    <3>2. Base(again) /\ HeirsKnown(again)
      BY <2>2, <2>16 DEF MroInv, Base, LinesCurrent, HeirsKnown
    <3> QED BY <2>2, <2>16, <2>18, <3>1, <3>2 DEF MroInv
  <2>20. MroInv(mro')
    BY <2>5, <2>13, <2>19
  <2> QED BY <1>1, <2>5, <2>20 DEF MroInvariant
<1> QED BY <1>2, <1>4, <1>5, <1>6, <1>7 DEF MroNext

LEMMA MroMeaning == MroInvariant => MroTypeOK /\ CachesAreCurrent
<1> SUFFICES ASSUME MroInvariant
             PROVE  MroTypeOK /\ CachesAreCurrent
  OBVIOUS
<1>1. /\ MroInv(mro) /\ changes \in 0 .. MaxChanges /\ mro \in Mros /\ Ordinary(mro.isa)
      /\ LinesCurrent(mro)
  BY DEF MroInvariant, MroInv, Base
<1>2. ASSUME NEW p \in Package, mro.linear[p] # NOCACHE
      PROVE  mro.linear[p] \in Seq(Package) /\ Head(mro.linear[p]) = p /\ IsInjective(mro.linear[p])
  <2>1. mro.linear[p] = Plain(mro.isa)[p]
    BY <1>1, <1>2 DEF LinesCurrent
  <2>2. Good(p, mro.linear[p])
    BY <1>1, <2>1, PlainIs
  <2> QED BY <2>2, AncestorsIs DEF Good
<1>3. MroTypeOK
  BY <1>1, <1>2, MroFields DEF MroTypeOK, MroInv, Subs
<1>4. Uncached = Plain(mro.isa)
  BY DEF Uncached, Plain
<1>5. \A p \in Package : Found(Uncached, p) = Answer(mro, p)
  BY <1>4 DEF Found, Answer
<1>6. Resolvable(Uncached) \subseteq Package
  BY DEF Resolvable
<1>7. CallIsCurrent
  BY <1>1, <1>5, <1>6 DEF CallIsCurrent, MroInv, MethodsCurrent
<1>8. HeirsAreKnown
  BY <1>1, <1>4, <1>6 DEF HeirsAreKnown, MroInv, HeirsKnown
<1>9. DestroyIsCurrentUnlessMoved
  BY <1>1, <1>5, <1>6 DEF DestroyIsCurrentUnlessMoved, MroInv, DestroysCurrent
<1> QED BY <1>3, <1>7, <1>8, <1>9 DEF CachesAreCurrent

LEMMA MroIsSound ==
  ASSUME ~Cycles, UnnamedUNIVERSAL
  PROVE  MroSpec => []MroInvariant
<1>1. MroInit => MroInvariant
  BY MroStart
<1>2. MroInvariant /\ [MroNext]_mro_vars => MroInvariant'
  <2> SUFFICES ASSUME MroInvariant, [MroNext]_mro_vars
               PROVE  MroInvariant'
    OBVIOUS
  <2>1. CASE MroNext
    BY <2>1, MroStep
  <2>2. CASE UNCHANGED mro_vars
    BY <2>2 DEF mro_vars, MroInvariant
  <2> QED BY <2>1, <2>2
<1> QED BY <1>1, <1>2, PTL DEF MroSpec

\* Whatever has been called before, a call finds the method that @ISA and the
\* packages have now, a change is told to all that inherit, and a cached DESTROY
\* is the one there is unless the @ISA of an ancestor has changed.  No package
\* inherits from itself, and no @ISA names UNIVERSAL.
THEOREM AnswersAreCurrent ==
  ASSUME ~Cycles, UnnamedUNIVERSAL
  PROVE  MroSpec => []CachesAreCurrent
<1>1. MroSpec => []MroInvariant
  BY MroIsSound
<1>2. MroInvariant => CachesAreCurrent
  BY MroMeaning
<1> QED BY <1>1, <1>2, PTL

\* Whatever is cached is of its type, and a cached linearization starts with its
\* package and has no package twice.
THEOREM MroTypes ==
  ASSUME ~Cycles, UnnamedUNIVERSAL
  PROVE  MroSpec => []MroTypeOK
<1>1. MroSpec => []MroInvariant
  BY MroIsSound
<1>2. MroInvariant => MroTypeOK
  BY MroMeaning
<1> QED BY <1>1, <1>2, PTL

-----------------------------------------------------------------------------
(* References and packages, one used and the other at rest.                *)

\* In the specification that the run checks, values and packages have their
\* types, whichever is used.
THEOREM ObjectTypes ==
  ASSUME ~Cycles, UnnamedUNIVERSAL
  PROVE  MCSpec => []TypesOK
<1>1. MCInit => HeapInv(heap) /\ MroInvariant
  BY InitHeap, MroStart DEF MCInit
<1>2. HeapInv(heap) /\ MroInvariant /\ [MCNext]_<<used, heap, mro_vars>>
        => (HeapInv(heap) /\ MroInvariant)'
  <2> SUFFICES ASSUME HeapInv(heap), MroInvariant, [MCNext]_<<used, heap, mro_vars>>
               PROVE  HeapInv(heap') /\ MroInvariant'
    OBVIOUS
  <2>1. UNCHANGED heap => HeapInv(heap')
    OBVIOUS
  <2>2. UNCHANGED mro_vars => MroInvariant'
    BY DEF mro_vars, MroInvariant
  <2>3. CASE SvNext /\ UNCHANGED mro_vars
    BY <2>2, <2>3, NextHeap
  <2>4. CASE MroNext /\ UNCHANGED heap
    BY <2>1, <2>4, MroStep
  <2>5. CASE UNCHANGED <<used, heap, mro_vars>>
    BY <2>1, <2>2, <2>5
  <2> QED
    BY <2>3, <2>4, <2>5 DEF MCNext
<1>3. HeapInv(heap) /\ MroInvariant => TypesOK
  BY HeapMeaning, MroMeaning DEF TypesOK
<1> QED
  BY <1>1, <1>2, <1>3, PTL DEF MCSpec

=============================================================================
