----------------------------- MODULE Threads_proofs -----------------------------
(***************************************************************************)
(* What TLAPS proves of Ithreads: for any number of threads, the counter   *)
(* of a structure is the number of its references, the counters of the     *)
(* pool are right, and nothing is freed while a thread will use it.        *)
(***************************************************************************)
EXTENDS Ithreads, SequenceTheorems, FiniteSetTheorems, TLAPS

-----------------------------------------------------------------------------
(* Stacks of frames.                                                       *)

FrameSet == [at : Places, on : Actors]
InSeq(s) == {s[i] : i \in 1 .. Len(s)}

\* Frames that are the last of a stack, and frames that are the first.
BottomPlaces == {"clone", "start", "unpool", "finish", "exit", "joined", "pthread_join",
                 "detach", "detached", "free"}
TopPlaces == {"take", "term"}

\* No frame is there twice; a thread that clears an interpreter will then give
\* a reference up, or the structure.
Distinct(s) == \A i, j \in 1 .. Len(s) : s[i] = s[j] => i = j
BottomLast(s) == \A i \in 1 .. Len(s) : s[i].at \in BottomPlaces => i = Len(s)
TopFirst(s) == \A i \in 1 .. Len(s) : s[i].at \in TopPlaces => i = 1
ClearThenFrees(s) ==
  \A i \in 1 .. Len(s) :
    s[i].at = "clear" =>
      i < Len(s) /\ s[i + 1] \in {Frame("free", s[i].on), Frame("destroy", s[i].on)}
Shape(s) == Distinct(s) /\ BottomLast(s) /\ TopFirst(s) /\ ClearThenFrees(s)

NoTop(s) == \A i \in 1 .. Len(s) : s[i].at \notin TopPlaces

LEMMA FrameIsFrame ==
  ASSUME NEW p \in Places, NEW t \in Actors
  PROVE  Frame(p, t) \in FrameSet /\ Frame(p, t).at = p /\ Frame(p, t).on = t
BY DEF Frame, FrameSet

LEMMA FramesDiffer ==
  \A p, q, t, u : Frame(p, t) = Frame(q, u) <=> p = q /\ t = u
BY DEF Frame

LEMMA TailShape ==
  ASSUME NEW s \in Seq(FrameSet), s # <<>>, Shape(s)
  PROVE  /\ Tail(s) \in Seq(FrameSet)
         /\ Shape(Tail(s)) /\ NoTop(Tail(s))
         /\ InSeq(Tail(s)) = InSeq(s) \ {Head(s)}
<1> HIDE DEF FrameSet
<1>1. /\ Tail(s) \in Seq(FrameSet) /\ Len(s) \in Nat /\ Len(s) > 0
      /\ Len(Tail(s)) = Len(s) - 1
      /\ \A i \in 1 .. Len(s) - 1 : Tail(s)[i] = s[i + 1]
  OBVIOUS
<1> DEFINE r == Tail(s)
<1> HIDE DEF r
<1>2. /\ Len(s) \in Nat /\ Len(s) > 0 /\ Len(r) = Len(s) - 1
      /\ \A i \in 1 .. Len(r) : r[i] = s[i + 1] /\ i + 1 \in 1 .. Len(s)
  BY <1>1 DEF r
<1>3. Distinct(r)
  BY <1>2 DEF Shape, Distinct
<1>4. BottomLast(r)
  BY <1>2 DEF Shape, BottomLast
<1>5. TopFirst(r) /\ NoTop(r)
  BY <1>2 DEF Shape, TopFirst, NoTop
<1>6. ClearThenFrees(r)
  <2> SUFFICES ASSUME NEW i \in 1 .. Len(r), r[i].at = "clear"
               PROVE  i < Len(r) /\ r[i + 1] \in {Frame("free", r[i].on), Frame("destroy", r[i].on)}
    BY DEF ClearThenFrees
  <2>1. i + 1 \in 1 .. Len(s) /\ r[i] = s[i + 1]
    BY <1>2
  <2>2. i + 1 < Len(s) /\ s[i + 2] \in {Frame("free", s[i + 1].on), Frame("destroy", s[i + 1].on)}
    BY <2>1 DEF Shape, ClearThenFrees
  <2>3. i < Len(r) /\ i + 1 \in 1 .. Len(r)
    BY <2>2, <1>2
  <2>4. r[i + 1] = s[i + 2]
    BY <2>3, <1>2
  <2> QED
    BY <2>1, <2>2, <2>3, <2>4
<1>7. InSeq(r) = InSeq(s) \ {Head(s)}
  <2>1. Head(s) = s[1] /\ 1 \in 1 .. Len(s)
    BY <1>2
  <2>2. ASSUME NEW i \in 1 .. Len(r) PROVE r[i] \in InSeq(s) /\ r[i] # s[1]
    BY <1>2, <2>1 DEF InSeq, Shape, Distinct
  <2>3. ASSUME NEW j \in 1 .. Len(s), s[j] # s[1] PROVE s[j] \in InSeq(r)
    <3>1. j - 1 \in 1 .. Len(r)
      BY <2>3, <1>2
    <3>2. r[j - 1] = s[j]
      BY <3>1, <1>2
    <3> QED
      BY <3>1, <3>2 DEF InSeq
  <2> QED
    BY <2>1, <2>2, <2>3 DEF InSeq
<1> QED
  BY <1>1, <1>3, <1>4, <1>5, <1>6, <1>7 DEF Shape, r

LEMMA EmptyShape == <<>> \in Seq(FrameSet) /\ Shape(<<>>) /\ NoTop(<<>>) /\ InSeq(<<>>) = {}
BY DEF Shape, Distinct, BottomLast, TopFirst, ClearThenFrees, NoTop, InSeq

LEMMA ConsFacts ==
  ASSUME NEW S, NEW s \in Seq(S), NEW f \in S
  PROVE  /\ <<f>> \o s \in Seq(S) /\ Len(<<f>> \o s) = Len(s) + 1 /\ Len(s) \in Nat
         /\ (<<f>> \o s)[1] = f
         /\ \A i \in 1 .. Len(s) : (<<f>> \o s)[i + 1] = s[i]
         /\ InSeq(<<f>> \o s) = InSeq(s) \cup {f}
<1>1. /\ <<f>> \o s \in Seq(S) /\ Len(<<f>> \o s) = Len(s) + 1 /\ Len(s) \in Nat
      /\ (<<f>> \o s)[1] = f
      /\ \A i \in 1 .. Len(s) : (<<f>> \o s)[i + 1] = s[i]
  OBVIOUS
<1> DEFINE r == <<f>> \o s
<1>2. /\ Len(r) = Len(s) + 1 /\ Len(s) \in Nat /\ r[1] = f
      /\ \A i \in 1 .. Len(s) : r[i + 1] = s[i]
  BY <1>1
<1> HIDE DEF r
<1>3. ASSUME NEW i \in 1 .. Len(r) PROVE r[i] \in InSeq(s) \cup {f}
  <2>1. CASE i = 1
    BY <2>1, <1>2
  <2>2. CASE i # 1
    <3>1. i - 1 \in 1 .. Len(s) /\ (i - 1) + 1 = i
      BY <2>2, <1>2
    <3>2. r[i] = s[i - 1]
      BY <3>1, <1>2
    <3> QED
      BY <3>1, <3>2 DEF InSeq
  <2> QED
    BY <2>1, <2>2
<1>4. ASSUME NEW i \in 1 .. Len(s) PROVE s[i] \in InSeq(r)
  <2>1. i + 1 \in 1 .. Len(r) /\ r[i + 1] = s[i]
    BY <1>2
  <2> QED
    BY <2>1 DEF InSeq
<1>5. f \in InSeq(r)
  <2>1. 1 \in 1 .. Len(r)
    BY <1>2
  <2> QED
    BY <2>1, <1>2 DEF InSeq
<1>6. InSeq(r) = InSeq(s) \cup {f}
  BY <1>3, <1>4, <1>5 DEF InSeq
<1> QED
  BY <1>1, <1>6 DEF r

\* A frame is put on a stack.
LEMMA ConsShape ==
  ASSUME NEW s \in Seq(FrameSet), Shape(s), NoTop(s), NEW f \in FrameSet,
         f \notin InSeq(s), f.at \in BottomPlaces => s = <<>>,
         f.at = "clear" =>
           s # <<>> /\ s[1] \in {Frame("free", f.on), Frame("destroy", f.on)}
  PROVE  /\ <<f>> \o s \in Seq(FrameSet)
         /\ Shape(<<f>> \o s)
         /\ f.at \notin TopPlaces => NoTop(<<f>> \o s)
         /\ InSeq(<<f>> \o s) = InSeq(s) \cup {f}
<1> HIDE DEF FrameSet
<1> DEFINE r == <<f>> \o s
<1>1. /\ r \in Seq(FrameSet) /\ Len(r) = Len(s) + 1 /\ Len(s) \in Nat /\ r[1] = f
      /\ \A i \in 1 .. Len(s) : r[i + 1] = s[i]
      /\ InSeq(r) = InSeq(s) \cup {f}
  BY ConsFacts
<1> HIDE DEF r
<1>2. \A i \in 1 .. Len(r) : i = 1 \/ (i - 1 \in 1 .. Len(s) /\ r[i] = s[i - 1])
  <2> SUFFICES ASSUME NEW i \in 1 .. Len(r), i # 1
               PROVE  i - 1 \in 1 .. Len(s) /\ r[i] = s[i - 1]
    OBVIOUS
  <2>1. i - 1 \in 1 .. Len(s) /\ (i - 1) + 1 = i
    BY <1>1
  <2> QED
    BY <2>1, <1>1
<1>3. \A i \in 1 .. Len(s) : s[i] # f
  BY DEF InSeq
<1>4. Distinct(r)
  <2> SUFFICES ASSUME NEW i \in 1 .. Len(r), NEW j \in 1 .. Len(r), r[i] = r[j]
               PROVE  i = j
    BY DEF Distinct
  <2>1. CASE i = 1 /\ j = 1
    BY <2>1
  <2>2. CASE i = 1 /\ j # 1
    BY <2>2, <1>1, <1>2, <1>3
  <2>3. CASE i # 1 /\ j = 1
    BY <2>3, <1>1, <1>2, <1>3
  <2>4. CASE i # 1 /\ j # 1
    <3>1. /\ i - 1 \in 1 .. Len(s) /\ j - 1 \in 1 .. Len(s) /\ s[i - 1] = s[j - 1]
      BY <2>4, <1>2
    <3>2. i - 1 = j - 1
      BY <3>1 DEF Shape, Distinct
    <3> QED
      BY <3>2
  <2> QED
    BY <2>1, <2>2, <2>3, <2>4
<1>5. BottomLast(r)
  <2> SUFFICES ASSUME NEW i \in 1 .. Len(r), r[i].at \in BottomPlaces
               PROVE  i = Len(r)
    BY DEF BottomLast
  <2>1. CASE i = 1
    <3>1. Len(s) = 0
      BY <2>1, <1>1
    <3> QED
      BY <2>1, <3>1, <1>1
  <2>2. CASE i # 1
    <3>1. i - 1 \in 1 .. Len(s) /\ s[i - 1].at \in BottomPlaces
      BY <2>2, <1>2
    <3>2. i - 1 = Len(s)
      BY <3>1 DEF Shape, BottomLast
    <3> QED
      BY <3>2, <1>1
  <2> QED
    BY <2>1, <2>2
<1>6. TopFirst(r)
  BY <1>2 DEF TopFirst, NoTop
<1>7. f.at \notin TopPlaces => NoTop(r)
  BY <1>1, <1>2 DEF NoTop
<1>8. ClearThenFrees(r)
  <2> SUFFICES ASSUME NEW i \in 1 .. Len(r), r[i].at = "clear"
               PROVE  i < Len(r) /\ r[i + 1] \in {Frame("free", r[i].on), Frame("destroy", r[i].on)}
    BY DEF ClearThenFrees
  <2>1. CASE i = 1
    <3>1. s # <<>> /\ s[1] \in {Frame("free", f.on), Frame("destroy", f.on)} /\ r[i] = f
      BY <2>1, <1>1
    <3>2. Len(s) > 0
      BY <3>1, <1>1
    <3>3. r[1 + 1] = s[1]
      BY <3>2, <1>1
    <3> QED
      BY <2>1, <3>1, <3>2, <3>3, <1>1
  <2>2. CASE i # 1
    <3>1. i - 1 \in 1 .. Len(s) /\ r[i] = s[i - 1]
      BY <2>2, <1>2
    <3>2. /\ i - 1 < Len(s)
          /\ s[(i - 1) + 1] \in {Frame("free", s[i - 1].on), Frame("destroy", s[i - 1].on)}
      BY <3>1 DEF Shape, ClearThenFrees
    <3>3. (i - 1) + 1 = i /\ i \in 1 .. Len(s) /\ i < Len(r)
      BY <3>1, <3>2, <1>1
    <3>4. r[i + 1] = s[i]
      BY <3>3, <1>1
    <3> QED
      BY <3>1, <3>2, <3>3, <3>4
  <2> QED
    BY <2>1, <2>2
<1> QED
  BY <1>1, <1>4, <1>5, <1>6, <1>7, <1>8 DEF Shape, r

-----------------------------------------------------------------------------
(* What is pending, and how a step changes it.                             *)

Stacks == \A a \in Actors : Shape(work[a])
StackTypes == work \in [Actors -> Seq(FrameSet)] /\ Stacks

\* a's stack loses the frames gone and gets the frames new.
Moves(a, gone, new) ==
  /\ StackTypes'
  /\ \A b \in Actors : \A q, u :
       Pending(b, q, u)' <=> \/ Pending(b, q, u) /\ ~(b = a /\ Frame(q, u) \in gone)
                             \/ b = a /\ Frame(q, u) \in new

\* What is left of a's stack without the frames gone.
Rest(a, rest, gone) ==
  /\ rest \in Seq(FrameSet) /\ Shape(rest) /\ NoTop(rest)
  /\ InSeq(rest) = InSeq(work[a]) \ gone

LEMMA PendingIsIn ==
  ASSUME StackTypes, NEW b \in Actors, NEW q, NEW u
  PROVE  Pending(b, q, u) <=> Frame(q, u) \in InSeq(work[b])
<1>1. work[b] \in Seq(FrameSet)
  BY DEF StackTypes
<1> QED
  BY <1>1 DEF Pending, InSeq

LEMMA TopIsPending ==
  ASSUME StackTypes, NEW a \in Actors, NEW p, NEW t, At(a, p, t)
  PROVE  /\ work[a] \in Seq(FrameSet) /\ work[a] # <<>> /\ Shape(work[a])
         /\ Head(work[a]) = Frame(p, t) /\ 1 \in 1 .. Len(work[a]) /\ work[a][1] = Frame(p, t)
         /\ Pending(a, p, t)
<1>1. work[a] \in Seq(FrameSet) /\ Shape(work[a])
  BY DEF StackTypes, Stacks
<1>2. work[a] # <<>> /\ Head(work[a]) = Frame(p, t)
  BY DEF At, Top
<1> DEFINE s == work[a]
<1>3. s \in Seq(FrameSet) /\ s # <<>>
  BY <1>1, <1>2
<1>4. 1 \in 1 .. Len(s) /\ s[1] = Head(s)
  <2> HIDE DEF s, FrameSet
  <2> QED
    BY <1>3
<1> QED
  BY <1>1, <1>2, <1>4 DEF Pending

LEMMA RestOfTop ==
  ASSUME StackTypes, NEW a \in Actors, NEW p, NEW t, At(a, p, t)
  PROVE  Rest(a, Tail(work[a]), {Frame(p, t)})
BY TopIsPending, TailShape DEF Rest

\* Nothing is under a frame that is the last.
LEMMA NothingUnderBottom ==
  ASSUME StackTypes, NEW a \in Actors, NEW p \in BottomPlaces, NEW t, At(a, p, t)
  PROVE  Tail(work[a]) = <<>>
<1>1. /\ work[a] \in Seq(FrameSet) /\ Shape(work[a]) /\ 1 \in 1 .. Len(work[a])
      /\ work[a][1] = Frame(p, t)
  BY TopIsPending
<1>2. work[a][1].at \in BottomPlaces
  BY <1>1 DEF Frame
<1>3. Len(work[a]) = 1
  BY <1>1, <1>2 DEF Shape, BottomLast
<1> DEFINE s == work[a]
<1>4. s \in Seq(FrameSet) /\ Len(s) = 1 /\ s # <<>>
  BY <1>1, <1>3, TopIsPending
<1> HIDE DEF s, FrameSet
<1>5. Tail(s) \in Seq(FrameSet) /\ Len(Tail(s)) = 0
  BY <1>4
<1>6. Tail(s) = <<>>
  BY <1>5, EmptySeq
<1> QED
  BY <1>6 DEF s

LEMMA RestOfNothing ==
  ASSUME NEW a \in Actors, work[a] = <<>>
  PROVE  Rest(a, <<>>, {})
BY EmptyShape DEF Rest

LEMMA RestIsAll ==
  ASSUME StackTypes, NEW a \in Actors, NEW p, NEW t, At(a, p, t), p \notin TopPlaces
  PROVE  Rest(a, work[a], {})
<1>1. /\ work[a] \in Seq(FrameSet) /\ Shape(work[a]) /\ work[a][1] = Frame(p, t)
  BY TopIsPending
<1>2. work[a][1].at \notin TopPlaces
  BY <1>1 DEF Frame
<1>3. NoTop(work[a])
  BY <1>1, <1>2 DEF NoTop, Shape, TopFirst
<1> QED
  BY <1>1, <1>3 DEF Rest

LEMMA WorkMoves ==
  ASSUME StackTypes, NEW a \in Actors, NEW s \in Seq(FrameSet), Shape(s),
         NEW gone, NEW new, InSeq(s) = (InSeq(work[a]) \ gone) \cup new,
         work' = [work EXCEPT ![a] = s]
  PROVE  Moves(a, gone, new)
<1>1. StackTypes'
  BY DEF StackTypes, Stacks
<1>2. ASSUME NEW b \in Actors, NEW q, NEW u
      PROVE  Pending(b, q, u)' <=> Frame(q, u) \in InSeq(work'[b])
  <2>1. work'[b] \in Seq(FrameSet)
    BY <1>1 DEF StackTypes
  <2> QED
    BY <2>1 DEF Pending, InSeq
<1>3. \A b \in Actors : work'[b] = IF b = a THEN s ELSE work[b]
  BY DEF StackTypes
<1> QED
  BY <1>1, <1>2, <1>3, PendingIsIn DEF Moves

LEMMA LetGo ==
  ASSUME StackTypes, NEW a \in Actors, NEW rest, NEW gone, Rest(a, rest, gone),
         work' = [work EXCEPT ![a] = rest]
  PROVE  Moves(a, gone, {})
BY WorkMoves DEF Rest

LEMMA PutOne ==
  ASSUME StackTypes, NEW a \in Actors, NEW rest, NEW gone, Rest(a, rest, gone),
         NEW p \in Places, NEW t \in Actors, p # "clear",
         Frame(p, t) \notin InSeq(rest), p \in BottomPlaces => rest = <<>>,
         work' = [work EXCEPT ![a] = <<Frame(p, t)>> \o rest]
  PROVE  Moves(a, gone, {Frame(p, t)})
<1> DEFINE f == Frame(p, t)
<1>1. f \in FrameSet /\ f.at = p /\ f.on = t
  BY FrameIsFrame
<1> HIDE DEF f
<1>2. /\ <<f>> \o rest \in Seq(FrameSet) /\ Shape(<<f>> \o rest)
      /\ InSeq(<<f>> \o rest) = InSeq(rest) \cup {f}
  BY <1>1, ConsShape DEF Rest, f
<1>3. InSeq(<<f>> \o rest) = (InSeq(work[a]) \ gone) \cup {f}
  BY <1>2 DEF Rest
<1>4. work' = [work EXCEPT ![a] = <<f>> \o rest]
  BY DEF f
<1>5. Moves(a, gone, {f})
  BY <1>2, <1>3, <1>4, WorkMoves
<1> QED
  BY <1>5 DEF f

LEMMA PutClear ==
  ASSUME StackTypes, NEW a \in Actors, NEW rest, NEW gone, Rest(a, rest, gone),
         NEW p \in {"free", "destroy"}, NEW t \in Actors,
         Frame(p, t) \notin InSeq(rest), Frame("clear", t) \notin InSeq(rest),
         p = "free" => rest = <<>>,
         work' = [work EXCEPT ![a] = <<Frame("clear", t), Frame(p, t)>> \o rest]
  PROVE  Moves(a, gone, {Frame("clear", t), Frame(p, t)})
<1> DEFINE f == Frame(p, t)
           c == Frame("clear", t)
<1>1. f \in FrameSet /\ f.at = p /\ f.on = t /\ c \in FrameSet /\ c.at = "clear" /\ c.on = t /\ c # f
  BY FrameIsFrame, FramesDiffer DEF Places
<1> HIDE DEF f, c
<1> DEFINE r == <<f>> \o rest
<1>2. /\ r \in Seq(FrameSet) /\ Shape(r) /\ NoTop(r)
      /\ InSeq(r) = InSeq(rest) \cup {f}
  BY <1>1, ConsShape DEF Rest, f, BottomPlaces, TopPlaces
<1>3. r # <<>> /\ r[1] = f
  <2>1. rest \in Seq(FrameSet)
    BY DEF Rest
  <2> HIDE DEF FrameSet
  <2> QED
    BY <1>1, <2>1, ConsFacts
<1>4. r[1] \in {Frame("free", c.on), Frame("destroy", c.on)}
  BY <1>1, <1>3 DEF f
<1>5. c \notin InSeq(r)
  BY <1>1, <1>2 DEF c
<1> HIDE DEF r
<1>6. /\ <<c>> \o r \in Seq(FrameSet) /\ Shape(<<c>> \o r)
      /\ InSeq(<<c>> \o r) = InSeq(r) \cup {c}
  BY <1>1, <1>2, <1>3, <1>4, <1>5, ConsShape DEF BottomPlaces
<1>7. <<c>> \o r = <<c, f>> \o rest
  <2>1. rest \in Seq(FrameSet)
    BY DEF Rest
  <2>2. <<c>> \o (<<f>> \o rest) = (<<c>> \o <<f>>) \o rest
    <3> HIDE DEF FrameSet
    <3> QED
      BY <1>1, <2>1, ConcatAssociative
  <2>3. <<c>> \o <<f>> = <<c, f>>
    <3>1. <<c>> \in Seq({c, f}) /\ <<f>> \in Seq({c, f}) /\ <<c, f>> \in Seq({c, f})
      OBVIOUS
    <3>2. /\ Len(<<c>> \o <<f>>) = 2 /\ Len(<<c, f>>) = 2
          /\ \A i \in 1 .. 2 : (<<c>> \o <<f>>)[i] = <<c, f>>[i]
      OBVIOUS
    <3>3. <<c>> \o <<f>> \in Seq({c, f})
      BY <3>1
    <3> QED
      BY <3>1, <3>2, <3>3, SeqEqual
  <2> QED
    BY <2>2, <2>3 DEF r
<1>8. InSeq(<<c>> \o r) = (InSeq(work[a]) \ gone) \cup {c, f}
  BY <1>2, <1>6 DEF Rest
<1>9. work' = [work EXCEPT ![a] = <<c>> \o r]
  BY <1>7 DEF c, f
<1>10. Moves(a, gone, {c, f})
  BY <1>6, <1>8, <1>9, WorkMoves
<1> QED
  BY <1>10 DEF c, f

\* The frames of a for t at the places old go, and those at the places new come.
Turns(a, t, old, new) ==
  /\ StackTypes'
  /\ \A b \in Actors : \A q, u :
       Pending(b, q, u)' <=> \/ b = a /\ u = t /\ q \in new
                             \/ Pending(b, q, u) /\ ~(b = a /\ u = t /\ q \in old)

LEMMA MovesAreTurns ==
  ASSUME NEW a \in Actors, NEW t \in Actors, NEW old, NEW new,
         Moves(a, {Frame(p, t) : p \in old}, {Frame(p, t) : p \in new})
  PROVE  Turns(a, t, old, new)
<1> DEFINE gone == {Frame(p, t) : p \in old}
           come == {Frame(p, t) : p \in new}
<1>0. Moves(a, gone, come)
  OBVIOUS
<1>1. ASSUME NEW b \in Actors, NEW q, NEW u
      PROVE  Pending(b, q, u)' <=> \/ b = a /\ u = t /\ q \in new
                                   \/ Pending(b, q, u) /\ ~(b = a /\ u = t /\ q \in old)
  <2>1. Frame(q, u) \in gone <=> u = t /\ q \in old
    BY FramesDiffer
  <2>2. Frame(q, u) \in come <=> u = t /\ q \in new
    BY FramesDiffer
  <2> HIDE DEF gone, come
  <2>3. Pending(b, q, u)' <=> \/ Pending(b, q, u) /\ ~(b = a /\ Frame(q, u) \in gone)
                              \/ b = a /\ Frame(q, u) \in come
    BY <1>0 DEF Moves
  <2> QED
    BY <2>1, <2>2, <2>3
<1>2. StackTypes'
  BY DEF Moves
<1> QED
  BY <1>1, <1>2 DEF Turns

LEMMA TurnPop ==
  ASSUME StackTypes, NEW a \in Actors, NEW p \in Places, NEW t \in Actors, At(a, p, t),
         Then(a, <<>>)
  PROVE  Turns(a, t, {p}, {})
<1>1. Rest(a, Tail(work[a]), {Frame(p, t)})
  BY RestOfTop
<1>2. <<>> \o Tail(work[a]) = Tail(work[a])
  BY <1>1, ConcatEmptySeq DEF Rest
<1>3. work' = [work EXCEPT ![a] = Tail(work[a])]
  BY <1>2 DEF Then, StackTypes
<1>4. Moves(a, {Frame(p, t)}, {})
  BY <1>1, <1>3, LetGo
<1>5. {Frame(q, t) : q \in {p}} = {Frame(p, t)} /\ {Frame(q, t) : q \in {}} = {}
  OBVIOUS
<1> QED
  BY <1>4, <1>5, MovesAreTurns

LEMMA TurnOne ==
  ASSUME StackTypes, NEW a \in Actors, NEW p \in Places, NEW t \in Actors, At(a, p, t),
         NEW q \in Places, q # "clear", ~Pending(a, q, t),
         q \in BottomPlaces => p \in BottomPlaces, Then(a, <<Frame(q, t)>>)
  PROVE  Turns(a, t, {p}, {q})
<1>1. Rest(a, Tail(work[a]), {Frame(p, t)})
  BY RestOfTop
<1>2. Frame(q, t) \notin InSeq(Tail(work[a]))
  BY <1>1, PendingIsIn DEF Rest
<1>3. work' = [work EXCEPT ![a] = <<Frame(q, t)>> \o Tail(work[a])]
  BY DEF Then, StackTypes
<1>4. q \in BottomPlaces => Tail(work[a]) = <<>>
  BY NothingUnderBottom
<1>5. Moves(a, {Frame(p, t)}, {Frame(q, t)})
  BY <1>1, <1>2, <1>3, <1>4, PutOne
<1>6. {Frame(r, t) : r \in {p}} = {Frame(p, t)} /\ {Frame(r, t) : r \in {q}} = {Frame(q, t)}
  OBVIOUS
<1> QED
  BY <1>5, <1>6, MovesAreTurns

LEMMA TurnClear ==
  ASSUME StackTypes, NEW a \in Actors, NEW p \in Places, NEW t \in Actors, At(a, p, t),
         NEW q \in {"free", "destroy"}, ~Pending(a, q, t), ~Pending(a, "clear", t),
         q = "free" => p \in BottomPlaces, Then(a, <<Frame("clear", t), Frame(q, t)>>)
  PROVE  Turns(a, t, {p}, {"clear", q})
<1>1. Rest(a, Tail(work[a]), {Frame(p, t)})
  BY RestOfTop
<1>2. /\ Frame(q, t) \notin InSeq(Tail(work[a]))
      /\ Frame("clear", t) \notin InSeq(Tail(work[a]))
  BY <1>1, PendingIsIn DEF Rest
<1>3. work' = [work EXCEPT ![a] = <<Frame("clear", t), Frame(q, t)>> \o Tail(work[a])]
  BY DEF Then, StackTypes
<1>4. q = "free" => Tail(work[a]) = <<>>
  BY NothingUnderBottom
<1>5. Moves(a, {Frame(p, t)}, {Frame("clear", t), Frame(q, t)})
  BY <1>1, <1>2, <1>3, <1>4, PutClear
<1>6. /\ {Frame(r, t) : r \in {p}} = {Frame(p, t)}
      /\ {Frame(r, t) : r \in {"clear", q}} = {Frame("clear", t), Frame(q, t)}
  OBVIOUS
<1> QED
  BY <1>5, <1>6, MovesAreTurns

LEMMA TurnCall ==
  ASSUME StackTypes, NEW a \in Actors, NEW t \in Actors, work[a] = <<>>,
         NEW q \in Places, q # "clear", Call(a, <<Frame(q, t)>>)
  PROVE  Turns(a, t, {}, {q})
<1>1. Rest(a, <<>>, {})
  BY RestOfNothing
<1>2. Frame(q, t) \notin InSeq(<<>>)
  BY EmptyShape
<1>3. <<Frame(q, t)>> \o <<>> = <<Frame(q, t)>>
  BY FrameIsFrame, ConcatEmptySeq
<1>4. work' = [work EXCEPT ![a] = <<Frame(q, t)>> \o <<>>]
  BY <1>3 DEF Call
<1>5. Moves(a, {}, {Frame(q, t)})
  BY <1>1, <1>2, <1>4, PutOne
<1>6. {Frame(r, t) : r \in {}} = {} /\ {Frame(r, t) : r \in {q}} = {Frame(q, t)}
  OBVIOUS
<1> QED
  BY <1>5, <1>6, MovesAreTurns

\* The three frames at the end of a thread.
LEMMA TurnFinished ==
  ASSUME StackTypes, NEW t \in Actors, At(t, "finish", t),
         Then(t, <<Frame("term", t), Frame("run_ref", t), Frame("exit", t)>>)
  PROVE  Turns(t, t, {"finish"}, {"term", "run_ref", "exit"})
<1> DEFINE e == Frame("exit", t)
           r == Frame("run_ref", t)
           m == Frame("term", t)
<1>0. "finish" \in Places /\ {"term", "run_ref", "exit"} \subseteq Places
  BY DEF Places
<1>1. /\ e \in FrameSet /\ r \in FrameSet /\ m \in FrameSet
      /\ e.at = "exit" /\ r.at = "run_ref" /\ m.at = "term" /\ e # r /\ m # r /\ m # e
  BY <1>0, FrameIsFrame, FramesDiffer
<1>2. Tail(work[t]) = <<>> /\ InSeq(work[t]) \ {Frame("finish", t)} = {}
  <2>1. Tail(work[t]) = <<>>
    BY <1>0, NothingUnderBottom DEF BottomPlaces
  <2>2. InSeq(Tail(work[t])) = InSeq(work[t]) \ {Frame("finish", t)}
    BY RestOfTop, <1>0 DEF Rest
  <2> QED
    BY <2>1, <2>2, EmptyShape
<1> HIDE DEF e, r, m
<1> DEFINE s1 == <<e>> \o <<>>
<1>3. s1 \in Seq(FrameSet) /\ Shape(s1) /\ NoTop(s1) /\ InSeq(s1) = {e}
  BY <1>1, EmptyShape, ConsShape DEF TopPlaces
<1> HIDE DEF s1
<1> DEFINE s2 == <<r>> \o s1
<1>4. s2 \in Seq(FrameSet) /\ Shape(s2) /\ NoTop(s2) /\ InSeq(s2) = {e, r}
  BY <1>1, <1>3, ConsShape DEF TopPlaces, BottomPlaces
<1> HIDE DEF s2
<1> DEFINE s3 == <<m>> \o s2
<1>5. s3 \in Seq(FrameSet) /\ Shape(s3) /\ InSeq(s3) = {e, r, m}
  BY <1>1, <1>4, ConsShape DEF BottomPlaces
<1>6. s3 = <<m, r, e>> /\ <<m, r, e>> \o <<>> = <<m, r, e>>
  <2>1. /\ Len(s1) = 1 /\ s1[1] = e
    BY <1>1, EmptyShape, ConsFacts DEF s1
  <2>2. Len(s2) = 2 /\ s2[1] = r /\ s2[2] = e
    BY <1>1, <1>3, <2>1, ConsFacts DEF s2
  <2>3. Len(s3) = 3 /\ s3[1] = m /\ s3[2] = r /\ s3[3] = e
    <3>1. /\ Len(s3) = Len(s2) + 1 /\ s3[1] = m
          /\ \A i \in 1 .. Len(s2) : s3[i + 1] = s2[i]
      BY <1>1, <1>4, ConsFacts
    <3>2. 1 \in 1 .. Len(s2) /\ 2 \in 1 .. Len(s2)
      BY <2>2
    <3>3. s3[1 + 1] = s2[1] /\ s3[2 + 1] = s2[2]
      BY <3>1, <3>2
    <3> QED
      BY <3>1, <3>3, <2>2
  <2>4. <<m, r, e>> \in Seq(FrameSet) /\ Len(<<m, r, e>>) = 3
    <3> HIDE DEF FrameSet
    <3> QED
      BY <1>1
  <2>5. \A i \in 1 .. 3 : s3[i] = <<m, r, e>>[i]
    <3> HIDE DEF s3
    <3> QED
      BY <2>3
  <2>6. s3 = <<m, r, e>>
    <3> HIDE DEF s3, FrameSet
    <3> QED
      BY <1>5, <2>3, <2>4, <2>5, SeqEqual
  <2> QED
    BY <2>4, <2>6, ConcatEmptySeq
<1> HIDE DEF s3
<1>7. work' = [work EXCEPT ![t] = s3]
  BY <1>2, <1>6 DEF Then, StackTypes, m, r, e
<1>8. InSeq(s3) = (InSeq(work[t]) \ {Frame("finish", t)}) \cup {m, r, e}
  BY <1>2, <1>5
<1>9. Moves(t, {Frame("finish", t)}, {m, r, e})
  BY <1>5, <1>7, <1>8, WorkMoves
<1>10. /\ {Frame(q, t) : q \in {"finish"}} = {Frame("finish", t)}
       /\ {Frame(q, t) : q \in {"term", "run_ref", "exit"}} = {m, r, e}
  BY DEF m, r, e
<1> QED
  BY <1>9, <1>10, MovesAreTurns

\* S_ithread_free() goes on with what its caller has left to do, or frees.
LEMMA TurnUnref ==
  ASSUME StackTypes, NEW a \in Actors, NEW x \in Tids, NEW rest, NEW old \in SUBSET Places,
         Rest(a, rest, {Frame(p, x) : p \in old}), Unref(a, x, rest),
         Pending(a, "unlink", x) => "unlink" \in old
  PROVE  Turns(a, x, old, IF Viable(x) /\ count[x] > 1 THEN {} ELSE {"unlink"})
<1> DEFINE gone == {Frame(p, x) : p \in old}
           f == Frame("unlink", x)
<1>1. x \in Actors /\ "unlink" \in Places /\ "unlink" \notin BottomPlaces /\ "unlink" # "clear"
  BY DEF Actors, Places, BottomPlaces
<1>2. f \notin InSeq(rest)
  <2>1. f \in InSeq(work[a]) <=> Pending(a, "unlink", x)
    BY PendingIsIn
  <2>2. Pending(a, "unlink", x) => f \in gone
    OBVIOUS
  <2> HIDE DEF gone
  <2>3. Rest(a, rest, gone)
    BY DEF gone
  <2> QED
    BY <2>1, <2>2, <2>3 DEF Rest
<1>3. CASE Viable(x) /\ count[x] > 1
  <2>1. work' = [work EXCEPT ![a] = rest]
    BY <1>3 DEF Unref, Viable
  <2>2. Moves(a, gone, {})
    BY <2>1, LetGo
  <2>3. {Frame(p, x) : p \in {}} = {}
    OBVIOUS
  <2> QED
    BY <1>1, <1>3, <2>2, <2>3, MovesAreTurns
<1>4. CASE ~(Viable(x) /\ count[x] > 1)
  <2>1. work' = [work EXCEPT ![a] = <<f>> \o rest]
    BY <1>4 DEF Unref, Viable
  <2>2. Moves(a, gone, {f})
    BY <1>1, <1>2, <2>1, PutOne
  <2>3. {Frame(p, x) : p \in {"unlink"}} = {f}
    OBVIOUS
  <2> QED
    BY <1>1, <1>4, <2>2, <2>3, MovesAreTurns
<1> QED
  BY <1>3, <1>4

\* A walk over threads: they are looked at, then the pool is let go.
LEMMA WalkMoves ==
  ASSUME StackTypes, NEW a \in Actors, work[a] = <<>>, NEW looks \in Seq(FrameSet),
         NEW L \in SUBSET Tids, InSeq(looks) = {Frame("look", t) : t \in L},
         Distinct(looks), Call(a, looks \o <<Frame("unpool", a)>>)
  PROVE  /\ StackTypes'
         /\ \A b \in Actors : \A q, u :
              Pending(b, q, u)' <=> \/ b = a /\ q = "unpool" /\ u = a
                                    \/ b = a /\ q = "look" /\ u \in L
                                    \/ Pending(b, q, u)
<1> DEFINE f == Frame("unpool", a)
           s == looks \o <<f>>
           n == Len(looks)
<1>1. f \in FrameSet /\ f.at = "unpool" /\ f.on = a
  BY FrameIsFrame DEF Places
<1>2. \A i \in 1 .. n : looks[i].at = "look"
  <2>1. ASSUME NEW i \in 1 .. n PROVE looks[i].at = "look"
    <3>1. looks[i] \in {Frame("look", t) : t \in L}
      BY DEF InSeq
    <3>2. PICK t \in L : looks[i] = Frame("look", t)
      BY <3>1
    <3> QED
      BY <3>2 DEF Frame
  <2> QED
    BY <2>1
<1> HIDE DEF f
<1>3. /\ s \in Seq(FrameSet) /\ Len(s) = n + 1 /\ n \in Nat /\ s[n + 1] = f
      /\ \A i \in 1 .. n : s[i] = looks[i]
  <2> HIDE DEF FrameSet
  <2> QED
    BY <1>1
<1> HIDE DEF s, n
<1>4. Distinct(s)
  <2> SUFFICES ASSUME NEW i \in 1 .. n + 1, NEW j \in 1 .. n + 1, s[i] = s[j], i # j
               PROVE  FALSE
    BY <1>3 DEF Distinct
  <2>1. CASE i # n + 1 /\ j # n + 1
    <3>1. i \in 1 .. n /\ j \in 1 .. n
      BY <2>1, <1>3
    <3> QED
      BY <3>1, <1>3 DEF Distinct, n
  <2>2. CASE i = n + 1
    <3>1. j \in 1 .. n
      BY <2>2, <1>3
    <3> QED
      BY <3>1, <2>2, <1>1, <1>2, <1>3
  <2>3. CASE j = n + 1
    <3>1. i \in 1 .. n
      BY <2>3, <1>3
    <3> QED
      BY <3>1, <2>3, <1>1, <1>2, <1>3
  <2> QED
    BY <2>1, <2>2, <2>3
<1>5. \A i \in 1 .. Len(s) : (i = Len(s) /\ s[i] = f) \/ s[i].at = "look"
  BY <1>2, <1>3
<1>6. Shape(s)
  BY <1>1, <1>4, <1>5 DEF Shape, BottomLast, TopFirst, ClearThenFrees, BottomPlaces, TopPlaces
<1>7. InSeq(s) = InSeq(looks) \cup {f}
  <2>1. ASSUME NEW i \in 1 .. Len(s) PROVE s[i] \in InSeq(looks) \cup {f}
    <3>1. i = n + 1 \/ i \in 1 .. n
      BY <1>3
    <3> QED
      BY <3>1, <1>3 DEF InSeq, n
  <2>2. ASSUME NEW i \in 1 .. Len(looks) PROVE looks[i] \in InSeq(s)
    <3>1. i \in 1 .. Len(s) /\ s[i] = looks[i]
      BY <1>3 DEF n
    <3> QED
      BY <3>1 DEF InSeq
  <2>3. f \in InSeq(s)
    <3>1. n + 1 \in 1 .. Len(s)
      BY <1>3
    <3> QED
      BY <3>1, <1>3 DEF InSeq
  <2> QED
    BY <2>1, <2>2, <2>3 DEF InSeq
<1>8. work' = [work EXCEPT ![a] = s]
  BY DEF Call, s, f
<1>9. InSeq(work[a]) = {}
  BY EmptyShape
<1>10. Moves(a, {}, InSeq(s))
  BY <1>3, <1>6, <1>8, <1>9, WorkMoves
<1>11. ASSUME NEW q, NEW u
       PROVE  Frame(q, u) \in InSeq(s) <=> (q = "unpool" /\ u = a) \/ (q = "look" /\ u \in L)
  <2>1. Frame(q, u) \in {Frame("look", t) : t \in L} <=> q = "look" /\ u \in L
    BY FramesDiffer
  <2>2. Frame(q, u) = f <=> q = "unpool" /\ u = a
    BY FramesDiffer DEF f
  <2> QED
    BY <1>7, <2>1, <2>2
<1>12. ASSUME NEW b \in Actors, NEW q, NEW u
       PROVE  Pending(b, q, u)' <=> Pending(b, q, u) \/ (b = a /\ Frame(q, u) \in InSeq(s))
  BY <1>10 DEF Moves
<1> QED
  BY <1>10, <1>11, <1>12 DEF Moves

LEMMA ListLooks ==
  LET looks == [t \in Tids |-> Frame("look", t)]
  IN  /\ looks \in Seq(FrameSet) /\ Distinct(looks)
      /\ InSeq(looks) = {Frame("look", t) : t \in Tids}
<1> DEFINE looks == [t \in Tids |-> Frame("look", t)]
<1>1. \A t \in Tids : t \in Actors /\ Frame("look", t) \in FrameSet
  BY FrameIsFrame DEF Actors, Places
<1>2. looks \in Seq(FrameSet) /\ Len(looks) = MaxTid /\ MaxTid \in Nat
  <2> HIDE DEF FrameSet
  <2> QED
    BY <1>1, IthreadsAssumption DEF Tids
<1>3. \A t \in Tids : looks[t] = Frame("look", t)
  OBVIOUS
<1> HIDE DEF looks
<1>4. 1 .. Len(looks) = Tids
  BY <1>2 DEF Tids
<1>5. Distinct(looks)
  BY <1>3, <1>4, FramesDiffer DEF Distinct
<1>6. InSeq(looks) = {Frame("look", t) : t \in Tids}
  BY <1>3, <1>4 DEF InSeq
<1> QED
  BY <1>2, <1>5, <1>6 DEF looks

LEMMA ObjectLooks ==
  ASSUME NEW t \in Tids
  PROVE  /\ <<Frame("look", t)>> \in Seq(FrameSet) /\ Distinct(<<Frame("look", t)>>)
         /\ InSeq(<<Frame("look", t)>>) = {Frame("look", u) : u \in {t}}
<1>1. Frame("look", t) \in FrameSet
  BY FrameIsFrame DEF Actors, Places
<1> QED
  BY <1>1 DEF Distinct, InSeq

-----------------------------------------------------------------------------
(* The invariant.                                                          *)

PoolPlaces == {"clone", "start", "look", "take", "unpool", "finish", "detach"}
JoinPlaces == {"joined", "pthread_join", "detached", "free"}
EndPlaces == {"unlink", "disown", "destroy", "total"}
RunPlaces == {"term", "run_ref", "exit"}
Born(t) == t < tid_counter

\* Frames are about threads that have been created, or about one's own end.
Alive(a) == IF a = Main THEN ended = "no" ELSE os[a] = "running"
FrameOK(a, p, t) ==
  /\ p # "unpool" => t \in Tids
  /\ p \notin {"look", "unpool"} => Born(t)
  /\ p \in {"unpool", "finish"} \cup RunPlaces => t = a
  /\ Alive(a)
FrameTypes == \A a, t \in Actors, p \in Places : Pending(a, p, t) => FrameOK(a, p, t)

\* Whoever is where the pool's mutex is held holds it.
PoolIsHeld ==
  \A a, t \in Actors, p \in PoolPlaces : Pending(a, p, t) => pool = a

\* A thread that is being created has not been seen by anybody.
Creating ==
  \A a \in Actors, t \in Tids :
    Pending(a, "clone", t) \/ Pending(a, "start", t) =>
      os[t] = "none" /\ state[t] = {} /\ mem[t] = "alloc"

\* Between list()'s look at the state and its count, the thread may be joined,
\* but not so far that its reference is gone.
Looking ==
  \A a \in Actors, t \in Tids :
    /\ Pending(a, "look", t) \/ Pending(a, "take", t) => Pending(a, "unpool", a)
    /\ Pending(a, "take", t) =>
         /\ Viable(t) => os[t] # "none"
         /\ "DETACHED" \notin state[t]
         /\ "JOINED" \in state[t] => \E b \in Actors : Pending(b, "joined", t)

\* The end of a thread.
Ending ==
  \A t \in Tids :
    /\ Pending(t, "finish", t) => "FINISHED" \notin state[t]
    /\ \A p \in RunPlaces : Pending(t, p, t) => "FINISHED" \in state[t]
    /\ Pending(t, "term", t) => Pending(t, "run_ref", t)
    /\ "FINISHED" \in state[t] /\ os[t] = "running" => Pending(t, "exit", t)
    /\ os[t] = "exited" => "FINISHED" \in state[t]
    /\ "DIED" \in state[t] => "FINISHED" \in state[t]

\* join() and detach() in progress have marked the thread.
Joining ==
  \A a \in Actors, t \in Tids :
    /\ Pending(a, "joined", t) \/ Pending(a, "pthread_join", t) => "JOINED" \in state[t]
    /\ Pending(a, "detached", t) => "DETACHED" \in state[t]
    /\ Pending(a, "free", t) => Uncallable(t)
    /\ Pending(a, "detach", t) => os[t] # "none"

\* There is one of them.
OneJoiner ==
  \A a, b \in Actors, t \in Tids, p, q \in JoinPlaces :
    Pending(a, p, t) /\ Pending(b, q, t) => a = b /\ p = q

NoRefs(t) == ObjectHolders(t) = {} /\ ~RunHolds(t) /\ ~JoinHolds(t)

\* The interpreter that is cleared is that of a thread that has ended without
\* an error, or the thread goes as a whole.
Clearing ==
  \A a \in Actors, t \in Tids :
    Pending(a, "clear", t) =>
      \/ Pending(a, "free", t) /\ "FINISHED" \in state[t] /\ "DIED" \notin state[t]
      \/ Pending(a, "destroy", t)

\* A thread that is being freed has no reference left, and one that frees it.
Freeing ==
  \A a \in Actors, t \in Tids :
    /\ \A p \in {"unlink", "disown", "destroy"} :
         Pending(a, p, t) => mem[t] = "alloc" /\ (Viable(t) => NoRefs(t))
    /\ Pending(a, "total", t) => mem[t] = "freed"
OneEnd ==
  \A a, b \in Actors, t \in Tids, p, q \in EndPlaces :
    Pending(a, p, t) /\ Pending(b, q, t) => a = b /\ p = q

Unborn ==
  \A t \in Tids :
    IF Born(t) THEN mem[t] # "none"
    ELSE /\ mem[t] = "none" /\ t \notin listed /\ os[t] = "none" /\ state[t] = {}
         /\ \A a \in Actors : t \notin objs[a]

\* Which threads the system has.
Running ==
  \A t \in Tids :
    /\ Born(t) /\ Viable(t) /\ os[t] = "none" =>
         \E a \in Actors : Pending(a, "clone", t) \/ Pending(a, "start", t)
    /\ os[t] = "none" => state[t] \subseteq {"NONVIABLE"}
    /\ os[t] # "none" => Viable(t)
    /\ \A a \in Actors : t \in objs[a] /\ Viable(t) => os[t] # "none"

\* An interpreter is gone when its thread has ended without an error, or when
\* nobody has a reference.
Interpreters ==
  \A t \in Tids :
    Born(t) /\ Viable(t) /\ t \notin interp =>
      \/ "FINISHED" \in state[t] /\ "DIED" \notin state[t]
      \/ NoRefs(t)

Accounted ==
  \A t \in Tids :
    /\ mem[t] = "alloc" /\ Viable(t) => count[t] = References(t)
    /\ mem[t] = "freed" /\ Viable(t) => NoRefs(t)

Counted ==
  {t \in Tids : mem[t] = "alloc" \/ \E a \in Actors : Pending(a, "total", t)}
TotalIsRight == total_threads = Cardinality(Counted)

ControlInv ==
  /\ TypeOK /\ Stacks /\ FrameTypes /\ PoolIsHeld /\ Creating /\ Looking /\ Ending
  /\ Joining /\ OneJoiner /\ Clearing /\ OneEnd /\ Unborn /\ Running
CountInv ==
  /\ Freeing /\ Interpreters /\ Accounted /\ PoolCounters /\ TotalIsRight
  /\ PoolOutlivesThreads
ThreadInv == ControlInv /\ CountInv

-----------------------------------------------------------------------------
(* References.                                                             *)

RefsSame(t) ==
  /\ ObjectHolders(t)' = ObjectHolders(t)
  /\ RunHolds(t)' <=> RunHolds(t)
  /\ JoinHolds(t)' <=> JoinHolds(t)

LEMMA ActorsFinite == IsFiniteSet(Actors) /\ IsFiniteSet(Tids)
<1>1. IsFiniteSet(0 .. MaxTid) /\ IsFiniteSet(1 .. MaxTid)
  BY FS_Interval, IthreadsAssumption
<1>2. Actors = 0 .. MaxTid
  BY IthreadsAssumption DEF Actors, Main, Tids
<1> QED
  BY <1>1, <1>2 DEF Tids

LEMMA HoldersFinite ==
  ASSUME NEW t
  PROVE  /\ IsFiniteSet(ObjectHolders(t)) /\ Cardinality(ObjectHolders(t)) \in Nat
         /\ Cardinality(ObjectHolders(t)) = 0 <=> ObjectHolders(t) = {}
<1>1. ObjectHolders(t) \in SUBSET Actors
  BY DEF ObjectHolders
<1>2. IsFiniteSet(ObjectHolders(t))
  BY <1>1, ActorsFinite, FS_Subset
<1> QED
  BY <1>2, FS_CardinalityType, FS_EmptySet

LEMMA RefsOfNobody ==
  ASSUME NEW t
  PROVE  /\ References(t) \in Nat
         /\ References(t) = 0 <=> NoRefs(t)
<1> DEFINE c == Cardinality(ObjectHolders(t))
           r == IF RunHolds(t) THEN 1 ELSE 0
           j == IF JoinHolds(t) THEN 1 ELSE 0
<1>1. c \in Nat /\ (c = 0 <=> ObjectHolders(t) = {})
  BY HoldersFinite
<1>2. r \in {0, 1} /\ (r = 0 <=> ~RunHolds(t)) /\ j \in {0, 1} /\ (j = 0 <=> ~JoinHolds(t))
  OBVIOUS
<1>3. References(t) = c + r + j
  BY DEF References
<1> HIDE DEF c, r, j
<1> QED
  BY <1>1, <1>2, <1>3 DEF NoRefs

LEMMA RefsOfNobodyNext == \A t \in Tids : References(t)' = 0 <=> NoRefs(t)'
<1> DEFINE F == \A t \in Tids : References(t) = 0 <=> NoRefs(t)
<1>1. F
  BY RefsOfNobody
<1> HIDE DEF F
<1>2. F'
  BY <1>1, PTL
<1> QED
  BY <1>2 DEF F

LEMMA RefsUnchanged ==
  ASSUME NEW t, RefsSame(t)
  PROVE  References(t)' = References(t) /\ (NoRefs(t)' <=> NoRefs(t))
BY DEF RefsSame, References, NoRefs

LEMMA HolderComes ==
  ASSUME NEW t, NEW a \in Actors, a \notin ObjectHolders(t),
         ObjectHolders(t)' = ObjectHolders(t) \cup {a},
         RunHolds(t)' <=> RunHolds(t), JoinHolds(t)' <=> JoinHolds(t)
  PROVE  References(t)' = References(t) + 1
<1>1. Cardinality(ObjectHolders(t))' = Cardinality(ObjectHolders(t)) + 1
  BY HoldersFinite, FS_AddElement
<1> QED
  BY <1>1, HoldersFinite DEF References

LEMMA HolderGoes ==
  ASSUME NEW t, NEW a \in ObjectHolders(t),
         ObjectHolders(t)' = ObjectHolders(t) \ {a},
         RunHolds(t)' <=> RunHolds(t), JoinHolds(t)' <=> JoinHolds(t)
  PROVE  References(t)' = References(t) - 1
<1>1. Cardinality(ObjectHolders(t))' = Cardinality(ObjectHolders(t)) - 1
  BY HoldersFinite, FS_RemoveElement
<1> QED
  BY <1>1, HoldersFinite DEF References

LEMMA RunGoes ==
  ASSUME NEW t, RunHolds(t), ~RunHolds(t)',
         ObjectHolders(t)' = ObjectHolders(t), JoinHolds(t)' <=> JoinHolds(t)
  PROVE  References(t)' = References(t) - 1
BY HoldersFinite DEF References

LEMMA JoinGoes ==
  ASSUME NEW t, JoinHolds(t), ~JoinHolds(t)',
         ObjectHolders(t)' = ObjectHolders(t), RunHolds(t)' <=> RunHolds(t)
  PROVE  References(t)' = References(t) - 1
BY HoldersFinite DEF References

-----------------------------------------------------------------------------
(* What most steps leave as it is.                                         *)

LEMMA WorkTyped == ASSUME ControlInv PROVE StackTypes
BY DEF ControlInv, TypeOK, StackTypes, FrameSet

\* Whoever acts is alive.
LEMMA ActsNow ==
  ASSUME ControlInv, NEW a \in Actors,
         \/ InPerl(a)
         \/ \E p \in Places, t \in Actors : At(a, p, t)
  PROVE  Alive(a)
<1>1. CASE InPerl(a)
  BY <1>1 DEF InPerl, Alive
<1>2. ASSUME NEW p \in Places, NEW t \in Actors, At(a, p, t)
      PROVE  Alive(a)
  BY <1>2, WorkTyped, TopIsPending DEF ControlInv, FrameTypes, FrameOK
<1> QED
  BY <1>1, <1>2

\* Once the main interpreter is gone, threads only exit.
LEMMA NotCleaned ==
  ASSUME ThreadInv, NEW a \in Actors,
         \/ InPerl(a)
         \/ \E p \in Places \ {"exit"}, t \in Actors : At(a, p, t)
  PROVE  ended # "cleaned"
<1> SUFFICES ASSUME ended = "cleaned" PROVE FALSE
  OBVIOUS
<1>1. a \in Tids /\ os[a] = "running"
  BY ActsNow DEF ThreadInv, Alive, Actors
<1>2. work[a] = <<Frame("exit", a)>>
  BY <1>1 DEF ThreadInv, CountInv, PoolOutlivesThreads
<1>3. ~InPerl(a)
  BY <1>2 DEF InPerl
<1>4. PICK p \in Places \ {"exit"}, t \in Actors : At(a, p, t)
  BY <1>3
<1> QED
  BY <1>2, <1>4, FramesDiffer DEF At, Top

\* A thread that somebody has a reference to is not being freed.
LEMMA Referenced ==
  ASSUME ThreadInv, NEW t \in Tids, Born(t), Viable(t), ~NoRefs(t)
  PROVE  /\ mem[t] = "alloc" /\ count[t] = References(t)
         /\ \A a \in Actors, p \in EndPlaces : ~Pending(a, p, t)
<1>1. mem[t] = "alloc"
  BY DEF ThreadInv, ControlInv, CountInv, Unborn, Accounted, TypeOK
<1>2. count[t] = References(t)
  BY <1>1 DEF ThreadInv, CountInv, Accounted
<1>3. ASSUME NEW a \in Actors, NEW p \in EndPlaces, Pending(a, p, t) PROVE FALSE
  BY <1>1, <1>3 DEF ThreadInv, CountInv, Freeing, EndPlaces
<1> QED
  BY <1>1, <1>2, <1>3

LEMMA QuietRefs ==
  ASSUME UNCHANGED <<state, objs, os>>,
         \A b \in Actors, u \in Tids :
           /\ (Pending(b, "clone", u) \/ Pending(b, "start", u))' <=>
                Pending(b, "clone", u) \/ Pending(b, "start", u)
           /\ Pending(b, "run_ref", u)' <=> Pending(b, "run_ref", u),
         \A u \in Tids :
           (\E b \in Actors, p \in JoinPlaces : Pending(b, p, u)') <=>
             \E b \in Actors, p \in JoinPlaces : Pending(b, p, u)
  PROVE  \A u \in Tids : RefsSame(u)
<1> SUFFICES ASSUME NEW u \in Tids PROVE RefsSame(u)
  OBVIOUS
<1>1. ObjectHolders(u)' = ObjectHolders(u)
  BY DEF ObjectHolders
<1>2. RunHolds(u)' <=> RunHolds(u)
  BY DEF RunHolds, Actors
<1>3. JoinHolds(u)' <=> JoinHolds(u)
  BY DEF JoinHolds, Uncallable, JoinPlaces
<1> QED
  BY <1>1, <1>2, <1>3 DEF RefsSame

LEMMA AccountedSame ==
  ASSUME Accounted, \A u \in Tids : RefsSame(u), UNCHANGED <<mem, count, state>>
  PROVE  Accounted'
<1>1. \A u \in Tids : References(u)' = References(u) /\ (NoRefs(u)' <=> NoRefs(u))
  BY RefsUnchanged
<1> QED
  BY <1>1 DEF Accounted, Viable

LEMMA InterpretersSame ==
  ASSUME Interpreters, \A u \in Tids : NoRefs(u) => NoRefs(u)',
         UNCHANGED <<interp, state, tid_counter>>
  PROVE  Interpreters'
BY DEF Interpreters, Viable, Born

LEMMA PoolCountersSame ==
  ASSUME PoolCounters, \A b \in Actors, u \in Tids : Pending(b, "joined", u)' <=> Pending(b, "joined", u),
         UNCHANGED <<os, state, running_threads, joinable_threads, detached_threads>>
  PROVE  PoolCounters'
<1>1. TakenOff' = TakenOff
  BY DEF TakenOff
<1>2. \A fin, det \in BOOLEAN : InState(fin, det)' = InState(fin, det)
  BY DEF InState
<1> QED
  BY <1>1, <1>2 DEF PoolCounters

LEMMA TotalSame ==
  ASSUME TotalIsRight, \A b \in Actors, u \in Tids : Pending(b, "total", u)' <=> Pending(b, "total", u),
         UNCHANGED <<mem, total_threads>>
  PROVE  TotalIsRight'
<1>1. Counted' = Counted
  BY DEF Counted
<1> QED
  BY <1>1 DEF TotalIsRight

\* A step that only goes on in C code, and neither takes nor gives a reference.
LEMMA QuietCounts ==
  ASSUME ThreadInv, ended # "cleaned",
         UNCHANGED <<mem, count, state, objs, os, tid_counter, counters, ended>>,
         \A b \in Actors, u \in Tids :
           /\ (Pending(b, "clone", u) \/ Pending(b, "start", u))' <=>
                Pending(b, "clone", u) \/ Pending(b, "start", u)
           /\ Pending(b, "run_ref", u)' <=> Pending(b, "run_ref", u)
           /\ Pending(b, "joined", u)' <=> Pending(b, "joined", u)
           /\ Pending(b, "total", u)' <=> Pending(b, "total", u),
         \A u \in Tids :
           (\E b \in Actors, p \in JoinPlaces : Pending(b, p, u)') <=>
             \E b \in Actors, p \in JoinPlaces : Pending(b, p, u)
  PROVE  /\ \A u \in Tids : NoRefs(u)' <=> NoRefs(u)
         /\ Accounted' /\ PoolCounters' /\ TotalIsRight' /\ PoolOutlivesThreads'
         /\ UNCHANGED interp => Interpreters'
<1>1. \A u \in Tids : RefsSame(u)
  <2>1. UNCHANGED <<state, objs, os>>
    OBVIOUS
  <2> QED
    BY <2>1, QuietRefs
<1>2. \A u \in Tids : NoRefs(u)' <=> NoRefs(u)
  BY <1>1, RefsUnchanged
<1>3. Accounted'
  <2>1. UNCHANGED <<mem, count, state>> /\ Accounted
    BY DEF ThreadInv, CountInv
  <2> QED
    BY <1>1, <2>1, AccountedSame
<1>4. UNCHANGED interp => Interpreters'
  <2> SUFFICES ASSUME UNCHANGED interp PROVE Interpreters'
    OBVIOUS
  <2>1. UNCHANGED <<interp, state, tid_counter>> /\ Interpreters
    BY DEF ThreadInv, CountInv
  <2> QED
    BY <1>2, <2>1, InterpretersSame
<1>5. PoolCounters'
  <2>1. /\ UNCHANGED <<os, state, running_threads, joinable_threads, detached_threads>>
        /\ PoolCounters
    BY DEF ThreadInv, CountInv, counters
  <2> QED
    BY <2>1, PoolCountersSame
<1>6. TotalIsRight'
  <2>1. UNCHANGED <<mem, total_threads>> /\ TotalIsRight
    BY DEF ThreadInv, CountInv, counters
  <2> QED
    BY <2>1, TotalSame
<1>7. PoolOutlivesThreads'
  BY DEF PoolOutlivesThreads
<1> QED
  BY <1>2, <1>3, <1>4, <1>5, <1>6, <1>7

-----------------------------------------------------------------------------
(* The steps.                                                              *)

\* A stack has one frame that is the last.
LEMMA OneBottom ==
  ASSUME StackTypes, NEW a \in Actors, NEW p \in BottomPlaces, NEW t, Pending(a, p, t),
         NEW q \in BottomPlaces, NEW u, Pending(a, q, u)
  PROVE  p = q /\ t = u
<1>1. PICK i \in DOMAIN work[a] : work[a][i] = Frame(p, t)
  BY DEF Pending
<1>2. PICK j \in DOMAIN work[a] : work[a][j] = Frame(q, u)
  BY DEF Pending
<1>3. DOMAIN work[a] = 1 .. Len(work[a]) /\ BottomLast(work[a])
  BY DEF StackTypes, Stacks, Shape
<1>4. i = Len(work[a]) /\ j = Len(work[a])
  BY <1>1, <1>2, <1>3 DEF BottomLast, Frame
<1> QED
  BY <1>1, <1>2, <1>4, FramesDiffer

LEMMA NoTopUnder ==
  ASSUME StackTypes, NEW a \in Actors, NEW p \in Places \ TopPlaces, NEW t \in Actors, At(a, p, t),
         NEW q \in TopPlaces, NEW u
  PROVE  ~Pending(a, q, u)
<1>1. NoTop(work[a])
  BY RestIsAll DEF Rest
<1>2. Frame(q, u) \notin InSeq(work[a])
  BY <1>1 DEF InSeq, NoTop, Frame
<1> QED
  BY <1>2, PendingIsIn

LEMMA LookInv ==
  ASSUME ThreadInv, NEW a \in Actors, NEW t \in Tids, Look(a, t)
  PROVE  ThreadInv'
<1>1. /\ StackTypes /\ t \in Actors /\ Pending(a, "look", t)
      /\ ~Pending(a, "take", t) /\ Pending(a, "unpool", a)
      /\ Alive(a) /\ (t \in listed => Born(t) /\ (Viable(t) => os[t] # "none"))
  <2>1. StackTypes /\ t \in Actors /\ At(a, "look", t) /\ "look" \in Places \ TopPlaces
    BY WorkTyped DEF ThreadInv, Actors, Look, Places, TopPlaces
  <2>2. Pending(a, "look", t) /\ ~Pending(a, "take", t)
    BY <2>1, TopIsPending, NoTopUnder DEF TopPlaces
  <2>3. Pending(a, "unpool", a)
    BY <2>1, <2>2 DEF ThreadInv, ControlInv, Looking
  <2>4. \A u : ~Pending(a, "clone", u) /\ ~Pending(a, "start", u)
    BY <2>1, <2>3, OneBottom DEF BottomPlaces
  <2>5. Alive(a)
    BY <2>1, ActsNow DEF ThreadInv
  <2>6. t \in listed => Born(t)
    BY DEF ThreadInv, ControlInv, Unborn
  <2>7. ASSUME Born(t), Viable(t), os[t] = "none" PROVE FALSE
    <3>1. PICK b \in Actors : Pending(b, "clone", t) \/ Pending(b, "start", t)
      BY <2>7 DEF ThreadInv, ControlInv, Running
    <3>2. pool = b /\ pool = a
      BY <2>1, <2>3, <3>1 DEF ThreadInv, ControlInv, PoolIsHeld, PoolPlaces
    <3> QED
      BY <2>4, <3>1, <3>2
  <2> QED
    BY <2>1, <2>2, <2>3, <2>5, <2>6, <2>7
<1>2. /\ StackTypes'
      /\ \A b \in Actors : \A q, u :
           Pending(b, q, u)' <=> \/ b = a /\ u = t /\ q = "take" /\ t \in listed /\ ~Uncallable(t)
                                 \/ Pending(b, q, u) /\ ~(b = a /\ u = t /\ q = "look")
  <2>1. "look" \in Places /\ "take" \in Places /\ "take" \notin BottomPlaces /\ At(a, "look", t)
    BY DEF Places, BottomPlaces, Look
  <2>2. CASE t \in listed /\ ~Uncallable(t)
    <3>1. Then(a, <<Frame("take", t)>>)
      BY <2>2 DEF Look
    <3>2. Turns(a, t, {"look"}, {"take"})
      BY <1>1, <2>1, <3>1, TurnOne
    <3> QED
      BY <2>2, <3>2 DEF Turns
  <2>3. CASE ~(t \in listed /\ ~Uncallable(t))
    <3>1. Then(a, <<>>)
      BY <2>3 DEF Look
    <3>2. Turns(a, t, {"look"}, {})
      BY <1>1, <2>1, <3>1, TurnPop
    <3> QED
      BY <2>3, <3>2 DEF Turns
  <2> QED
    BY <2>2, <2>3
<1>3. ended # "cleaned"
  BY <1>1, NotCleaned DEF Look, Places
<1>4. UNCHANGED <<pool, mutex, mem, listed, count, state, interp, objs, os, tid_counter,
                  counters, ended>>
  BY DEF Look, locks, struct
<1>5. TypeOK' /\ Stacks'
  BY <1>1, <1>2, <1>4 DEF ThreadInv, ControlInv, TypeOK, StackTypes, FrameSet, counters
<1>b0. FrameTypes'
  <2> SUFFICES ASSUME NEW b \in Actors, NEW u \in Actors, NEW p \in Places, Pending(b, p, u)'
               PROVE  FrameOK(b, p, u)'
    BY DEF FrameTypes
  <2>1. CASE Pending(b, p, u)
    <3>1. FrameOK(b, p, u)
      BY <2>1 DEF ThreadInv, ControlInv, FrameTypes
    <3> QED
      BY <1>4, <3>1 DEF FrameOK, Alive, Born
  <2>2. CASE ~Pending(b, p, u)
    BY <1>1, <1>2, <1>4, <2>2 DEF FrameOK, Alive, Born, RunPlaces
  <2> QED
    BY <2>1, <2>2
<1>b1. PoolIsHeld'
  BY <1>1, <1>2, <1>4 DEF ThreadInv, ControlInv, PoolIsHeld, PoolPlaces
<1>b2. Creating'
  BY <1>1, <1>2, <1>4 DEF ThreadInv, ControlInv, Creating
<1>b3. Looking'
  BY <1>1, <1>2, <1>4 DEF ThreadInv, ControlInv, Looking, Viable, Uncallable
<1>b4. Ending'
  BY <1>1, <1>2, <1>4 DEF ThreadInv, ControlInv, Ending, RunPlaces, Actors
<1>b5. Joining'
  BY <1>1, <1>2, <1>4 DEF ThreadInv, ControlInv, Joining, Uncallable
<1>b6. OneJoiner'
  BY <1>1, <1>2, <1>4 DEF ThreadInv, ControlInv, OneJoiner, JoinPlaces
<1>b7. Clearing'
  BY <1>1, <1>2, <1>4 DEF ThreadInv, ControlInv, Clearing
<1>b8. OneEnd'
  BY <1>1, <1>2, <1>4 DEF ThreadInv, ControlInv, OneEnd, EndPlaces
<1>b9. Unborn'
  BY <1>1, <1>2, <1>4 DEF ThreadInv, ControlInv, Unborn, Born
<1>b10. Running'
  BY <1>1, <1>2, <1>4 DEF ThreadInv, ControlInv, Running, Born, Viable
<1>6. /\ \A u \in Tids : NoRefs(u)' <=> NoRefs(u)
      /\ Interpreters' /\ Accounted' /\ PoolCounters' /\ TotalIsRight' /\ PoolOutlivesThreads'
  <2>1. \A b \in Actors, u \in Tids :
          /\ (Pending(b, "clone", u) \/ Pending(b, "start", u))' <=>
               Pending(b, "clone", u) \/ Pending(b, "start", u)
          /\ Pending(b, "run_ref", u)' <=> Pending(b, "run_ref", u)
          /\ Pending(b, "joined", u)' <=> Pending(b, "joined", u)
          /\ Pending(b, "total", u)' <=> Pending(b, "total", u)
    BY <1>1, <1>2 DEF Actors
  <2>2. ASSUME NEW u \in Tids
        PROVE  (\E b \in Actors, p \in JoinPlaces : Pending(b, p, u)') <=>
                 \E b \in Actors, p \in JoinPlaces : Pending(b, p, u)
    BY <1>1, <1>2 DEF Actors, JoinPlaces
  <2> QED
    BY <1>3, <1>4, <2>1, <2>2, QuietCounts
<1>7. Freeing'
  BY <1>1, <1>2, <1>4, <1>6 DEF ThreadInv, CountInv, Freeing, Viable
<1> QED
  BY <1>5, <1>b0, <1>b1, <1>b2, <1>b3, <1>b4, <1>b5, <1>b6, <1>b7, <1>b8, <1>b9, <1>b10, <1>6, <1>7 DEF ThreadInv, ControlInv, CountInv

\* What a frame on top says.
LEMMA AtFacts ==
  ASSUME ThreadInv, NEW a \in Actors, NEW p \in Places, NEW t \in Actors, At(a, p, t)
  PROVE  StackTypes /\ Pending(a, p, t) /\ FrameOK(a, p, t) /\ Alive(a)
<1>1. StackTypes /\ Pending(a, p, t)
  BY WorkTyped, TopIsPending DEF ThreadInv
<1> QED
  BY <1>1 DEF ThreadInv, ControlInv, FrameTypes, FrameOK

\* A frame that is the last, on top, is the only one.
LEMMA OnlyBottom ==
  ASSUME StackTypes, NEW a \in Actors, NEW p \in BottomPlaces, NEW t \in Actors, At(a, p, t),
         NEW q, NEW u, Pending(a, q, u)
  PROVE  q = p /\ u = t
<1>1. Tail(work[a]) = <<>>
  BY NothingUnderBottom
<1>2. InSeq(work[a]) \ {Frame(p, t)} = {}
  BY <1>1, RestOfTop, EmptyShape DEF Rest
<1>3. Frame(q, u) = Frame(p, t)
  BY <1>2, PendingIsIn
<1> QED
  BY <1>3, FramesDiffer

LEMMA NothingPending ==
  ASSUME ThreadInv, NEW a \in Actors, InPerl(a)
  PROVE  StackTypes /\ Alive(a) /\ work[a] = <<>> /\ \A q, u : ~Pending(a, q, u)
<1>1. StackTypes /\ Alive(a) /\ work[a] = <<>>
  BY WorkTyped, ActsNow DEF ThreadInv, InPerl
<1> QED
  BY <1>1, PendingIsIn, EmptyShape

LEMMA UnpoolInv ==
  ASSUME ThreadInv, NEW a \in Actors, Unpool(a)
  PROVE  ThreadInv'
<1>1. /\ StackTypes /\ Alive(a) /\ Pending(a, "unpool", a) /\ pool = a
      /\ \A q, u : Pending(a, q, u) => q = "unpool" /\ u = a
  <2>1. At(a, "unpool", a) /\ "unpool" \in Places /\ "unpool" \in BottomPlaces /\ "unpool" \in PoolPlaces
    BY DEF Unpool, Places, BottomPlaces, PoolPlaces
  <2>2. StackTypes /\ Alive(a) /\ Pending(a, "unpool", a)
    BY <2>1, AtFacts
  <2>3. pool = a
    BY <2>1, <2>2 DEF ThreadInv, ControlInv, PoolIsHeld
  <2> QED
    BY <2>1, <2>2, <2>3, OnlyBottom
<1>2. /\ StackTypes'
      /\ \A b \in Actors : \A q, u :
           Pending(b, q, u)' <=> Pending(b, q, u) /\ ~(b = a /\ u = a /\ q = "unpool")
  <2>1. Turns(a, a, {"unpool"}, {})
    BY <1>1, TurnPop DEF Unpool, Places
  <2> QED
    BY <2>1 DEF Turns
<1>3. ended # "cleaned"
  BY NotCleaned DEF Unpool, Places
<1>4. /\ pool' = None
      /\ UNCHANGED <<mutex, mem, listed, count, state, interp, objs, os, tid_counter,
                     counters, ended>>
  BY DEF Unpool, struct
<1>5. TypeOK' /\ Stacks'
  BY <1>1, <1>2, <1>4 DEF ThreadInv, ControlInv, TypeOK, StackTypes, FrameSet, counters
<1>b0. FrameTypes'
  <2> SUFFICES ASSUME NEW b \in Actors, NEW u \in Actors, NEW p \in Places, Pending(b, p, u)'
               PROVE  FrameOK(b, p, u)'
    BY DEF FrameTypes
  <2>1. CASE Pending(b, p, u)
    <3>1. FrameOK(b, p, u)
      BY <2>1 DEF ThreadInv, ControlInv, FrameTypes
    <3> QED
      BY <1>4, <3>1 DEF FrameOK, Alive, Born
  <2>2. CASE ~Pending(b, p, u)
    BY <1>1, <1>2, <1>4, <2>2 DEF FrameOK, Alive, Born, RunPlaces
  <2> QED
    BY <2>1, <2>2
<1>b1. PoolIsHeld'
  BY <1>1, <1>2, <1>4 DEF ThreadInv, ControlInv, PoolIsHeld, PoolPlaces
<1>b2. Creating'
  BY <1>1, <1>2, <1>4 DEF ThreadInv, ControlInv, Creating
<1>b3. Looking'
  BY <1>1, <1>2, <1>4 DEF ThreadInv, ControlInv, Looking, Viable, Uncallable
<1>b4. Ending'
  BY <1>1, <1>2, <1>4 DEF ThreadInv, ControlInv, Ending, RunPlaces, Actors
<1>b5. Joining'
  BY <1>1, <1>2, <1>4 DEF ThreadInv, ControlInv, Joining, Uncallable
<1>b6. OneJoiner'
  BY <1>1, <1>2, <1>4 DEF ThreadInv, ControlInv, OneJoiner, JoinPlaces
<1>b7. Clearing'
  BY <1>1, <1>2, <1>4 DEF ThreadInv, ControlInv, Clearing
<1>b8. OneEnd'
  BY <1>1, <1>2, <1>4 DEF ThreadInv, ControlInv, OneEnd, EndPlaces
<1>b9. Unborn'
  BY <1>1, <1>2, <1>4 DEF ThreadInv, ControlInv, Unborn, Born
<1>b10. Running'
  BY <1>1, <1>2, <1>4 DEF ThreadInv, ControlInv, Running, Born, Viable
<1>6. /\ \A u \in Tids : NoRefs(u)' <=> NoRefs(u)
      /\ Interpreters' /\ Accounted' /\ PoolCounters' /\ TotalIsRight' /\ PoolOutlivesThreads'
  <2>1. \A b \in Actors, u \in Tids :
          /\ (Pending(b, "clone", u) \/ Pending(b, "start", u))' <=>
               Pending(b, "clone", u) \/ Pending(b, "start", u)
          /\ Pending(b, "run_ref", u)' <=> Pending(b, "run_ref", u)
          /\ Pending(b, "joined", u)' <=> Pending(b, "joined", u)
          /\ Pending(b, "total", u)' <=> Pending(b, "total", u)
    BY <1>1, <1>2 DEF Actors
  <2>2. ASSUME NEW u \in Tids
        PROVE  (\E b \in Actors, p \in JoinPlaces : Pending(b, p, u)') <=>
                 \E b \in Actors, p \in JoinPlaces : Pending(b, p, u)
    BY <1>1, <1>2 DEF Actors, JoinPlaces
  <2> QED
    BY <1>3, <1>4, <2>1, <2>2, QuietCounts
<1>7. Freeing'
  BY <1>1, <1>2, <1>4, <1>6 DEF ThreadInv, CountInv, Freeing, Viable
<1> QED
  BY <1>5, <1>b0, <1>b1, <1>b2, <1>b3, <1>b4, <1>b5, <1>b6, <1>b7, <1>b8, <1>b9, <1>b10, <1>6, <1>7 DEF ThreadInv, ControlInv, CountInv

LEMMA LocaleTermInv ==
  ASSUME ThreadInv, NEW t \in Tids, LocaleTerm(t)
  PROVE  ThreadInv'
<1>1. /\ StackTypes /\ t \in Actors /\ t # Main /\ Alive(t) /\ Pending(t, "term", t)
  <2>1. t \in Actors /\ At(t, "term", t) /\ "term" \in Places /\ t # Main
    BY DEF LocaleTerm, Places, Actors, Tids, Main
  <2> QED
    BY <2>1, AtFacts
<1>2. /\ StackTypes'
      /\ \A b \in Actors : \A q, u :
           Pending(b, q, u)' <=> Pending(b, q, u) /\ ~(b = t /\ u = t /\ q = "term")
  <2>1. Turns(t, t, {"term"}, {})
    BY <1>1, TurnPop DEF LocaleTerm, Places
  <2> QED
    BY <2>1 DEF Turns
<1>3. ended # "cleaned"
  BY <1>1, NotCleaned DEF LocaleTerm, Places
<1>4. UNCHANGED <<pool, mutex, mem, listed, count, state, interp, objs, os, tid_counter,
                  counters, ended>>
  BY DEF LocaleTerm, locks, struct
<1>5. TypeOK' /\ Stacks'
  BY <1>1, <1>2, <1>4 DEF ThreadInv, ControlInv, TypeOK, StackTypes, FrameSet, counters
<1>b0. FrameTypes'
  <2> SUFFICES ASSUME NEW b \in Actors, NEW u \in Actors, NEW p \in Places, Pending(b, p, u)'
               PROVE  FrameOK(b, p, u)'
    BY DEF FrameTypes
  <2>1. CASE Pending(b, p, u)
    <3>1. FrameOK(b, p, u)
      BY <2>1 DEF ThreadInv, ControlInv, FrameTypes
    <3> QED
      BY <1>4, <3>1 DEF FrameOK, Alive, Born
  <2>2. CASE ~Pending(b, p, u)
    BY <1>1, <1>2, <1>4, <2>2 DEF FrameOK, Alive, Born, RunPlaces
  <2> QED
    BY <2>1, <2>2
<1>b1. PoolIsHeld'
  BY <1>1, <1>2, <1>4 DEF ThreadInv, ControlInv, PoolIsHeld, PoolPlaces
<1>b2. Creating'
  BY <1>1, <1>2, <1>4 DEF ThreadInv, ControlInv, Creating
<1>b3. Looking'
  BY <1>1, <1>2, <1>4 DEF ThreadInv, ControlInv, Looking, Viable, Uncallable
<1>b4. Ending'
  BY <1>1, <1>2, <1>4 DEF ThreadInv, ControlInv, Ending, RunPlaces, Actors
<1>b5. Joining'
  BY <1>1, <1>2, <1>4 DEF ThreadInv, ControlInv, Joining, Uncallable
<1>b6. OneJoiner'
  BY <1>1, <1>2, <1>4 DEF ThreadInv, ControlInv, OneJoiner, JoinPlaces
<1>b7. Clearing'
  BY <1>1, <1>2, <1>4 DEF ThreadInv, ControlInv, Clearing
<1>b8. OneEnd'
  BY <1>1, <1>2, <1>4 DEF ThreadInv, ControlInv, OneEnd, EndPlaces
<1>b9. Unborn'
  BY <1>1, <1>2, <1>4 DEF ThreadInv, ControlInv, Unborn, Born
<1>b10. Running'
  BY <1>1, <1>2, <1>4 DEF ThreadInv, ControlInv, Running, Born, Viable
<1>6. /\ \A u \in Tids : NoRefs(u)' <=> NoRefs(u)
      /\ Interpreters' /\ Accounted' /\ PoolCounters' /\ TotalIsRight' /\ PoolOutlivesThreads'
  <2>1. \A b \in Actors, u \in Tids :
          /\ (Pending(b, "clone", u) \/ Pending(b, "start", u))' <=>
               Pending(b, "clone", u) \/ Pending(b, "start", u)
          /\ Pending(b, "run_ref", u)' <=> Pending(b, "run_ref", u)
          /\ Pending(b, "joined", u)' <=> Pending(b, "joined", u)
          /\ Pending(b, "total", u)' <=> Pending(b, "total", u)
    BY <1>1, <1>2 DEF Actors
  <2>2. ASSUME NEW u \in Tids
        PROVE  (\E b \in Actors, p \in JoinPlaces : Pending(b, p, u)') <=>
                 \E b \in Actors, p \in JoinPlaces : Pending(b, p, u)
    BY <1>1, <1>2 DEF Actors, JoinPlaces
  <2> QED
    BY <1>3, <1>4, <2>1, <2>2, QuietCounts
<1>7. Freeing'
  BY <1>1, <1>2, <1>4, <1>6 DEF ThreadInv, CountInv, Freeing, Viable
<1> QED
  BY <1>5, <1>b0, <1>b1, <1>b2, <1>b3, <1>b4, <1>b5, <1>b6, <1>b7, <1>b8, <1>b9, <1>b10, <1>6, <1>7 DEF ThreadInv, ControlInv, CountInv

LEMMA PthreadJoinInv ==
  ASSUME ThreadInv, NEW a \in Actors, NEW t \in Tids, PthreadJoin(a, t)
  PROVE  ThreadInv'
<1>1. /\ StackTypes /\ t \in Actors /\ Alive(a) /\ Born(t) /\ Pending(a, "pthread_join", t)
      /\ \A q, u : Pending(a, q, u) => q = "pthread_join" /\ u = t
      /\ "JOINED" \in state[t]
  <2>1. /\ t \in Actors /\ At(a, "pthread_join", t) /\ "pthread_join" \in Places
        /\ "pthread_join" \in BottomPlaces /\ "pthread_join" \notin {"look", "unpool"}
    BY DEF PthreadJoin, Places, BottomPlaces, Actors
  <2>2. StackTypes /\ Alive(a) /\ Pending(a, "pthread_join", t) /\ Born(t)
    BY <2>1, AtFacts DEF FrameOK
  <2>3. "JOINED" \in state[t]
    BY <2>2 DEF ThreadInv, ControlInv, Joining
  <2> QED
    BY <2>1, <2>2, <2>3, OnlyBottom
<1>2. /\ StackTypes'
      /\ \A b \in Actors : \A q, u :
           Pending(b, q, u)' <=> \/ b = a /\ u = t /\ q = "free"
                                 \/ /\ b = a /\ u = t /\ q = "clear"
                                    /\ "FINISHED" \in state[t] /\ "DIED" \notin state[t]
                                 \/ Pending(b, q, u) /\ ~(b = a /\ u = t /\ q = "pthread_join")
  <2>1. /\ At(a, "pthread_join", t) /\ "pthread_join" \in BottomPlaces /\ "pthread_join" \in Places
        /\ "free" \in Places
    BY DEF PthreadJoin, BottomPlaces, Places
  <2>2. CASE "FINISHED" \in state[t] /\ "DIED" \notin state[t]
    <3>1. Then(a, <<Frame("clear", t), Frame("free", t)>>)
      BY <2>2 DEF PthreadJoin
    <3>2. ~Pending(a, "free", t) /\ ~Pending(a, "clear", t) /\ "free" \in {"free", "destroy"}
      BY <1>1
    <3>3. Turns(a, t, {"pthread_join"}, {"clear", "free"})
      BY <1>1, <2>1, <3>1, <3>2, TurnClear
    <3> QED
      BY <2>2, <3>3 DEF Turns
  <2>3. CASE ~("FINISHED" \in state[t] /\ "DIED" \notin state[t])
    <3>1. Then(a, <<Frame("free", t)>>)
      BY <2>3 DEF PthreadJoin, ThreadInv, ControlInv, Ending
    <3>2. Turns(a, t, {"pthread_join"}, {"free"})
      BY <1>1, <2>1, <3>1, TurnOne
    <3> QED
      BY <2>3, <3>2 DEF Turns
  <2> QED
    BY <2>2, <2>3
<1>3. ended # "cleaned"
  BY <1>1, NotCleaned DEF PthreadJoin, Places
<1>4. /\ mutex' = [mutex EXCEPT ![t] = a]
      /\ UNCHANGED <<pool, mem, listed, count, state, interp, objs, os, tid_counter,
                     counters, ended>>
  BY DEF PthreadJoin, struct
<1>5. TypeOK' /\ Stacks'
  BY <1>1, <1>2, <1>4 DEF ThreadInv, ControlInv, TypeOK, StackTypes, FrameSet, counters
<1>b0. FrameTypes'
  <2> SUFFICES ASSUME NEW b \in Actors, NEW u \in Actors, NEW p \in Places, Pending(b, p, u)'
               PROVE  FrameOK(b, p, u)'
    BY DEF FrameTypes
  <2>1. CASE Pending(b, p, u)
    <3>1. FrameOK(b, p, u)
      BY <2>1 DEF ThreadInv, ControlInv, FrameTypes
    <3> QED
      BY <1>4, <3>1 DEF FrameOK, Alive, Born
  <2>2. CASE ~Pending(b, p, u)
    BY <1>1, <1>2, <1>4, <2>2 DEF FrameOK, Alive, Born, RunPlaces
  <2> QED
    BY <2>1, <2>2
<1>b1. PoolIsHeld'
  BY <1>1, <1>2, <1>4 DEF ThreadInv, ControlInv, PoolIsHeld, PoolPlaces
<1>b2. Creating'
  BY <1>1, <1>2, <1>4 DEF ThreadInv, ControlInv, Creating
<1>b3. Looking'
  BY <1>1, <1>2, <1>4 DEF ThreadInv, ControlInv, Looking, Viable, Uncallable
<1>b4. Ending'
  BY <1>1, <1>2, <1>4 DEF ThreadInv, ControlInv, Ending, RunPlaces, Actors
<1>b5. Joining'
  BY <1>1, <1>2, <1>4 DEF ThreadInv, ControlInv, Joining, Uncallable
<1>b6. OneJoiner'
  BY <1>1, <1>2, <1>4 DEF ThreadInv, ControlInv, OneJoiner, JoinPlaces
<1>b7. Clearing'
  BY <1>1, <1>2, <1>4 DEF ThreadInv, ControlInv, Clearing
<1>b8. OneEnd'
  BY <1>1, <1>2, <1>4 DEF ThreadInv, ControlInv, OneEnd, EndPlaces
<1>b9. Unborn'
  BY <1>1, <1>2, <1>4 DEF ThreadInv, ControlInv, Unborn, Born
<1>b10. Running'
  BY <1>1, <1>2, <1>4 DEF ThreadInv, ControlInv, Running, Born, Viable
<1>6. /\ \A u \in Tids : NoRefs(u)' <=> NoRefs(u)
      /\ Interpreters' /\ Accounted' /\ PoolCounters' /\ TotalIsRight' /\ PoolOutlivesThreads'
  <2>1. \A b \in Actors, u \in Tids :
          /\ (Pending(b, "clone", u) \/ Pending(b, "start", u))' <=>
               Pending(b, "clone", u) \/ Pending(b, "start", u)
          /\ Pending(b, "run_ref", u)' <=> Pending(b, "run_ref", u)
          /\ Pending(b, "joined", u)' <=> Pending(b, "joined", u)
          /\ Pending(b, "total", u)' <=> Pending(b, "total", u)
    BY <1>1, <1>2 DEF Actors
  <2>2. ASSUME NEW u \in Tids
        PROVE  (\E b \in Actors, p \in JoinPlaces : Pending(b, p, u)') <=>
                 \E b \in Actors, p \in JoinPlaces : Pending(b, p, u)
    BY <1>1, <1>2 DEF Actors, JoinPlaces
  <2> QED
    BY <1>3, <1>4, <2>1, <2>2, QuietCounts
<1>7. Freeing'
  BY <1>1, <1>2, <1>4, <1>6 DEF ThreadInv, CountInv, Freeing, Viable
<1> QED
  BY <1>5, <1>b0, <1>b1, <1>b2, <1>b3, <1>b4, <1>b5, <1>b6, <1>b7, <1>b8, <1>b9, <1>b10, <1>6, <1>7 DEF ThreadInv, ControlInv, CountInv

LEMMA DetachedInv ==
  ASSUME ThreadInv, NEW a \in Actors, NEW t \in Tids, Detached(a, t)
  PROVE  ThreadInv'
<1>1. /\ StackTypes /\ t \in Actors /\ Alive(a) /\ Born(t) /\ Pending(a, "detached", t)
      /\ \A q, u : Pending(a, q, u) => q = "detached" /\ u = t
      /\ "DETACHED" \in state[t]
  <2>1. /\ t \in Actors /\ At(a, "detached", t) /\ "detached" \in Places
        /\ "detached" \in BottomPlaces /\ "detached" \notin {"look", "unpool"}
    BY DEF Detached, Places, BottomPlaces, Actors
  <2>2. StackTypes /\ Alive(a) /\ Pending(a, "detached", t) /\ Born(t)
    BY <2>1, AtFacts DEF FrameOK
  <2>3. "DETACHED" \in state[t]
    BY <2>2 DEF ThreadInv, ControlInv, Joining
  <2> QED
    BY <2>1, <2>2, <2>3, OnlyBottom
<1>2. /\ StackTypes'
      /\ \A b \in Actors : \A q, u :
           Pending(b, q, u)' <=> \/ b = a /\ u = t /\ q = "free"
                                 \/ /\ b = a /\ u = t /\ q = "clear"
                                    /\ "FINISHED" \in state[t] /\ "DIED" \notin state[t]
                                 \/ Pending(b, q, u) /\ ~(b = a /\ u = t /\ q = "detached")
  <2>1. /\ At(a, "detached", t) /\ "detached" \in BottomPlaces /\ "detached" \in Places
        /\ "free" \in Places
    BY DEF Detached, BottomPlaces, Places
  <2>2. CASE "FINISHED" \in state[t] /\ "DIED" \notin state[t]
    <3>1. Then(a, <<Frame("clear", t), Frame("free", t)>>)
      BY <2>2 DEF Detached
    <3>2. ~Pending(a, "free", t) /\ ~Pending(a, "clear", t) /\ "free" \in {"free", "destroy"}
      BY <1>1
    <3>3. Turns(a, t, {"detached"}, {"clear", "free"})
      BY <1>1, <2>1, <3>1, <3>2, TurnClear
    <3> QED
      BY <2>2, <3>3 DEF Turns
  <2>3. CASE ~("FINISHED" \in state[t] /\ "DIED" \notin state[t])
    <3>1. Then(a, <<Frame("free", t)>>)
      BY <2>3 DEF Detached
    <3>2. Turns(a, t, {"detached"}, {"free"})
      BY <1>1, <2>1, <3>1, TurnOne
    <3> QED
      BY <2>3, <3>2 DEF Turns
  <2> QED
    BY <2>2, <2>3
<1>3. ended # "cleaned"
  BY <1>1, NotCleaned DEF Detached, Places
<1>4. /\ mutex' = [mutex EXCEPT ![t] = a]
      /\ UNCHANGED <<pool, mem, listed, count, state, interp, objs, os, tid_counter,
                     counters, ended>>
  BY DEF Detached, struct
<1>5. TypeOK' /\ Stacks'
  BY <1>1, <1>2, <1>4 DEF ThreadInv, ControlInv, TypeOK, StackTypes, FrameSet, counters
<1>b0. FrameTypes'
  <2> SUFFICES ASSUME NEW b \in Actors, NEW u \in Actors, NEW p \in Places, Pending(b, p, u)'
               PROVE  FrameOK(b, p, u)'
    BY DEF FrameTypes
  <2>1. CASE Pending(b, p, u)
    <3>1. FrameOK(b, p, u)
      BY <2>1 DEF ThreadInv, ControlInv, FrameTypes
    <3> QED
      BY <1>4, <3>1 DEF FrameOK, Alive, Born
  <2>2. CASE ~Pending(b, p, u)
    BY <1>1, <1>2, <1>4, <2>2 DEF FrameOK, Alive, Born, RunPlaces
  <2> QED
    BY <2>1, <2>2
<1>b1. PoolIsHeld'
  BY <1>1, <1>2, <1>4 DEF ThreadInv, ControlInv, PoolIsHeld, PoolPlaces
<1>b2. Creating'
  BY <1>1, <1>2, <1>4 DEF ThreadInv, ControlInv, Creating
<1>b3. Looking'
  BY <1>1, <1>2, <1>4 DEF ThreadInv, ControlInv, Looking, Viable, Uncallable
<1>b4. Ending'
  BY <1>1, <1>2, <1>4 DEF ThreadInv, ControlInv, Ending, RunPlaces, Actors
<1>b5. Joining'
  BY <1>1, <1>2, <1>4 DEF ThreadInv, ControlInv, Joining, Uncallable
<1>b6. OneJoiner'
  BY <1>1, <1>2, <1>4 DEF ThreadInv, ControlInv, OneJoiner, JoinPlaces
<1>b7. Clearing'
  BY <1>1, <1>2, <1>4 DEF ThreadInv, ControlInv, Clearing
<1>b8. OneEnd'
  BY <1>1, <1>2, <1>4 DEF ThreadInv, ControlInv, OneEnd, EndPlaces
<1>b9. Unborn'
  BY <1>1, <1>2, <1>4 DEF ThreadInv, ControlInv, Unborn, Born
<1>b10. Running'
  BY <1>1, <1>2, <1>4 DEF ThreadInv, ControlInv, Running, Born, Viable
<1>6. /\ \A u \in Tids : NoRefs(u)' <=> NoRefs(u)
      /\ Interpreters' /\ Accounted' /\ PoolCounters' /\ TotalIsRight' /\ PoolOutlivesThreads'
  <2>1. \A b \in Actors, u \in Tids :
          /\ (Pending(b, "clone", u) \/ Pending(b, "start", u))' <=>
               Pending(b, "clone", u) \/ Pending(b, "start", u)
          /\ Pending(b, "run_ref", u)' <=> Pending(b, "run_ref", u)
          /\ Pending(b, "joined", u)' <=> Pending(b, "joined", u)
          /\ Pending(b, "total", u)' <=> Pending(b, "total", u)
    BY <1>1, <1>2 DEF Actors
  <2>2. ASSUME NEW u \in Tids
        PROVE  (\E b \in Actors, p \in JoinPlaces : Pending(b, p, u)') <=>
                 \E b \in Actors, p \in JoinPlaces : Pending(b, p, u)
    BY <1>1, <1>2 DEF Actors, JoinPlaces
  <2> QED
    BY <1>3, <1>4, <2>1, <2>2, QuietCounts
<1>7. Freeing'
  BY <1>1, <1>2, <1>4, <1>6 DEF ThreadInv, CountInv, Freeing, Viable
<1> QED
  BY <1>5, <1>b0, <1>b1, <1>b2, <1>b3, <1>b4, <1>b5, <1>b6, <1>b7, <1>b8, <1>b9, <1>b10, <1>6, <1>7 DEF ThreadInv, ControlInv, CountInv

LEMMA UnlinkInv ==
  ASSUME ThreadInv, NEW a \in Actors, NEW t \in Tids, Unlink(a, t)
  PROVE  ThreadInv'
<1>1. /\ StackTypes /\ t \in Actors /\ Alive(a) /\ Born(t) /\ Pending(a, "unlink", t)
      /\ \A b \in Actors, p \in EndPlaces : Pending(b, p, t) => b = a /\ p = "unlink"
  <2>1. t \in Actors /\ At(a, "unlink", t) /\ "unlink" \in Places /\ "unlink" \notin {"look", "unpool"}
    BY DEF Unlink, Places, Actors
  <2>2. StackTypes /\ Alive(a) /\ Pending(a, "unlink", t) /\ Born(t)
    BY <2>1, AtFacts DEF FrameOK
  <2>3. \A b \in Actors, p \in EndPlaces : Pending(b, p, t) => b = a /\ p = "unlink"
    BY <2>2 DEF ThreadInv, ControlInv, OneEnd, EndPlaces
  <2> QED
    BY <2>1, <2>2, <2>3
<1>2. /\ StackTypes'
      /\ \A b \in Actors : \A q, u :
           Pending(b, q, u)' <=> \/ b = a /\ u = t /\ q = "disown"
                                 \/ Pending(b, q, u) /\ ~(b = a /\ u = t /\ q = "unlink")
  <2>1. /\ At(a, "unlink", t) /\ "unlink" \in Places /\ "disown" \in Places
        /\ "disown" \notin BottomPlaces /\ ~Pending(a, "disown", t)
        /\ Then(a, <<Frame("disown", t)>>)
    BY <1>1 DEF Unlink, BottomPlaces, Places, EndPlaces
  <2>2. Turns(a, t, {"unlink"}, {"disown"})
    BY <1>1, <2>1, TurnOne
  <2> QED
    BY <2>2 DEF Turns
<1>3. ended # "cleaned"
  BY <1>1, NotCleaned DEF Unlink, Places
<1>4. /\ listed' = listed \ {t}
      /\ UNCHANGED <<pool, mutex, mem, count, state, interp, objs, os, tid_counter,
                     counters, ended>>
  BY DEF Unlink, locks
<1>5. TypeOK' /\ Stacks'
  BY <1>1, <1>2, <1>4 DEF ThreadInv, ControlInv, TypeOK, StackTypes, FrameSet, counters
<1>b0. FrameTypes'
  <2> SUFFICES ASSUME NEW b \in Actors, NEW u \in Actors, NEW p \in Places, Pending(b, p, u)'
               PROVE  FrameOK(b, p, u)'
    BY DEF FrameTypes
  <2>1. CASE Pending(b, p, u)
    <3>1. FrameOK(b, p, u)
      BY <2>1 DEF ThreadInv, ControlInv, FrameTypes
    <3> QED
      BY <1>4, <3>1 DEF FrameOK, Alive, Born
  <2>2. CASE ~Pending(b, p, u)
    BY <1>1, <1>2, <1>4, <2>2 DEF FrameOK, Alive, Born, RunPlaces
  <2> QED
    BY <2>1, <2>2
<1>b1. PoolIsHeld'
  BY <1>1, <1>2, <1>4 DEF ThreadInv, ControlInv, PoolIsHeld, PoolPlaces
<1>b2. Creating'
  BY <1>1, <1>2, <1>4 DEF ThreadInv, ControlInv, Creating
<1>b3. Looking'
  BY <1>1, <1>2, <1>4 DEF ThreadInv, ControlInv, Looking, Viable, Uncallable
<1>b4. Ending'
  BY <1>1, <1>2, <1>4 DEF ThreadInv, ControlInv, Ending, RunPlaces, Actors
<1>b5. Joining'
  BY <1>1, <1>2, <1>4 DEF ThreadInv, ControlInv, Joining, Uncallable
<1>b6. OneJoiner'
  BY <1>1, <1>2, <1>4 DEF ThreadInv, ControlInv, OneJoiner, JoinPlaces
<1>b7. Clearing'
  BY <1>1, <1>2, <1>4 DEF ThreadInv, ControlInv, Clearing
<1>b8. OneEnd'
  BY <1>1, <1>2, <1>4 DEF ThreadInv, ControlInv, OneEnd, EndPlaces
<1>b9. Unborn'
  BY <1>1, <1>2, <1>4 DEF ThreadInv, ControlInv, Unborn, Born
<1>b10. Running'
  BY <1>1, <1>2, <1>4 DEF ThreadInv, ControlInv, Running, Born, Viable
<1>6. /\ \A u \in Tids : NoRefs(u)' <=> NoRefs(u)
      /\ Interpreters' /\ Accounted' /\ PoolCounters' /\ TotalIsRight' /\ PoolOutlivesThreads'
  <2>1. \A b \in Actors, u \in Tids :
          /\ (Pending(b, "clone", u) \/ Pending(b, "start", u))' <=>
               Pending(b, "clone", u) \/ Pending(b, "start", u)
          /\ Pending(b, "run_ref", u)' <=> Pending(b, "run_ref", u)
          /\ Pending(b, "joined", u)' <=> Pending(b, "joined", u)
          /\ Pending(b, "total", u)' <=> Pending(b, "total", u)
    BY <1>1, <1>2 DEF Actors
  <2>2. ASSUME NEW u \in Tids
        PROVE  (\E b \in Actors, p \in JoinPlaces : Pending(b, p, u)') <=>
                 \E b \in Actors, p \in JoinPlaces : Pending(b, p, u)
    BY <1>1, <1>2 DEF Actors, JoinPlaces
  <2> QED
    BY <1>3, <1>4, <2>1, <2>2, QuietCounts
<1>7. Freeing'
  BY <1>1, <1>2, <1>4, <1>6 DEF ThreadInv, CountInv, Freeing, Viable
<1> QED
  BY <1>5, <1>b0, <1>b1, <1>b2, <1>b3, <1>b4, <1>b5, <1>b6, <1>b7, <1>b8, <1>b9, <1>b10, <1>6, <1>7 DEF ThreadInv, ControlInv, CountInv

LEMMA DisownInv ==
  ASSUME ThreadInv, NEW a \in Actors, NEW t \in Tids, Disown(a, t)
  PROVE  ThreadInv'
<1>1. /\ StackTypes /\ t \in Actors /\ Alive(a) /\ Born(t) /\ Pending(a, "disown", t)
      /\ \A b \in Actors, p \in EndPlaces : Pending(b, p, t) => b = a /\ p = "disown"
      /\ mem[t] = "alloc" /\ (Viable(t) => NoRefs(t)) /\ ~Pending(a, "clear", t)
  <2>1. t \in Actors /\ At(a, "disown", t) /\ "disown" \in Places /\ "disown" \notin {"look", "unpool"}
    BY DEF Disown, Places, Actors
  <2>2. StackTypes /\ Alive(a) /\ Pending(a, "disown", t) /\ Born(t)
    BY <2>1, AtFacts DEF FrameOK
  <2>3. \A b \in Actors, p \in EndPlaces : Pending(b, p, t) => b = a /\ p = "disown"
    BY <2>2 DEF ThreadInv, ControlInv, OneEnd, EndPlaces
  <2>4. mem[t] = "alloc" /\ (Viable(t) => NoRefs(t))
    BY <2>2 DEF ThreadInv, CountInv, Freeing
  <2>5. ASSUME Pending(a, "clear", t) PROVE FALSE
    <3>1. ~Pending(a, "destroy", t)
      BY <2>3 DEF EndPlaces
    <3>2. Pending(a, "free", t)
      BY <2>5, <3>1 DEF ThreadInv, ControlInv, Clearing
    <3>3. Uncallable(t)
      BY <3>2 DEF ThreadInv, ControlInv, Joining
    <3>4. Viable(t)
      BY <3>3 DEF ThreadInv, ControlInv, Running, Uncallable
    <3>5. ~JoinHolds(t)
      BY <2>4, <3>4 DEF NoRefs
    <3> QED
      BY <3>2, <3>5 DEF JoinHolds
  <2> QED
    BY <2>1, <2>2, <2>3, <2>4, <2>5
<1>2. /\ StackTypes'
      /\ \A b \in Actors : \A q, u :
           Pending(b, q, u)' <=> \/ b = a /\ u = t /\ q \in {"clear", "destroy"}
                                 \/ Pending(b, q, u) /\ ~(b = a /\ u = t /\ q = "disown")
  <2>1. /\ At(a, "disown", t) /\ "disown" \in Places /\ "destroy" \in {"free", "destroy"}
        /\ ~Pending(a, "destroy", t) /\ ~Pending(a, "clear", t)
        /\ Then(a, <<Frame("clear", t), Frame("destroy", t)>>)
    BY <1>1 DEF Disown, Places, EndPlaces
  <2>2. Turns(a, t, {"disown"}, {"clear", "destroy"})
    BY <1>1, <2>1, TurnClear
  <2> QED
    BY <2>2 DEF Turns
<1>3. ended # "cleaned"
  BY <1>1, NotCleaned DEF Disown, Places
<1>4. /\ mutex' = [mutex EXCEPT ![t] = a]
      /\ UNCHANGED <<pool, mem, listed, count, state, interp, objs, os, tid_counter,
                     counters, ended>>
  BY DEF Disown, struct
<1>5. TypeOK' /\ Stacks'
  BY <1>1, <1>2, <1>4 DEF ThreadInv, ControlInv, TypeOK, StackTypes, FrameSet, counters
<1>b0. FrameTypes'
  <2> SUFFICES ASSUME NEW b \in Actors, NEW u \in Actors, NEW p \in Places, Pending(b, p, u)'
               PROVE  FrameOK(b, p, u)'
    BY DEF FrameTypes
  <2>1. CASE Pending(b, p, u)
    <3>1. FrameOK(b, p, u)
      BY <2>1 DEF ThreadInv, ControlInv, FrameTypes
    <3> QED
      BY <1>4, <3>1 DEF FrameOK, Alive, Born
  <2>2. CASE ~Pending(b, p, u)
    BY <1>1, <1>2, <1>4, <2>2 DEF FrameOK, Alive, Born, RunPlaces
  <2> QED
    BY <2>1, <2>2
<1>b1. PoolIsHeld'
  BY <1>1, <1>2, <1>4 DEF ThreadInv, ControlInv, PoolIsHeld, PoolPlaces
<1>b2. Creating'
  BY <1>1, <1>2, <1>4 DEF ThreadInv, ControlInv, Creating
<1>b3. Looking'
  BY <1>1, <1>2, <1>4 DEF ThreadInv, ControlInv, Looking, Viable, Uncallable
<1>b4. Ending'
  BY <1>1, <1>2, <1>4 DEF ThreadInv, ControlInv, Ending, RunPlaces, Actors
<1>b5. Joining'
  BY <1>1, <1>2, <1>4 DEF ThreadInv, ControlInv, Joining, Uncallable
<1>b6. OneJoiner'
  BY <1>1, <1>2, <1>4 DEF ThreadInv, ControlInv, OneJoiner, JoinPlaces
<1>b7. Clearing'
  BY <1>1, <1>2, <1>4 DEF ThreadInv, ControlInv, Clearing
<1>b8. OneEnd'
  BY <1>1, <1>2, <1>4 DEF ThreadInv, ControlInv, OneEnd, EndPlaces
<1>b9. Unborn'
  BY <1>1, <1>2, <1>4 DEF ThreadInv, ControlInv, Unborn, Born
<1>b10. Running'
  BY <1>1, <1>2, <1>4 DEF ThreadInv, ControlInv, Running, Born, Viable
<1>6. /\ \A u \in Tids : NoRefs(u)' <=> NoRefs(u)
      /\ Interpreters' /\ Accounted' /\ PoolCounters' /\ TotalIsRight' /\ PoolOutlivesThreads'
  <2>1. \A b \in Actors, u \in Tids :
          /\ (Pending(b, "clone", u) \/ Pending(b, "start", u))' <=>
               Pending(b, "clone", u) \/ Pending(b, "start", u)
          /\ Pending(b, "run_ref", u)' <=> Pending(b, "run_ref", u)
          /\ Pending(b, "joined", u)' <=> Pending(b, "joined", u)
          /\ Pending(b, "total", u)' <=> Pending(b, "total", u)
    BY <1>1, <1>2 DEF Actors
  <2>2. ASSUME NEW u \in Tids
        PROVE  (\E b \in Actors, p \in JoinPlaces : Pending(b, p, u)') <=>
                 \E b \in Actors, p \in JoinPlaces : Pending(b, p, u)
    BY <1>1, <1>2 DEF Actors, JoinPlaces
  <2> QED
    BY <1>3, <1>4, <2>1, <2>2, QuietCounts
<1>7. Freeing'
  BY <1>1, <1>2, <1>4, <1>6 DEF ThreadInv, CountInv, Freeing, Viable
<1> QED
  BY <1>5, <1>b0, <1>b1, <1>b2, <1>b3, <1>b4, <1>b5, <1>b6, <1>b7, <1>b8, <1>b9, <1>b10, <1>6, <1>7 DEF ThreadInv, ControlInv, CountInv

\* The last object has been cloned.
LEMMA ClonedInv ==
  ASSUME ThreadInv, NEW a \in Actors, NEW t \in Tids, Clone(a, t), objs[t] = objs[a]
  PROVE  ThreadInv'
<1>1. /\ StackTypes /\ t \in Actors /\ Alive(a) /\ Born(t) /\ Pending(a, "clone", t)
      /\ \A q, u : Pending(a, q, u) => q = "clone" /\ u = t
  <2>1. t \in Actors /\ At(a, "clone", t) /\ "clone" \in Places /\ "clone" \notin {"look", "unpool"}
    BY DEF Clone, Places, Actors
  <2>2. StackTypes /\ Alive(a) /\ Pending(a, "clone", t) /\ Born(t)
    BY <2>1, AtFacts DEF FrameOK
  <2> QED
    BY <2>1, <2>2, OnlyBottom DEF BottomPlaces
<1>2. /\ StackTypes'
      /\ \A b \in Actors : \A q, u :
           Pending(b, q, u)' <=> \/ b = a /\ u = t /\ q = "start"
                                 \/ Pending(b, q, u) /\ ~(b = a /\ u = t /\ q = "clone")
  <2>1. /\ At(a, "clone", t) /\ "clone" \in Places /\ "start" \in Places
        /\ "clone" \in BottomPlaces /\ ~Pending(a, "start", t)
        /\ Then(a, <<Frame("start", t)>>)
    BY <1>1 DEF Clone, BottomPlaces, Places
  <2>2. Turns(a, t, {"clone"}, {"start"})
    BY <1>1, <2>1, TurnOne
  <2> QED
    BY <2>2 DEF Turns
<1>3. ended # "cleaned"
  BY <1>1, NotCleaned DEF Clone, Places
<1>4. UNCHANGED <<pool, mutex, mem, listed, count, state, interp, objs, os, tid_counter,
                  counters, ended>>
  BY DEF Clone, locks
<1>5. TypeOK' /\ Stacks'
  BY <1>1, <1>2, <1>4 DEF ThreadInv, ControlInv, TypeOK, StackTypes, FrameSet, counters
<1>b0. FrameTypes'
  <2> SUFFICES ASSUME NEW b \in Actors, NEW u \in Actors, NEW p \in Places, Pending(b, p, u)'
               PROVE  FrameOK(b, p, u)'
    BY DEF FrameTypes
  <2>1. CASE Pending(b, p, u)
    <3>1. FrameOK(b, p, u)
      BY <2>1 DEF ThreadInv, ControlInv, FrameTypes
    <3> QED
      BY <1>4, <3>1 DEF FrameOK, Alive, Born
  <2>2. CASE ~Pending(b, p, u)
    BY <1>1, <1>2, <1>4, <2>2 DEF FrameOK, Alive, Born, RunPlaces
  <2> QED
    BY <2>1, <2>2
<1>b1. PoolIsHeld'
  BY <1>1, <1>2, <1>4 DEF ThreadInv, ControlInv, PoolIsHeld, PoolPlaces
<1>b2. Creating'
  BY <1>1, <1>2, <1>4 DEF ThreadInv, ControlInv, Creating
<1>b3. Looking'
  BY <1>1, <1>2, <1>4 DEF ThreadInv, ControlInv, Looking, Viable, Uncallable
<1>b4. Ending'
  BY <1>1, <1>2, <1>4 DEF ThreadInv, ControlInv, Ending, RunPlaces, Actors
<1>b5. Joining'
  BY <1>1, <1>2, <1>4 DEF ThreadInv, ControlInv, Joining, Uncallable
<1>b6. OneJoiner'
  BY <1>1, <1>2, <1>4 DEF ThreadInv, ControlInv, OneJoiner, JoinPlaces
<1>b7. Clearing'
  BY <1>1, <1>2, <1>4 DEF ThreadInv, ControlInv, Clearing
<1>b8. OneEnd'
  BY <1>1, <1>2, <1>4 DEF ThreadInv, ControlInv, OneEnd, EndPlaces
<1>b9. Unborn'
  BY <1>1, <1>2, <1>4 DEF ThreadInv, ControlInv, Unborn, Born
<1>b10. Running'
  BY <1>1, <1>2, <1>4 DEF ThreadInv, ControlInv, Running, Born, Viable
<1>6. /\ \A u \in Tids : NoRefs(u)' <=> NoRefs(u)
      /\ Interpreters' /\ Accounted' /\ PoolCounters' /\ TotalIsRight' /\ PoolOutlivesThreads'
  <2>1. \A b \in Actors, u \in Tids :
          /\ (Pending(b, "clone", u) \/ Pending(b, "start", u))' <=>
               Pending(b, "clone", u) \/ Pending(b, "start", u)
          /\ Pending(b, "run_ref", u)' <=> Pending(b, "run_ref", u)
          /\ Pending(b, "joined", u)' <=> Pending(b, "joined", u)
          /\ Pending(b, "total", u)' <=> Pending(b, "total", u)
    BY <1>1, <1>2 DEF Actors
  <2>2. ASSUME NEW u \in Tids
        PROVE  (\E b \in Actors, p \in JoinPlaces : Pending(b, p, u)') <=>
                 \E b \in Actors, p \in JoinPlaces : Pending(b, p, u)
    BY <1>1, <1>2 DEF Actors, JoinPlaces
  <2> QED
    BY <1>3, <1>4, <2>1, <2>2, QuietCounts
<1>7. Freeing'
  BY <1>1, <1>2, <1>4, <1>6 DEF ThreadInv, CountInv, Freeing, Viable
<1> QED
  BY <1>5, <1>b0, <1>b1, <1>b2, <1>b3, <1>b4, <1>b5, <1>b6, <1>b7, <1>b8, <1>b9, <1>b10, <1>6, <1>7 DEF ThreadInv, ControlInv, CountInv

LEMMA WalkInv ==
  ASSUME ThreadInv, NEW a \in Actors, NEW looks \in Seq(FrameSet),
         NEW L \in SUBSET Tids, InSeq(looks) = {Frame("look", t) : t \in L}, Distinct(looks), Walk(a, looks)
  PROVE  ThreadInv'
<1>1. /\ StackTypes /\ Alive(a) /\ work[a] = <<>> /\ pool = None /\ None \notin Actors
      /\ \A q, u : ~Pending(a, q, u)
  BY NothingPending, IthreadsAssumption DEF Walk
<1>2. /\ StackTypes'
      /\ \A b \in Actors : \A q, u :
           Pending(b, q, u)' <=> \/ b = a /\ q = "unpool" /\ u = a
                                 \/ b = a /\ q = "look" /\ u \in L
                                 \/ Pending(b, q, u)
  BY <1>1, WalkMoves DEF Walk
<1>3. ended # "cleaned"
  BY NotCleaned DEF Walk
<1>4. /\ pool' = a
      /\ UNCHANGED <<mutex, mem, listed, count, state, interp, objs, os, tid_counter,
                     counters, ended>>
  BY DEF Walk, struct
<1>5. TypeOK' /\ Stacks'
  BY <1>1, <1>2, <1>4 DEF ThreadInv, ControlInv, TypeOK, StackTypes, FrameSet, counters
<1>b0. FrameTypes'
  <2> SUFFICES ASSUME NEW b \in Actors, NEW u \in Actors, NEW p \in Places, Pending(b, p, u)'
               PROVE  FrameOK(b, p, u)'
    BY DEF FrameTypes
  <2>1. CASE Pending(b, p, u)
    <3>1. FrameOK(b, p, u)
      BY <2>1 DEF ThreadInv, ControlInv, FrameTypes
    <3> QED
      BY <1>4, <3>1 DEF FrameOK, Alive, Born
  <2>2. CASE ~Pending(b, p, u)
    BY <1>1, <1>2, <1>4, <2>2 DEF FrameOK, Alive, Born, RunPlaces
  <2> QED
    BY <2>1, <2>2
<1>b1. PoolIsHeld'
  BY <1>1, <1>2, <1>4 DEF ThreadInv, ControlInv, PoolIsHeld, PoolPlaces
<1>b2. Creating'
  BY <1>1, <1>2, <1>4 DEF ThreadInv, ControlInv, Creating
<1>b3. Looking'
  BY <1>1, <1>2, <1>4 DEF ThreadInv, ControlInv, Looking, Viable, Uncallable
<1>b4. Ending'
  BY <1>1, <1>2, <1>4 DEF ThreadInv, ControlInv, Ending, RunPlaces, Actors
<1>b5. Joining'
  BY <1>1, <1>2, <1>4 DEF ThreadInv, ControlInv, Joining, Uncallable
<1>b6. OneJoiner'
  BY <1>1, <1>2, <1>4 DEF ThreadInv, ControlInv, OneJoiner, JoinPlaces
<1>b7. Clearing'
  BY <1>1, <1>2, <1>4 DEF ThreadInv, ControlInv, Clearing
<1>b8. OneEnd'
  BY <1>1, <1>2, <1>4 DEF ThreadInv, ControlInv, OneEnd, EndPlaces
<1>b9. Unborn'
  BY <1>1, <1>2, <1>4 DEF ThreadInv, ControlInv, Unborn, Born
<1>b10. Running'
  BY <1>1, <1>2, <1>4 DEF ThreadInv, ControlInv, Running, Born, Viable
<1>6. /\ \A u \in Tids : NoRefs(u)' <=> NoRefs(u)
      /\ Interpreters' /\ Accounted' /\ PoolCounters' /\ TotalIsRight' /\ PoolOutlivesThreads'
  <2>1. \A b \in Actors, u \in Tids :
          /\ (Pending(b, "clone", u) \/ Pending(b, "start", u))' <=>
               Pending(b, "clone", u) \/ Pending(b, "start", u)
          /\ Pending(b, "run_ref", u)' <=> Pending(b, "run_ref", u)
          /\ Pending(b, "joined", u)' <=> Pending(b, "joined", u)
          /\ Pending(b, "total", u)' <=> Pending(b, "total", u)
    BY <1>1, <1>2 DEF Actors
  <2>2. ASSUME NEW u \in Tids
        PROVE  (\E b \in Actors, p \in JoinPlaces : Pending(b, p, u)') <=>
                 \E b \in Actors, p \in JoinPlaces : Pending(b, p, u)
    BY <1>1, <1>2 DEF Actors, JoinPlaces
  <2> QED
    BY <1>3, <1>4, <2>1, <2>2, QuietCounts
<1>7. Freeing'
  BY <1>1, <1>2, <1>4, <1>6 DEF ThreadInv, CountInv, Freeing, Viable
<1> QED
  BY <1>5, <1>b0, <1>b1, <1>b2, <1>b3, <1>b4, <1>b5, <1>b6, <1>b7, <1>b8, <1>b9, <1>b10, <1>6, <1>7 DEF ThreadInv, ControlInv, CountInv

LEMMA FinishInv ==
  ASSUME ThreadInv, NEW t \in Tids, Finish(t)
  PROVE  ThreadInv'
<1>1. /\ StackTypes /\ Alive(t) /\ t \in Actors /\ t # Main /\ Born(t) /\ work[t] = <<>>
      /\ pool = None /\ None \notin Actors
      /\ \A q, u : ~Pending(t, q, u)
      /\ "FINISHED" \notin state[t]
  <2>1. t \in Actors /\ InPerl(t) /\ t # Main
    BY DEF Finish, Actors
  <2>2. StackTypes /\ Alive(t) /\ work[t] = <<>> /\ \A q, u : ~Pending(t, q, u)
    BY <2>1, NothingPending
  <2>3. os[t] = "running"
    BY <2>1, <2>2 DEF Alive
  <2>4. Born(t) /\ "FINISHED" \notin state[t]
    BY <2>2, <2>3 DEF ThreadInv, ControlInv, Unborn, Ending
  <2> QED
    BY <2>1, <2>2, <2>4, IthreadsAssumption DEF Finish
<1>2. /\ StackTypes'
      /\ \A b \in Actors : \A q, u :
           Pending(b, q, u)' <=> \/ b = t /\ q = "finish" /\ u = t
                                 \/ Pending(b, q, u)
  <2>1. Turns(t, t, {}, {"finish"})
    BY <1>1, TurnCall DEF Finish, Places
  <2> QED
    BY <2>1 DEF Turns
<1>3. ended # "cleaned"
  BY <1>1, NotCleaned DEF Finish
<1>4. /\ pool' = t
      /\ UNCHANGED <<mutex, mem, listed, count, state, interp, objs, os, tid_counter,
                     counters, ended>>
  BY DEF Finish, struct
<1>5. TypeOK' /\ Stacks'
  BY <1>1, <1>2, <1>4 DEF ThreadInv, ControlInv, TypeOK, StackTypes, FrameSet, counters
<1>b0. FrameTypes'
  <2> SUFFICES ASSUME NEW b \in Actors, NEW u \in Actors, NEW p \in Places, Pending(b, p, u)'
               PROVE  FrameOK(b, p, u)'
    BY DEF FrameTypes
  <2>1. CASE Pending(b, p, u)
    <3>1. FrameOK(b, p, u)
      BY <2>1 DEF ThreadInv, ControlInv, FrameTypes
    <3> QED
      BY <1>4, <3>1 DEF FrameOK, Alive, Born
  <2>2. CASE ~Pending(b, p, u)
    BY <1>1, <1>2, <1>4, <2>2 DEF FrameOK, Alive, Born, RunPlaces
  <2> QED
    BY <2>1, <2>2
<1>b1. PoolIsHeld'
  BY <1>1, <1>2, <1>4 DEF ThreadInv, ControlInv, PoolIsHeld, PoolPlaces
<1>b2. Creating'
  BY <1>1, <1>2, <1>4 DEF ThreadInv, ControlInv, Creating
<1>b3. Looking'
  BY <1>1, <1>2, <1>4 DEF ThreadInv, ControlInv, Looking, Viable, Uncallable
<1>b4. Ending'
  BY <1>1, <1>2, <1>4 DEF ThreadInv, ControlInv, Ending, RunPlaces, Actors
<1>b5. Joining'
  BY <1>1, <1>2, <1>4 DEF ThreadInv, ControlInv, Joining, Uncallable
<1>b6. OneJoiner'
  BY <1>1, <1>2, <1>4 DEF ThreadInv, ControlInv, OneJoiner, JoinPlaces
<1>b7. Clearing'
  BY <1>1, <1>2, <1>4 DEF ThreadInv, ControlInv, Clearing
<1>b8. OneEnd'
  BY <1>1, <1>2, <1>4 DEF ThreadInv, ControlInv, OneEnd, EndPlaces
<1>b9. Unborn'
  BY <1>1, <1>2, <1>4 DEF ThreadInv, ControlInv, Unborn, Born
<1>b10. Running'
  BY <1>1, <1>2, <1>4 DEF ThreadInv, ControlInv, Running, Born, Viable
<1>6. /\ \A u \in Tids : NoRefs(u)' <=> NoRefs(u)
      /\ Interpreters' /\ Accounted' /\ PoolCounters' /\ TotalIsRight' /\ PoolOutlivesThreads'
  <2>1. \A b \in Actors, u \in Tids :
          /\ (Pending(b, "clone", u) \/ Pending(b, "start", u))' <=>
               Pending(b, "clone", u) \/ Pending(b, "start", u)
          /\ Pending(b, "run_ref", u)' <=> Pending(b, "run_ref", u)
          /\ Pending(b, "joined", u)' <=> Pending(b, "joined", u)
          /\ Pending(b, "total", u)' <=> Pending(b, "total", u)
    BY <1>1, <1>2 DEF Actors
  <2>2. ASSUME NEW u \in Tids
        PROVE  (\E b \in Actors, p \in JoinPlaces : Pending(b, p, u)') <=>
                 \E b \in Actors, p \in JoinPlaces : Pending(b, p, u)
    BY <1>1, <1>2 DEF Actors, JoinPlaces
  <2> QED
    BY <1>3, <1>4, <2>1, <2>2, QuietCounts
<1>7. Freeing'
  BY <1>1, <1>2, <1>4, <1>6 DEF ThreadInv, CountInv, Freeing, Viable
<1> QED
  BY <1>5, <1>b0, <1>b1, <1>b2, <1>b3, <1>b4, <1>b5, <1>b6, <1>b7, <1>b8, <1>b9, <1>b10, <1>6, <1>7 DEF ThreadInv, ControlInv, CountInv

LEMMA DetachInv ==
  ASSUME ThreadInv, NEW a \in Actors, NEW t \in Tids, Detach(a, t)
  PROVE  ThreadInv'
<1>1. /\ StackTypes /\ Alive(a) /\ t \in Actors /\ Born(t) /\ work[a] = <<>>
      /\ pool = None /\ None \notin Actors
      /\ \A q, u : ~Pending(a, q, u)
      /\ os[t] # "none"
  <2>1. t \in Actors /\ InPerl(a)
    BY DEF Detach, Actors
  <2>2. StackTypes /\ Alive(a) /\ work[a] = <<>> /\ \A q, u : ~Pending(a, q, u)
    BY <2>1, NothingPending
  <2>3. os[t] # "none"
    <3>1. CASE Usable(a, t)
      BY <3>1 DEF ThreadInv, ControlInv, Running, Usable
    <3>2. CASE t = a
      BY <2>2, <3>2 DEF Alive, Tids, Main
    <3> QED
      BY <3>1, <3>2 DEF Detach
  <2>4. Born(t)
    BY <2>3 DEF ThreadInv, ControlInv, Unborn
  <2> QED
    BY <2>1, <2>2, <2>3, <2>4, IthreadsAssumption DEF Detach
<1>2. /\ StackTypes'
      /\ \A b \in Actors : \A q, u :
           Pending(b, q, u)' <=> \/ b = a /\ q = "detach" /\ u = t
                                 \/ Pending(b, q, u)
  <2>1. Turns(a, t, {}, {"detach"})
    BY <1>1, TurnCall DEF Detach, Places
  <2> QED
    BY <2>1 DEF Turns
<1>3. ended # "cleaned"
  BY NotCleaned DEF Detach
<1>4. /\ pool' = a
      /\ UNCHANGED <<mutex, mem, listed, count, state, interp, objs, os, tid_counter,
                     counters, ended>>
  BY DEF Detach, struct
<1>5. TypeOK' /\ Stacks'
  BY <1>1, <1>2, <1>4 DEF ThreadInv, ControlInv, TypeOK, StackTypes, FrameSet, counters
<1>b0. FrameTypes'
  <2> SUFFICES ASSUME NEW b \in Actors, NEW u \in Actors, NEW p \in Places, Pending(b, p, u)'
               PROVE  FrameOK(b, p, u)'
    BY DEF FrameTypes
  <2>1. CASE Pending(b, p, u)
    <3>1. FrameOK(b, p, u)
      BY <2>1 DEF ThreadInv, ControlInv, FrameTypes
    <3> QED
      BY <1>4, <3>1 DEF FrameOK, Alive, Born
  <2>2. CASE ~Pending(b, p, u)
    BY <1>1, <1>2, <1>4, <2>2 DEF FrameOK, Alive, Born, RunPlaces
  <2> QED
    BY <2>1, <2>2
<1>b1. PoolIsHeld'
  BY <1>1, <1>2, <1>4 DEF ThreadInv, ControlInv, PoolIsHeld, PoolPlaces
<1>b2. Creating'
  BY <1>1, <1>2, <1>4 DEF ThreadInv, ControlInv, Creating
<1>b3. Looking'
  BY <1>1, <1>2, <1>4 DEF ThreadInv, ControlInv, Looking, Viable, Uncallable
<1>b4. Ending'
  BY <1>1, <1>2, <1>4 DEF ThreadInv, ControlInv, Ending, RunPlaces, Actors
<1>b5. Joining'
  BY <1>1, <1>2, <1>4 DEF ThreadInv, ControlInv, Joining, Uncallable
<1>b6. OneJoiner'
  BY <1>1, <1>2, <1>4 DEF ThreadInv, ControlInv, OneJoiner, JoinPlaces
<1>b7. Clearing'
  BY <1>1, <1>2, <1>4 DEF ThreadInv, ControlInv, Clearing
<1>b8. OneEnd'
  BY <1>1, <1>2, <1>4 DEF ThreadInv, ControlInv, OneEnd, EndPlaces
<1>b9. Unborn'
  BY <1>1, <1>2, <1>4 DEF ThreadInv, ControlInv, Unborn, Born
<1>b10. Running'
  BY <1>1, <1>2, <1>4 DEF ThreadInv, ControlInv, Running, Born, Viable
<1>6. /\ \A u \in Tids : NoRefs(u)' <=> NoRefs(u)
      /\ Interpreters' /\ Accounted' /\ PoolCounters' /\ TotalIsRight' /\ PoolOutlivesThreads'
  <2>1. \A b \in Actors, u \in Tids :
          /\ (Pending(b, "clone", u) \/ Pending(b, "start", u))' <=>
               Pending(b, "clone", u) \/ Pending(b, "start", u)
          /\ Pending(b, "run_ref", u)' <=> Pending(b, "run_ref", u)
          /\ Pending(b, "joined", u)' <=> Pending(b, "joined", u)
          /\ Pending(b, "total", u)' <=> Pending(b, "total", u)
    BY <1>1, <1>2 DEF Actors
  <2>2. ASSUME NEW u \in Tids
        PROVE  (\E b \in Actors, p \in JoinPlaces : Pending(b, p, u)') <=>
                 \E b \in Actors, p \in JoinPlaces : Pending(b, p, u)
    BY <1>1, <1>2 DEF Actors, JoinPlaces
  <2> QED
    BY <1>3, <1>4, <2>1, <2>2, QuietCounts
<1>7. Freeing'
  BY <1>1, <1>2, <1>4, <1>6 DEF ThreadInv, CountInv, Freeing, Viable
<1> QED
  BY <1>5, <1>b0, <1>b1, <1>b2, <1>b3, <1>b4, <1>b5, <1>b6, <1>b7, <1>b8, <1>b9, <1>b10, <1>6, <1>7 DEF ThreadInv, ControlInv, CountInv

\* The interpreter has gone, or was not there.
LEMMA ClearedInv ==
  ASSUME ThreadInv, NEW a \in Actors, NEW t \in Tids, At(a, "clear", t), Then(a, <<>>), interp' = interp \ {t},
         UNCHANGED <<pool, mutex, mem, listed, count, state, objs, os, tid_counter, counters, ended>>
  PROVE  ThreadInv'
<1>1. /\ StackTypes /\ t \in Actors /\ Alive(a) /\ Born(t) /\ Pending(a, "clear", t)
      /\ Viable(t) => \/ "FINISHED" \in state[t] /\ "DIED" \notin state[t]
                      \/ NoRefs(t)
      /\ ~Pending(a, "clear", t)'
  <2>1. t \in Actors /\ At(a, "clear", t) /\ "clear" \in Places /\ "clear" \notin {"look", "unpool"}
    BY DEF Places, Actors
  <2>2. StackTypes /\ Alive(a) /\ Pending(a, "clear", t) /\ Born(t)
    BY <2>1, AtFacts DEF FrameOK
  <2>3. \/ "FINISHED" \in state[t] /\ "DIED" \notin state[t]
        \/ Pending(a, "destroy", t)
    BY <2>2 DEF ThreadInv, ControlInv, Clearing
  <2>4. Viable(t) /\ Pending(a, "destroy", t) => NoRefs(t)
    BY DEF ThreadInv, CountInv, Freeing
  <2>5. ~Pending(a, "clear", t)'
    BY <2>1, <2>2, TurnPop DEF Turns
  <2> QED
    BY <2>1, <2>2, <2>3, <2>4, <2>5
<1>2. /\ StackTypes'
      /\ \A b \in Actors : \A q, u :
           Pending(b, q, u)' <=> Pending(b, q, u) /\ ~(b = a /\ u = t /\ q = "clear")
  <2>1. Turns(a, t, {"clear"}, {})
    BY <1>1, TurnPop DEF Places
  <2> QED
    BY <2>1 DEF Turns
<1>3. ended # "cleaned"
  BY <1>1, NotCleaned DEF Places
<1>4. /\ interp' = interp \ {t}
      /\ UNCHANGED <<pool, mutex, mem, listed, count, state, objs, os, tid_counter,
                     counters, ended>>
  OBVIOUS
<1>5. TypeOK' /\ Stacks'
  BY <1>1, <1>2, <1>4 DEF ThreadInv, ControlInv, TypeOK, StackTypes, FrameSet, counters
<1>b0. FrameTypes'
  <2> SUFFICES ASSUME NEW b \in Actors, NEW u \in Actors, NEW p \in Places, Pending(b, p, u)'
               PROVE  FrameOK(b, p, u)'
    BY DEF FrameTypes
  <2>1. CASE Pending(b, p, u)
    <3>1. FrameOK(b, p, u)
      BY <2>1 DEF ThreadInv, ControlInv, FrameTypes
    <3> QED
      BY <1>4, <3>1 DEF FrameOK, Alive, Born
  <2>2. CASE ~Pending(b, p, u)
    BY <1>1, <1>2, <1>4, <2>2 DEF FrameOK, Alive, Born, RunPlaces
  <2> QED
    BY <2>1, <2>2
<1>b1. PoolIsHeld'
  BY <1>1, <1>2, <1>4 DEF ThreadInv, ControlInv, PoolIsHeld, PoolPlaces
<1>b2. Creating'
  BY <1>1, <1>2, <1>4 DEF ThreadInv, ControlInv, Creating
<1>b3. Looking'
  BY <1>1, <1>2, <1>4 DEF ThreadInv, ControlInv, Looking, Viable, Uncallable
<1>b4. Ending'
  BY <1>1, <1>2, <1>4 DEF ThreadInv, ControlInv, Ending, RunPlaces, Actors
<1>b5. Joining'
  BY <1>1, <1>2, <1>4 DEF ThreadInv, ControlInv, Joining, Uncallable
<1>b6. OneJoiner'
  BY <1>1, <1>2, <1>4 DEF ThreadInv, ControlInv, OneJoiner, JoinPlaces
<1>b7. Clearing'
  BY <1>1, <1>2, <1>4 DEF ThreadInv, ControlInv, Clearing
<1>b8. OneEnd'
  BY <1>1, <1>2, <1>4 DEF ThreadInv, ControlInv, OneEnd, EndPlaces
<1>b9. Unborn'
  BY <1>1, <1>2, <1>4 DEF ThreadInv, ControlInv, Unborn, Born
<1>b10. Running'
  BY <1>1, <1>2, <1>4 DEF ThreadInv, ControlInv, Running, Born, Viable
<1>6. /\ \A u \in Tids : NoRefs(u)' <=> NoRefs(u)
      /\ Interpreters' /\ Accounted' /\ PoolCounters' /\ TotalIsRight' /\ PoolOutlivesThreads'
  <2>1. \A b \in Actors, u \in Tids :
          /\ (Pending(b, "clone", u) \/ Pending(b, "start", u))' <=>
               Pending(b, "clone", u) \/ Pending(b, "start", u)
          /\ Pending(b, "run_ref", u)' <=> Pending(b, "run_ref", u)
          /\ Pending(b, "joined", u)' <=> Pending(b, "joined", u)
          /\ Pending(b, "total", u)' <=> Pending(b, "total", u)
    BY <1>1, <1>2 DEF Actors
  <2>2. ASSUME NEW u \in Tids
        PROVE  (\E b \in Actors, p \in JoinPlaces : Pending(b, p, u)') <=>
                 \E b \in Actors, p \in JoinPlaces : Pending(b, p, u)
    BY <1>1, <1>2 DEF Actors, JoinPlaces
  <2>3. /\ \A u \in Tids : NoRefs(u)' <=> NoRefs(u)
        /\ Accounted' /\ PoolCounters' /\ TotalIsRight' /\ PoolOutlivesThreads'
    BY <1>3, <1>4, <2>1, <2>2, QuietCounts
  <2>4. Interpreters'
    BY <1>1, <1>4, <2>3 DEF ThreadInv, CountInv, Interpreters, Born, Viable
  <2> QED
    BY <2>3, <2>4
<1>7. Freeing'
  BY <1>1, <1>2, <1>4, <1>6 DEF ThreadInv, CountInv, Freeing, Viable
<1> QED
  BY <1>5, <1>b0, <1>b1, <1>b2, <1>b3, <1>b4, <1>b5, <1>b6, <1>b7, <1>b8, <1>b9, <1>b10, <1>6, <1>7 DEF ThreadInv, ControlInv, CountInv

\* A reference is given up: the counter follows, and with the last one the
\* thread is freed.
LEMMA GivesUpInv ==
  ASSUME ThreadInv, NEW a \in Actors, NEW x \in Tids, 
         NEW old \in {{}, {"run_ref"}, {"free"}}, 
         Viable(x), Born(x), Alive(a), ~NoRefs(x),
         ended # "cleaned", "run_ref" \in old => \A u : ~Pending(a, "term", u),
         "free" \in old => \A u : ~Pending(a, "clear", u),
         Turns(a, x, old, IF Viable(x) /\ count[x] > 1 THEN {} ELSE {"unlink"}),
         count' = IF count[x] > 1 THEN [count EXCEPT ![x] = @ - 1] ELSE [count EXCEPT ![x] = 0],
         mutex' = [mutex EXCEPT ![x] = None],
         objs' \in [Actors -> SUBSET Tids], \A b \in Actors : objs'[b] \subseteq objs[b],
         UNCHANGED <<pool, mem, listed, state, interp, os, tid_counter, counters, ended>>,
         References(x)' = References(x) - 1, \A u \in Tids \ {x} : RefsSame(u)
  PROVE  ThreadInv'
<1>1. /\ StackTypes /\ x \in Actors
      /\ mem[x] = "alloc" /\ count[x] = References(x) /\ count \in [Tids -> Nat]
      /\ \A b \in Actors, p \in EndPlaces : ~Pending(b, p, x)
  BY WorkTyped, Referenced DEF ThreadInv, ControlInv, TypeOK, Actors
<1>2. /\ StackTypes'
      /\ \A b \in Actors : \A q, u :
           Pending(b, q, u)' <=> \/ b = a /\ u = x /\ q = "unlink" /\ ~(count[x] > 1)
                                 \/ Pending(b, q, u) /\ ~(b = a /\ u = x /\ q \in old)
  BY DEF Turns
<1>3. ended # "cleaned"
  OBVIOUS
<1>4. /\ UNCHANGED <<pool, mem, listed, state, interp, os, tid_counter, counters, ended>>
      /\ \A b \in Actors : objs'[b] \subseteq objs[b]
      /\ count' \in [Tids -> Nat] /\ mutex' = [mutex EXCEPT ![x] = None]
      /\ count'[x] = IF count[x] > 1 THEN count[x] - 1 ELSE 0
      /\ \A u \in Tids \ {x} : count'[u] = count[u]
  BY <1>1
<1>5. TypeOK' /\ Stacks'
  BY <1>1, <1>2, <1>4 DEF ThreadInv, ControlInv, TypeOK, StackTypes, FrameSet, counters
<1>b0. FrameTypes'
  <2> SUFFICES ASSUME NEW b \in Actors, NEW u \in Actors, NEW p \in Places, Pending(b, p, u)'
               PROVE  FrameOK(b, p, u)'
    BY DEF FrameTypes
  <2>1. CASE Pending(b, p, u)
    <3>1. FrameOK(b, p, u)
      BY <2>1 DEF ThreadInv, ControlInv, FrameTypes
    <3> QED
      BY <1>4, <3>1 DEF FrameOK, Alive, Born
  <2>2. CASE ~Pending(b, p, u)
    BY <1>1, <1>2, <1>4, <2>2 DEF FrameOK, Alive, Born, RunPlaces
  <2> QED
    BY <2>1, <2>2
<1>b1. PoolIsHeld'
  BY <1>1, <1>2, <1>4 DEF ThreadInv, ControlInv, PoolIsHeld, PoolPlaces
<1>b2. Creating'
  BY <1>1, <1>2, <1>4 DEF ThreadInv, ControlInv, Creating
<1>b3. Looking'
  BY <1>1, <1>2, <1>4 DEF ThreadInv, ControlInv, Looking, Viable, Uncallable
<1>b4. Ending'
  BY <1>1, <1>2, <1>4 DEF ThreadInv, ControlInv, Ending, RunPlaces, Actors
<1>b5. Joining'
  BY <1>1, <1>2, <1>4 DEF ThreadInv, ControlInv, Joining, Uncallable
<1>b6. OneJoiner'
  BY <1>1, <1>2, <1>4 DEF ThreadInv, ControlInv, OneJoiner, JoinPlaces
<1>b7. Clearing'
  BY <1>1, <1>2, <1>4 DEF ThreadInv, ControlInv, Clearing
<1>b8. OneEnd'
  BY <1>1, <1>2, <1>4 DEF ThreadInv, ControlInv, OneEnd, EndPlaces
<1>b9. Unborn'
  BY <1>1, <1>2, <1>4 DEF ThreadInv, ControlInv, Unborn, Born
<1>b10. Running'
  BY <1>1, <1>2, <1>4 DEF ThreadInv, ControlInv, Running, Born, Viable
<1>6. /\ \A u \in Tids : NoRefs(u) => NoRefs(u)'
      /\ count[x] <= 1 => NoRefs(x)'
      /\ Interpreters' /\ Accounted' /\ PoolCounters' /\ TotalIsRight' /\ PoolOutlivesThreads'
  <2>1. \A u \in Tids \ {x} : References(u)' = References(u) /\ (NoRefs(u)' <=> NoRefs(u))
    BY RefsUnchanged
  <2>2. References(x) \in Nat /\ References(x) # 0
    BY RefsOfNobody
  <2>3. count'[x] = References(x)' /\ (count[x] <= 1 => References(x)' = 0)
    BY <1>1, <1>4, <2>2
  <2>4. References(x)' = 0 <=> NoRefs(x)'
    BY RefsOfNobodyNext
  <2>5. Accounted'
    BY <1>1, <1>4, <2>1, <2>3 DEF ThreadInv, CountInv, Accounted, Viable
  <2>6. \A u \in Tids : NoRefs(u) => NoRefs(u)'
    BY <2>1
  <2>7. Interpreters'
    BY <1>4, <2>6, InterpretersSame DEF ThreadInv, CountInv
  <2>8. PoolCounters'
    <3>1. \A b \in Actors, u \in Tids : Pending(b, "joined", u)' <=> Pending(b, "joined", u)
      BY <1>2
    <3>2. PoolCounters /\ UNCHANGED <<os, state, running_threads, joinable_threads, detached_threads>>
      BY <1>4 DEF ThreadInv, CountInv, counters
    <3> QED
      BY <3>1, <3>2, PoolCountersSame
  <2>9. TotalIsRight'
    <3>1. \A b \in Actors, u \in Tids : Pending(b, "total", u)' <=> Pending(b, "total", u)
      BY <1>2
    <3>2. TotalIsRight /\ UNCHANGED <<mem, total_threads>>
      BY <1>4 DEF ThreadInv, CountInv, counters
    <3> QED
      BY <3>1, <3>2, TotalSame
  <2>10. PoolOutlivesThreads'
    BY <1>3, <1>4 DEF PoolOutlivesThreads
  <2> QED
    BY <2>3, <2>4, <2>5, <2>6, <2>7, <2>8, <2>9, <2>10
<1>7. Freeing'
  BY <1>1, <1>2, <1>4, <1>6 DEF ThreadInv, CountInv, Freeing, Viable
<1> QED
  BY <1>5, <1>b0, <1>b1, <1>b2, <1>b3, <1>b4, <1>b5, <1>b6, <1>b7, <1>b8, <1>b9, <1>b10, <1>6, <1>7 DEF ThreadInv, ControlInv, CountInv

-----------------------------------------------------------------------------
(* The four ways to give a reference up.                                   *)

LEMMA SameRefs ==
  ASSUME NEW u \in Tids, state'[u] = state[u], os'[u] = os[u],
         \A b \in Actors :
           u \in objs'[b] \/ Pending(b, "clone", u)' \/ Pending(b, "start", u)' <=>
             u \in objs[b] \/ Pending(b, "clone", u) \/ Pending(b, "start", u),
         Pending(u, "run_ref", u)' <=> Pending(u, "run_ref", u),
         (\E b \in Actors, p \in JoinPlaces : Pending(b, p, u)') <=>
           \E b \in Actors, p \in JoinPlaces : Pending(b, p, u)
  PROVE  RefsSame(u)
<1>1. ObjectHolders(u)' = ObjectHolders(u)
  BY DEF ObjectHolders
<1>2. RunHolds(u)' <=> RunHolds(u)
  BY DEF RunHolds
<1>3. JoinHolds(u)' <=> JoinHolds(u)
  BY DEF JoinHolds, Uncallable, JoinPlaces
<1> QED
  BY <1>1, <1>2, <1>3 DEF RefsSame

LEMMA UnrefCounts ==
  ASSUME NEW a, NEW x \in Tids, NEW rest, Unref(a, x, rest), Viable(x)
  PROVE  /\ mutex' = [mutex EXCEPT ![x] = None]
         /\ count' = IF count[x] > 1 THEN [count EXCEPT ![x] = @ - 1] ELSE [count EXCEPT ![x] = 0]
BY DEF Unref, Viable

LEMMA DropObjectInv ==
  ASSUME ThreadInv, NEW a \in Actors, NEW t \in Tids, Drop(a, t)
  PROVE  ThreadInv'
<1>1. /\ StackTypes /\ Alive(a) /\ work[a] = <<>> /\ \A q, u : ~Pending(a, q, u)
      /\ t \in objs[a] /\ Viable(t) /\ objs \in [Actors -> SUBSET Tids]
  BY NothingPending DEF Drop, Usable, ThreadInv, ControlInv, TypeOK
<1>2. a \in ObjectHolders(t) /\ ~NoRefs(t) /\ Born(t)
  BY <1>1 DEF ObjectHolders, NoRefs, ThreadInv, ControlInv, Unborn
<1>3. Turns(a, t, {}, IF Viable(t) /\ count[t] > 1 THEN {} ELSE {"unlink"})
  <2>1. {Frame(p, t) : p \in {}} = {} /\ {} \in SUBSET Places
    OBVIOUS
  <2>2. Rest(a, <<>>, {Frame(p, t) : p \in {}})
    BY <1>1, <2>1, RestOfNothing
  <2> QED
    BY <1>1, <2>1, <2>2, TurnUnref DEF Drop
<1>4. \A b \in Actors : \A q, u : q # "unlink" => (Pending(b, q, u)' <=> Pending(b, q, u))
  BY <1>3 DEF Turns
<1>5. /\ objs' \in [Actors -> SUBSET Tids] /\ \A b \in Actors : objs'[b] \subseteq objs[b]
      /\ \A b \in Actors : objs'[b] = IF b = a THEN objs[a] \ {t} ELSE objs[b]
      /\ UNCHANGED <<pool, mem, listed, state, interp, os, tid_counter, counters, ended>>
  BY <1>1 DEF Drop
<1>6. ObjectHolders(t)' = ObjectHolders(t) \ {a}
  BY <1>1, <1>4, <1>5 DEF ObjectHolders
<1>7. (RunHolds(t)' <=> RunHolds(t)) /\ (JoinHolds(t)' <=> JoinHolds(t))
  BY <1>4, <1>5 DEF RunHolds, JoinHolds, Uncallable, Actors
<1>8. References(t)' = References(t) - 1
  BY <1>2, <1>6, <1>7, HolderGoes
<1>9. \A u \in Tids \ {t} : RefsSame(u)
  BY <1>4, <1>5, SameRefs DEF JoinPlaces, Actors
<1>10. /\ mutex' = [mutex EXCEPT ![t] = None]
       /\ count' = IF count[t] > 1 THEN [count EXCEPT ![t] = @ - 1] ELSE [count EXCEPT ![t] = 0]
  BY <1>1, UnrefCounts DEF Drop
<1>11. ended # "cleaned"
  BY NotCleaned DEF Drop
<1> QED
  BY <1>1, <1>2, <1>3, <1>5, <1>8, <1>9, <1>10, <1>11, GivesUpInv

\* An object in the interpreter that is cleared.
LEMMA ClearOneInv ==
  ASSUME ThreadInv, NEW a \in Actors, NEW t \in Tids, At(a, "clear", t),
         NEW x \in objs[t], Viable(x), objs' = [objs EXCEPT ![t] = @ \ {x}], Unref(a, x, work[a]),
         UNCHANGED <<pool, mem, listed, state, interp, os, tid_counter, counters, ended>>
  PROVE  ThreadInv'
<1>1. /\ StackTypes /\ Alive(a) /\ t \in Actors /\ x \in Tids /\ x \in Actors
      /\ objs \in [Actors -> SUBSET Tids]
  BY AtFacts DEF ThreadInv, ControlInv, TypeOK, Actors, Places
<1>2. t \in ObjectHolders(x) /\ ~NoRefs(x) /\ Born(x)
  BY <1>1 DEF ObjectHolders, NoRefs, ThreadInv, ControlInv, Unborn
<1>3. ~Pending(a, "unlink", x)
  BY <1>1, <1>2, Referenced DEF EndPlaces
<1>4. Turns(a, x, {}, IF Viable(x) /\ count[x] > 1 THEN {} ELSE {"unlink"})
  <2>1. {Frame(p, x) : p \in {}} = {} /\ {} \in SUBSET Places
    OBVIOUS
  <2>2. Rest(a, work[a], {Frame(p, x) : p \in {}})
    BY <1>1, <2>1, RestIsAll DEF TopPlaces
  <2> QED
    BY <1>1, <1>3, <2>1, <2>2, TurnUnref
<1>5. \A b \in Actors : \A q, u : q # "unlink" => (Pending(b, q, u)' <=> Pending(b, q, u))
  BY <1>4 DEF Turns
<1>6. /\ objs' \in [Actors -> SUBSET Tids] /\ \A b \in Actors : objs'[b] \subseteq objs[b]
      /\ \A b \in Actors : objs'[b] = IF b = t THEN objs[t] \ {x} ELSE objs[b]
  BY <1>1
<1>7. ~Pending(t, "clone", x) /\ ~Pending(t, "start", x)
  BY <1>1 DEF ThreadInv, ControlInv, Creating, Running
<1>8. ObjectHolders(x)' = ObjectHolders(x) \ {t}
  BY <1>1, <1>5, <1>6, <1>7 DEF ObjectHolders
<1>9. (RunHolds(x)' <=> RunHolds(x)) /\ (JoinHolds(x)' <=> JoinHolds(x))
  BY <1>1, <1>5 DEF RunHolds, JoinHolds, Uncallable
<1>10. References(x)' = References(x) - 1
  BY <1>2, <1>8, <1>9, HolderGoes
<1>11. \A u \in Tids \ {x} : RefsSame(u)
  BY <1>5, <1>6, SameRefs DEF JoinPlaces, Actors
<1>12. /\ mutex' = [mutex EXCEPT ![x] = None]
       /\ count' = IF count[x] > 1 THEN [count EXCEPT ![x] = @ - 1] ELSE [count EXCEPT ![x] = 0]
  BY <1>1, UnrefCounts
<1>13. ended # "cleaned"
  BY <1>1, NotCleaned DEF Places
<1> QED
  BY <1>1, <1>2, <1>4, <1>6, <1>10, <1>11, <1>12, <1>13, GivesUpInv

LEMMA ClearInv ==
  ASSUME ThreadInv, NEW a \in Actors, NEW t \in Tids, Clear(a, t)
  PROVE  ThreadInv'
<1>1. CASE t \notin interp /\ Then(a, <<>>) /\ UNCHANGED <<mutex, count, interp, objs>>
  <2>1. /\ At(a, "clear", t) /\ interp' = interp \ {t}
        /\ UNCHANGED <<pool, mutex, mem, listed, count, state, objs, os, tid_counter, counters, ended>>
    BY <1>1 DEF Clear
  <2> QED
    BY <1>1, <2>1, ClearedInv
<1>2. CASE interp' = interp \ {t} /\ Then(a, <<>>) /\ UNCHANGED <<mutex, count, objs>>
  <2>1. /\ At(a, "clear", t)
        /\ UNCHANGED <<pool, mutex, mem, listed, count, state, objs, os, tid_counter, counters, ended>>
    BY <1>2 DEF Clear
  <2> QED
    BY <1>2, <2>1, ClearedInv
<1>3. ASSUME NEW x \in objs[t], Viable(x), objs' = [objs EXCEPT ![t] = @ \ {x}],
             Unref(a, x, work[a]), UNCHANGED interp
      PROVE  ThreadInv'
  <2>1. /\ At(a, "clear", t)
        /\ UNCHANGED <<pool, mem, listed, state, interp, os, tid_counter, counters, ended>>
    BY <1>3 DEF Clear
  <2> QED
    BY <1>3, <2>1, ClearOneInv
<1> QED
  BY <1>1, <1>2, <1>3 DEF Clear

LEMMA RunRefInv ==
  ASSUME ThreadInv, NEW t \in Tids, RunRef(t)
  PROVE  ThreadInv'
<1>1. /\ t \in Actors /\ t # Main /\ At(t, "run_ref", t)
      /\ "run_ref" \in Places \ TopPlaces /\ "run_ref" \notin {"look", "unpool"}
  BY DEF RunRef, Actors, Tids, Main, Places, TopPlaces
<1>2. StackTypes /\ Alive(t) /\ Pending(t, "run_ref", t) /\ Born(t)
  BY <1>1, AtFacts DEF FrameOK
<1>3. "FINISHED" \in state[t] /\ os[t] = "running" /\ Viable(t)
  BY <1>1, <1>2 DEF ThreadInv, ControlInv, Ending, RunPlaces, Running, Alive
<1>4. RunHolds(t) /\ ~NoRefs(t)
  BY <1>2, <1>3 DEF RunHolds, NoRefs
<1>5. ~Pending(t, "unlink", t)
  BY <1>1, <1>2, <1>3, <1>4, Referenced DEF EndPlaces
<1>6. \A u : ~Pending(t, "term", u)
  BY <1>1, <1>2, NoTopUnder DEF TopPlaces
<1>7. Turns(t, t, {"run_ref"}, IF Viable(t) /\ count[t] > 1 THEN {} ELSE {"unlink"})
  <2>1. {Frame(p, t) : p \in {"run_ref"}} = {Frame("run_ref", t)} /\ {"run_ref"} \in SUBSET Places
    BY <1>1
  <2>2. Rest(t, Tail(work[t]), {Frame(p, t) : p \in {"run_ref"}})
    BY <1>1, <1>2, <2>1, RestOfTop
  <2> QED
    BY <1>1, <1>2, <1>5, <2>1, <2>2, TurnUnref DEF RunRef
<1>8. /\ \A b \in Actors : \A q, u :
           q \notin {"unlink", "run_ref"} => (Pending(b, q, u)' <=> Pending(b, q, u))
      /\ \A b \in Actors : \A u : b # t => (Pending(b, "run_ref", u)' <=> Pending(b, "run_ref", u))
      /\ ~Pending(t, "run_ref", t)'
  BY <1>1, <1>7 DEF Turns
<1>9. UNCHANGED <<pool, mem, listed, state, interp, objs, os, tid_counter, counters, ended>>
  BY DEF RunRef
<1>10. ObjectHolders(t)' = ObjectHolders(t) /\ (JoinHolds(t)' <=> JoinHolds(t))
  BY <1>8, <1>9 DEF ObjectHolders, JoinHolds, Uncallable
<1>11. ~RunHolds(t)'
  BY <1>3, <1>8, <1>9 DEF RunHolds
<1>12. References(t)' = References(t) - 1
  BY <1>4, <1>10, <1>11, RunGoes
<1>13. \A u \in Tids \ {t} : RefsSame(u)
  BY <1>8, <1>9, SameRefs DEF JoinPlaces, Actors
<1>14. /\ mutex' = [mutex EXCEPT ![t] = None]
       /\ count' = IF count[t] > 1 THEN [count EXCEPT ![t] = @ - 1] ELSE [count EXCEPT ![t] = 0]
  BY <1>3, UnrefCounts DEF RunRef
<1>15. ended # "cleaned"
  BY <1>1, NotCleaned
<1>16. objs' \in [Actors -> SUBSET Tids] /\ \A b \in Actors : objs'[b] \subseteq objs[b]
  BY <1>9 DEF ThreadInv, ControlInv, TypeOK
<1>17. UNCHANGED <<pool, mem, listed, state, interp, os, tid_counter, counters, ended>>
  BY <1>9
<1>18. /\ {"run_ref"} \in {{}, {"run_ref"}, {"free"}}
       /\ "free" \in {"run_ref"} => \A u : ~Pending(t, "clear", u)
  OBVIOUS
<1> QED
  BY <1>1, <1>2, <1>3, <1>4, <1>18, <1>6, <1>7, <1>12, <1>13, <1>14, <1>15, <1>16, <1>17, GivesUpInv

LEMMA FreeInv ==
  ASSUME ThreadInv, NEW a \in Actors, NEW t \in Tids, Free(a, t)
  PROVE  ThreadInv'
<1>1. /\ t \in Actors /\ At(a, "free", t)
      /\ "free" \in Places /\ "free" \notin {"look", "unpool"} /\ "free" \in BottomPlaces
  BY DEF Free, Actors, Places, BottomPlaces
<1>2. StackTypes /\ Alive(a) /\ Pending(a, "free", t) /\ Born(t)
  BY <1>1, AtFacts DEF FrameOK
<1>3. Uncallable(t) /\ Viable(t)
  BY <1>2 DEF ThreadInv, ControlInv, Joining, Running, Uncallable
<1>4. JoinHolds(t) /\ ~NoRefs(t)
  BY <1>2 DEF JoinHolds, NoRefs
<1>5. ~Pending(a, "unlink", t)
  BY <1>1, <1>2, <1>3, <1>4, Referenced DEF EndPlaces
<1>6. \A q, u : Pending(a, q, u) => q = "free" /\ u = t
  BY <1>1, <1>2, OnlyBottom
<1>7. Turns(a, t, {"free"}, IF Viable(t) /\ count[t] > 1 THEN {} ELSE {"unlink"})
  <2>1. {Frame(p, t) : p \in {"free"}} = {Frame("free", t)} /\ {"free"} \in SUBSET Places
    BY <1>1
  <2>2. Rest(a, Tail(work[a]), {Frame(p, t) : p \in {"free"}})
    BY <1>1, <1>2, <2>1, RestOfTop
  <2> QED
    BY <1>1, <1>2, <1>5, <2>1, <2>2, TurnUnref DEF Free
<1>8. /\ \A b \in Actors : \A q, u :
           q \notin {"unlink", "free"} => (Pending(b, q, u)' <=> Pending(b, q, u))
      /\ \A b \in Actors : \A u : u # t => (Pending(b, "free", u)' <=> Pending(b, "free", u))
      /\ \A b \in Actors, p \in JoinPlaces : ~Pending(b, p, t)'
  <2>1. ASSUME NEW b \in Actors, NEW p \in JoinPlaces, Pending(b, p, t)' PROVE FALSE
    <3>1. Pending(b, p, t) /\ ~(b = a /\ p = "free")
      BY <1>7, <2>1 DEF Turns, JoinPlaces
    <3> QED
      BY <1>2, <3>1 DEF ThreadInv, ControlInv, OneJoiner, JoinPlaces
  <2> QED
    BY <1>7, <2>1 DEF Turns
<1>9. UNCHANGED <<pool, mem, listed, state, interp, objs, os, tid_counter, counters, ended>>
  BY DEF Free
<1>10. ObjectHolders(t)' = ObjectHolders(t) /\ (RunHolds(t)' <=> RunHolds(t))
  BY <1>1, <1>8, <1>9 DEF ObjectHolders, RunHolds
<1>11. ~JoinHolds(t)'
  BY <1>3, <1>8, <1>9 DEF JoinHolds, Uncallable, JoinPlaces
<1>12. References(t)' = References(t) - 1
  BY <1>4, <1>10, <1>11, JoinGoes
<1>13. \A u \in Tids \ {t} : RefsSame(u)
  <2> SUFFICES ASSUME NEW u \in Tids \ {t} PROVE RefsSame(u)
    OBVIOUS
  <2>1. \A b \in Actors, p \in JoinPlaces : Pending(b, p, u)' <=> Pending(b, p, u)
    BY <1>8 DEF JoinPlaces
  <2> QED
    BY <1>8, <1>9, <2>1, SameRefs DEF Actors
<1>14. /\ mutex' = [mutex EXCEPT ![t] = None]
       /\ count' = IF count[t] > 1 THEN [count EXCEPT ![t] = @ - 1] ELSE [count EXCEPT ![t] = 0]
  BY <1>3, UnrefCounts DEF Free
<1>15. ended # "cleaned"
  BY <1>1, NotCleaned
<1>16. objs' \in [Actors -> SUBSET Tids] /\ \A b \in Actors : objs'[b] \subseteq objs[b]
  BY <1>9 DEF ThreadInv, ControlInv, TypeOK
<1>17. UNCHANGED <<pool, mem, listed, state, interp, os, tid_counter, counters, ended>>
  BY <1>9
<1>18. /\ {"free"} \in {{}, {"run_ref"}, {"free"}}
       /\ "run_ref" \in {"free"} => \A u : ~Pending(a, "term", u)
       /\ \A u : ~Pending(a, "clear", u)
  BY <1>6
<1> QED
  BY <1>18, <1>2, <1>3, <1>4, <1>7, <1>12, <1>13, <1>14, <1>15, <1>16, <1>17, GivesUpInv

-----------------------------------------------------------------------------
(* The steps that count.                                                   *)

\* Those that the three counters count.
RunningOnes == InState(FALSE, FALSE)
DetachedOnes == InState(FALSE, TRUE)
JoinableOnes == InState(TRUE, FALSE)

LEMMA CountersCount ==
  PoolCounters <=>
    /\ running_threads = Cardinality(RunningOnes)
    /\ detached_threads = Cardinality(DetachedOnes)
    /\ joinable_threads = Cardinality(JoinableOnes) - Cardinality(TakenOff)
BY DEF PoolCounters, RunningOnes, DetachedOnes, JoinableOnes

LEMMA CountersCountNext ==
  PoolCounters' <=>
    /\ running_threads' = Cardinality(RunningOnes')
    /\ detached_threads' = Cardinality(DetachedOnes')
    /\ joinable_threads' = Cardinality(JoinableOnes') - Cardinality(TakenOff')
BY DEF PoolCounters, RunningOnes, DetachedOnes, JoinableOnes

LEMMA CountsFinite ==
  /\ IsFiniteSet(RunningOnes) /\ Cardinality(RunningOnes) \in Nat
  /\ IsFiniteSet(DetachedOnes) /\ Cardinality(DetachedOnes) \in Nat
  /\ IsFiniteSet(JoinableOnes) /\ Cardinality(JoinableOnes) \in Nat
  /\ IsFiniteSet(TakenOff) /\ Cardinality(TakenOff) \in Nat
  /\ IsFiniteSet(Counted) /\ Cardinality(Counted) \in Nat
<1>1. IsFiniteSet(TakenOff) /\ IsFiniteSet(Counted)
  BY ActorsFinite, FS_Subset DEF TakenOff, Counted
<1>2. IsFiniteSet(RunningOnes) /\ IsFiniteSet(DetachedOnes) /\ IsFiniteSet(JoinableOnes)
  BY ActorsFinite, FS_Subset DEF InState, RunningOnes, DetachedOnes, JoinableOnes
<1> QED
  BY <1>1, <1>2, FS_CardinalityType

LEMMA CountsNext ==
  /\ Cardinality(RunningOnes)' \in Nat
  /\ Cardinality(DetachedOnes)' \in Nat
  /\ Cardinality(JoinableOnes)' \in Nat
  /\ Cardinality(TakenOff)' \in Nat /\ Cardinality(Counted)' \in Nat
<1> DEFINE F == /\ Cardinality(RunningOnes) \in Nat
                /\ Cardinality(DetachedOnes) \in Nat
                /\ Cardinality(JoinableOnes) \in Nat
                /\ Cardinality(TakenOff) \in Nat /\ Cardinality(Counted) \in Nat
<1>1. F
  BY CountsFinite
<1> HIDE DEF F
<1>2. F'
  BY <1>1, PTL
<1> QED
  BY <1>2 DEF F

LEMMA TurnNothing ==
  ASSUME StackTypes, UNCHANGED work, NEW a, NEW t
  PROVE  Turns(a, t, {}, {})
BY DEF Turns, StackTypes, Stacks, Pending

LEMMA ExitInv ==
  ASSUME ThreadInv, NEW t \in Tids, Exit(t)
  PROVE  ThreadInv'
<1>1. /\ StackTypes /\ t \in Actors /\ t # Main /\ Born(t) /\ os[t] = "running"
      /\ \A q, u : Pending(t, q, u) => q = "exit" /\ u = t
      /\ "FINISHED" \in state[t]
  <2>1. /\ t \in Actors /\ t # Main /\ At(t, "exit", t)
        /\ "exit" \in Places /\ "exit" \notin {"look", "unpool"}
    BY DEF Exit, Places, Actors, Tids, Main
  <2>2. StackTypes /\ Alive(t) /\ Pending(t, "exit", t) /\ Born(t)
    BY <2>1, AtFacts DEF FrameOK
  <2>3. "FINISHED" \in state[t] /\ os[t] = "running"
    BY <2>1, <2>2 DEF ThreadInv, ControlInv, Ending, RunPlaces, Alive
  <2> QED
    BY <2>1, <2>2, <2>3, OnlyBottom DEF BottomPlaces
<1>2. /\ StackTypes'
      /\ \A b \in Actors : \A q, u :
           Pending(b, q, u)' <=> Pending(b, q, u) /\ ~(b = t /\ u = t /\ q = "exit")
  <2>1. Turns(t, t, {"exit"}, {})
    BY <1>1, TurnPop DEF Exit, Places
  <2> QED
    BY <2>1 DEF Turns
<1>4. /\ os' = [os EXCEPT ![t] = "exited"]
      /\ UNCHANGED <<pool, mutex, mem, listed, count, state, interp, objs, tid_counter,
                     counters, ended>>
  BY DEF Exit, locks, struct
<1>5. TypeOK' /\ Stacks'
  BY <1>1, <1>2, <1>4 DEF ThreadInv, ControlInv, TypeOK, StackTypes, FrameSet, counters
<1>b0. FrameTypes'
  <2> SUFFICES ASSUME NEW b \in Actors, NEW u \in Actors, NEW p \in Places, Pending(b, p, u)'
               PROVE  FrameOK(b, p, u)'
    BY DEF FrameTypes
  <2>1. CASE Pending(b, p, u)
    <3>1. FrameOK(b, p, u)
      BY <2>1 DEF ThreadInv, ControlInv, FrameTypes
    <3> QED
      BY <1>1, <1>2, <1>4, <2>1, <3>1 DEF FrameOK, Alive, Born
  <2>2. CASE ~Pending(b, p, u)
    BY <1>1, <1>2, <1>4, <2>2 DEF FrameOK, Alive, Born, RunPlaces
  <2> QED
    BY <2>1, <2>2
<1>b1. PoolIsHeld'
  BY <1>1, <1>2, <1>4 DEF ThreadInv, ControlInv, PoolIsHeld, PoolPlaces
<1>b2. Creating'
  BY <1>1, <1>2, <1>4 DEF ThreadInv, ControlInv, Creating
<1>b3. Looking'
  BY <1>1, <1>2, <1>4 DEF ThreadInv, ControlInv, Looking, Viable, Uncallable
<1>b4. Ending'
  BY <1>1, <1>2, <1>4 DEF ThreadInv, ControlInv, Ending, RunPlaces, Actors, TypeOK
<1>b5. Joining'
  BY <1>1, <1>2, <1>4 DEF ThreadInv, ControlInv, Joining, Uncallable
<1>b6. OneJoiner'
  BY <1>1, <1>2, <1>4 DEF ThreadInv, ControlInv, OneJoiner, JoinPlaces
<1>b7. Clearing'
  BY <1>1, <1>2, <1>4 DEF ThreadInv, ControlInv, Clearing
<1>b8. OneEnd'
  BY <1>1, <1>2, <1>4 DEF ThreadInv, ControlInv, OneEnd, EndPlaces
<1>b9. Unborn'
  BY <1>1, <1>2, <1>4 DEF ThreadInv, ControlInv, Unborn, Born
<1>b10. Running'
  BY <1>1, <1>2, <1>4 DEF ThreadInv, ControlInv, Running, Born, Viable
<1>6. /\ \A u \in Tids : NoRefs(u)' <=> NoRefs(u)
      /\ Interpreters' /\ Accounted' /\ PoolCounters' /\ TotalIsRight' /\ PoolOutlivesThreads'
  <2>1. ASSUME NEW u \in Tids PROVE RefsSame(u)
    <3>1. ObjectHolders(u)' = ObjectHolders(u)
      BY <1>2, <1>4 DEF ObjectHolders
    <3>2. RunHolds(u)' <=> RunHolds(u)
      BY <1>1, <1>2, <1>4 DEF RunHolds, ThreadInv, ControlInv, TypeOK, Actors
    <3>3. JoinHolds(u)' <=> JoinHolds(u)
      BY <1>2, <1>4 DEF JoinHolds, Uncallable
    <3> QED
      BY <3>1, <3>2, <3>3 DEF RefsSame
  <2>2. \A u \in Tids : NoRefs(u)' <=> NoRefs(u)
    BY <2>1, RefsUnchanged
  <2>3. Accounted'
    BY <1>4, <2>1, AccountedSame DEF ThreadInv, CountInv
  <2>4. Interpreters'
    BY <1>4, <2>2, InterpretersSame DEF ThreadInv, CountInv
  <2>5. TakenOff' = TakenOff /\ Counted' = Counted
    BY <1>2, <1>4 DEF TakenOff, Counted
  <2>6. \A fin, det \in BOOLEAN : InState(fin, det)' = InState(fin, det)
    BY <1>1, <1>4 DEF InState, ThreadInv, ControlInv, TypeOK
  <2>7. PoolCounters' /\ TotalIsRight'
    BY <1>4, <2>5, <2>6 DEF ThreadInv, CountInv, PoolCounters, TotalIsRight, counters
  <2>8. ASSUME NEW u \in Tids, u # t PROVE work'[u] = work[u]
    BY <1>1, <2>8 DEF Exit, Then, StackTypes, Actors
  <2>9. PoolOutlivesThreads'
    BY <1>1, <1>4, <2>8 DEF ThreadInv, CountInv, PoolOutlivesThreads, ControlInv, TypeOK
  <2> QED
    BY <2>2, <2>3, <2>4, <2>7, <2>9
<1>7. Freeing'
  BY <1>1, <1>2, <1>4, <1>6 DEF ThreadInv, CountInv, Freeing, Viable
<1> QED
  BY <1>5, <1>b0, <1>b1, <1>b2, <1>b3, <1>b4, <1>b5, <1>b6, <1>b7, <1>b8, <1>b9, <1>b10, <1>6, <1>7 DEF ThreadInv, ControlInv, CountInv

LEMMA JoinedInv ==
  ASSUME ThreadInv, NEW a \in Actors, NEW t \in Tids, Joined(a, t)
  PROVE  ThreadInv'
<1>1. /\ StackTypes /\ t \in Actors /\ Alive(a) /\ Born(t) /\ Pending(a, "joined", t)
      /\ \A q, u : Pending(a, q, u) => q = "joined" /\ u = t
      /\ "JOINED" \in state[t] /\ pool = None /\ None \notin Actors
      /\ \A b \in Actors, p \in JoinPlaces : Pending(b, p, t) => b = a /\ p = "joined"
  <2>1. t \in Actors /\ At(a, "joined", t) /\ "joined" \in Places /\ "joined" \notin {"look", "unpool"}
    BY DEF Joined, Places, Actors
  <2>2. StackTypes /\ Alive(a) /\ Pending(a, "joined", t) /\ Born(t)
    BY <2>1, AtFacts DEF FrameOK
  <2>3. "JOINED" \in state[t]
    BY <2>2 DEF ThreadInv, ControlInv, Joining
  <2>4. \A b \in Actors, p \in JoinPlaces : Pending(b, p, t) => b = a /\ p = "joined"
    BY <2>2 DEF ThreadInv, ControlInv, OneJoiner, JoinPlaces
  <2> QED
    BY <2>1, <2>2, <2>3, <2>4, OnlyBottom, IthreadsAssumption DEF BottomPlaces, Joined
<1>2. /\ StackTypes'
      /\ \A b \in Actors : \A q, u :
           Pending(b, q, u)' <=> \/ b = a /\ u = t /\ q = "pthread_join"
                                 \/ Pending(b, q, u) /\ ~(b = a /\ u = t /\ q = "joined")
  <2>1. /\ At(a, "joined", t) /\ "joined" \in Places /\ "pthread_join" \in Places
        /\ "joined" \in BottomPlaces /\ ~Pending(a, "pthread_join", t)
        /\ Then(a, <<Frame("pthread_join", t)>>)
    BY <1>1 DEF Joined, BottomPlaces, Places
  <2>2. Turns(a, t, {"joined"}, {"pthread_join"})
    BY <1>1, <2>1, TurnOne
  <2> QED
    BY <2>2 DEF Turns
<1>3. ended # "cleaned"
  BY <1>1, NotCleaned DEF Joined, Places
<1>4. /\ joinable_threads' = joinable_threads - 1 /\ joinable_threads' \in Int
      /\ UNCHANGED <<pool, mutex, mem, listed, count, state, interp, objs, os, tid_counter,
                     running_threads, detached_threads, total_threads, ended>>
  <2>1. joinable_threads' = joinable_threads - 1 /\ joinable_threads \in Int
    BY DEF Joined, ThreadInv, ControlInv, TypeOK
  <2>2. joinable_threads' \in Int
    BY <2>1
  <2> QED
    BY <2>1, <2>2 DEF Joined, locks, struct
<1>5. TypeOK' /\ Stacks'
  BY <1>1, <1>2, <1>4 DEF ThreadInv, ControlInv, TypeOK, StackTypes, FrameSet, counters
<1>b0. FrameTypes'
  <2> SUFFICES ASSUME NEW b \in Actors, NEW u \in Actors, NEW p \in Places, Pending(b, p, u)'
               PROVE  FrameOK(b, p, u)'
    BY DEF FrameTypes
  <2>1. CASE Pending(b, p, u)
    <3>1. FrameOK(b, p, u)
      BY <2>1 DEF ThreadInv, ControlInv, FrameTypes
    <3> QED
      BY <1>4, <3>1 DEF FrameOK, Alive, Born
  <2>2. CASE ~Pending(b, p, u)
    BY <1>1, <1>2, <1>4, <2>2 DEF FrameOK, Alive, Born, RunPlaces
  <2> QED
    BY <2>1, <2>2
<1>b1. PoolIsHeld'
  BY <1>1, <1>2, <1>4 DEF ThreadInv, ControlInv, PoolIsHeld, PoolPlaces
<1>b2. Creating'
  BY <1>1, <1>2, <1>4 DEF ThreadInv, ControlInv, Creating
<1>b3. Looking'
  BY <1>1, <1>2, <1>4 DEF ThreadInv, ControlInv, Looking, Viable, Uncallable, PoolIsHeld, PoolPlaces
<1>b4. Ending'
  BY <1>1, <1>2, <1>4 DEF ThreadInv, ControlInv, Ending, RunPlaces, Actors
<1>b5. Joining'
  BY <1>1, <1>2, <1>4 DEF ThreadInv, ControlInv, Joining, Uncallable
<1>b6. OneJoiner'
  BY <1>1, <1>2, <1>4 DEF ThreadInv, ControlInv, OneJoiner, JoinPlaces
<1>b7. Clearing'
  BY <1>1, <1>2, <1>4 DEF ThreadInv, ControlInv, Clearing
<1>b8. OneEnd'
  BY <1>1, <1>2, <1>4 DEF ThreadInv, ControlInv, OneEnd, EndPlaces
<1>b9. Unborn'
  BY <1>1, <1>2, <1>4 DEF ThreadInv, ControlInv, Unborn, Born
<1>b10. Running'
  BY <1>1, <1>2, <1>4 DEF ThreadInv, ControlInv, Running, Born, Viable
<1>6. /\ \A u \in Tids : NoRefs(u)' <=> NoRefs(u)
      /\ Interpreters' /\ Accounted' /\ PoolCounters' /\ TotalIsRight' /\ PoolOutlivesThreads'
  <2>1. \A u \in Tids : RefsSame(u)
    <3>1. \A b \in Actors, u \in Tids :
            /\ (Pending(b, "clone", u) \/ Pending(b, "start", u))' <=>
                 Pending(b, "clone", u) \/ Pending(b, "start", u)
            /\ Pending(b, "run_ref", u)' <=> Pending(b, "run_ref", u)
      BY <1>2
    <3>2. ASSUME NEW u \in Tids
          PROVE  (\E b \in Actors, p \in JoinPlaces : Pending(b, p, u)') <=>
                   \E b \in Actors, p \in JoinPlaces : Pending(b, p, u)
      BY <1>1, <1>2 DEF JoinPlaces
    <3> QED
      BY <1>4, <3>1, <3>2, QuietRefs
  <2>2. \A u \in Tids : NoRefs(u)' <=> NoRefs(u)
    BY <2>1, RefsUnchanged
  <2>3. Accounted'
    BY <1>4, <2>1, AccountedSame DEF ThreadInv, CountInv
  <2>4. Interpreters'
    BY <1>4, <2>2, InterpretersSame DEF ThreadInv, CountInv
  <2>5. TakenOff' = TakenOff \cup {t} /\ t \notin TakenOff
    BY <1>1, <1>2, <1>4 DEF TakenOff, JoinPlaces
  <2>6. Cardinality(TakenOff)' = Cardinality(TakenOff) + 1
    BY <2>5, CountsFinite, FS_AddElement
  <2>7. PoolCounters'
    <3>1. JoinableOnes' = JoinableOnes
      BY <1>4 DEF InState, RunningOnes, DetachedOnes, JoinableOnes
    <3>2. RunningOnes' = RunningOnes /\ DetachedOnes' = DetachedOnes
      BY <1>4 DEF InState, RunningOnes, DetachedOnes, JoinableOnes
    <3>3. PoolCounters
      BY DEF ThreadInv, CountInv
    <3>4. /\ joinable_threads' = joinable_threads - 1
          /\ running_threads' = running_threads /\ detached_threads' = detached_threads
      BY <1>4
    <3> QED
      BY <2>6, <3>1, <3>2, <3>3, <3>4, CountsFinite, CountersCount, CountersCountNext
  <2>8. PoolOutlivesThreads'
    BY <1>3, <1>4 DEF PoolOutlivesThreads
  <2>9. TotalIsRight'
    BY <1>2, <1>4, TotalSame DEF ThreadInv, CountInv
  <2> QED
    BY <2>2, <2>3, <2>4, <2>7, <2>8, <2>9
<1>7. Freeing'
  BY <1>1, <1>2, <1>4, <1>6 DEF ThreadInv, CountInv, Freeing, Viable
<1> QED
  BY <1>5, <1>b0, <1>b1, <1>b2, <1>b3, <1>b4, <1>b5, <1>b6, <1>b7, <1>b8, <1>b9, <1>b10, <1>6, <1>7 DEF ThreadInv, ControlInv, CountInv

LEMMA MarkFinishedInv ==
  ASSUME ThreadInv, NEW t \in Tids, MarkFinished(t)
  PROVE  ThreadInv'
<1>1. /\ StackTypes /\ t \in Actors /\ t # Main /\ Born(t) /\ os[t] = "running" /\ Alive(t)
      /\ \A q, u : Pending(t, q, u) => q = "finish" /\ u = t
      /\ "FINISHED" \notin state[t] /\ "DIED" \notin state[t] /\ Viable(t)
      /\ pool = t /\ None \notin Actors /\ At(t, "finish", t)
  <2>1. /\ t \in Actors /\ t # Main /\ At(t, "finish", t)
        /\ "finish" \in Places /\ "finish" \notin {"look", "unpool"}
    BY DEF MarkFinished, Places, Actors, Tids, Main
  <2>2. StackTypes /\ Alive(t) /\ Pending(t, "finish", t) /\ Born(t)
    BY <2>1, AtFacts DEF FrameOK
  <2>3. os[t] = "running" /\ pool = t
    BY <2>1, <2>2 DEF ThreadInv, ControlInv, PoolIsHeld, PoolPlaces, Alive
  <2>4. "FINISHED" \notin state[t] /\ "DIED" \notin state[t] /\ Viable(t)
    BY <2>2, <2>3 DEF ThreadInv, ControlInv, Ending, Running
  <2> QED
    BY <2>1, <2>2, <2>3, <2>4, OnlyBottom, IthreadsAssumption DEF BottomPlaces
<1>2. /\ StackTypes'
      /\ \A b \in Actors : \A q, u :
           Pending(b, q, u)' <=> \/ b = t /\ u = t /\ q \in {"term", "run_ref", "exit"}
                                 \/ Pending(b, q, u) /\ ~(b = t /\ u = t /\ q = "finish")
  <2>1. Turns(t, t, {"finish"}, {"term", "run_ref", "exit"})
    BY <1>1, TurnFinished DEF MarkFinished
  <2> QED
    BY <2>1 DEF Turns
<1>3. ended # "cleaned"
  BY <1>1, NotCleaned DEF Places
<1>4. /\ pool' = None
      /\ state' \in [Tids -> SUBSET Flags]
      /\ \A u \in Tids : u # t => state'[u] = state[u]
      /\ "FINISHED" \in state'[t]
      /\ \A f \in {"DETACHED", "JOINED", "NONVIABLE"} : f \in state'[t] <=> f \in state[t]
      /\ UNCHANGED <<mutex, mem, listed, count, interp, objs, os, tid_counter,
                     total_threads, ended>>
  <2>1. PICK died \in {{}, {"DIED"}} : state' = [state EXCEPT ![t] = @ \cup {"FINISHED"} \cup died]
    BY DEF MarkFinished
  <2>2. state \in [Tids -> SUBSET Flags]
    BY DEF ThreadInv, ControlInv, TypeOK
  <2> QED
    BY <2>1, <2>2 DEF MarkFinished, Flags
<1>b0. FrameTypes'
  <2> SUFFICES ASSUME NEW b \in Actors, NEW u \in Actors, NEW p \in Places, Pending(b, p, u)'
               PROVE  FrameOK(b, p, u)'
    BY DEF FrameTypes
  <2>1. CASE Pending(b, p, u)
    <3>1. FrameOK(b, p, u)
      BY <2>1 DEF ThreadInv, ControlInv, FrameTypes
    <3> QED
      BY <1>4, <3>1 DEF FrameOK, Alive, Born
  <2>2. CASE ~Pending(b, p, u)
    BY <1>1, <1>2, <1>4, <2>2 DEF FrameOK, Alive, Born, RunPlaces
  <2> QED
    BY <2>1, <2>2
<1>b1. PoolIsHeld'
  BY <1>1, <1>2, <1>4 DEF ThreadInv, ControlInv, PoolIsHeld, PoolPlaces
<1>b2. Creating'
  BY <1>1, <1>2, <1>4 DEF ThreadInv, ControlInv, Creating
<1>b3. Looking'
  BY <1>1, <1>2, <1>4 DEF ThreadInv, ControlInv, Looking, Viable, Uncallable
<1>b4. Ending'
  BY <1>1, <1>2, <1>4 DEF ThreadInv, ControlInv, Ending, RunPlaces, Actors, Viable
<1>b5. Joining'
  BY <1>1, <1>2, <1>4 DEF ThreadInv, ControlInv, Joining, Uncallable
<1>b6. OneJoiner'
  BY <1>1, <1>2, <1>4 DEF ThreadInv, ControlInv, OneJoiner, JoinPlaces
<1>b7. Clearing'
  BY <1>1, <1>2, <1>4 DEF ThreadInv, ControlInv, Clearing
<1>b8. OneEnd'
  BY <1>1, <1>2, <1>4 DEF ThreadInv, ControlInv, OneEnd, EndPlaces
<1>b9. Unborn'
  BY <1>1, <1>2, <1>4 DEF ThreadInv, ControlInv, Unborn, Born
<1>b10. Running'
  BY <1>1, <1>2, <1>4 DEF ThreadInv, ControlInv, Running, Born, Viable
<1>6. /\ \A u \in Tids : NoRefs(u)' <=> NoRefs(u)
      /\ Interpreters' /\ Accounted' /\ TotalIsRight' /\ PoolOutlivesThreads'
  <2>1. ASSUME NEW u \in Tids PROVE RefsSame(u)
    <3>1. ObjectHolders(u)' = ObjectHolders(u)
      BY <1>2, <1>4 DEF ObjectHolders
    <3>2. RunHolds(u)' <=> RunHolds(u)
      BY <1>1, <1>2, <1>4 DEF RunHolds, Actors
    <3>3. Uncallable(u)' <=> Uncallable(u)
      BY <1>4 DEF Uncallable
    <3>4. JoinHolds(u)' <=> JoinHolds(u)
      BY <1>2, <3>3 DEF JoinHolds
    <3> QED
      BY <3>1, <3>2, <3>4 DEF RefsSame
  <2>2. \A u \in Tids : NoRefs(u)' <=> NoRefs(u)
    BY <2>1, RefsUnchanged
  <2>3. \A u \in Tids : Viable(u)' <=> Viable(u)
    BY <1>4 DEF Viable
  <2>4. \A u \in Tids : References(u)' = References(u)
    BY <2>1, RefsUnchanged
  <2>5. Accounted'
    BY <1>4, <2>2, <2>3, <2>4 DEF ThreadInv, CountInv, Accounted
  <2>6. t \in interp
    <3>1. ~NoRefs(t)
      BY <1>1 DEF NoRefs, RunHolds
    <3> QED
      BY <1>1, <3>1 DEF ThreadInv, CountInv, Interpreters
  <2>7. Interpreters'
    BY <1>1, <1>4, <2>2, <2>3, <2>6 DEF ThreadInv, CountInv, Interpreters, Born
  <2>8. PoolOutlivesThreads'
    BY <1>3, <1>4 DEF PoolOutlivesThreads
  <2>9. TotalIsRight'
    BY <1>2, <1>4, TotalSame DEF ThreadInv, CountInv
  <2> QED
    BY <2>2, <2>5, <2>7, <2>8, <2>9
<1>8. PoolCounters'
  <2>1. TakenOff' = TakenOff
    <3>1. \A u \in Tids : "JOINED" \in state'[u] <=> "JOINED" \in state[u]
      BY <1>4
    <3> QED
      BY <1>2, <3>1 DEF TakenOff
  <2>4. PoolCounters
    BY DEF ThreadInv, CountInv
  <2>2. CASE "DETACHED" \in state[t]
    <3>1. /\ DetachedOnes' = DetachedOnes \ {t} /\ t \in DetachedOnes
          /\ RunningOnes' = RunningOnes
          /\ JoinableOnes' = JoinableOnes
      BY <1>1, <1>4, <2>2 DEF InState, RunningOnes, DetachedOnes, JoinableOnes
    <3>2. Cardinality(DetachedOnes)' = Cardinality(DetachedOnes) - 1
      BY <3>1, CountsFinite, FS_RemoveElement
    <3>3. /\ detached_threads' = detached_threads - 1
          /\ running_threads' = running_threads /\ joinable_threads' = joinable_threads
      BY <2>2 DEF MarkFinished
    <3> QED
      BY <2>1, <3>1, <3>2, <3>3, <2>4, CountsFinite, CountersCount, CountersCountNext
  <2>3. CASE "DETACHED" \notin state[t]
    <3>1. /\ RunningOnes' = RunningOnes \ {t} /\ t \in RunningOnes
          /\ JoinableOnes' = JoinableOnes \cup {t} /\ t \notin JoinableOnes
          /\ DetachedOnes' = DetachedOnes
      BY <1>1, <1>4, <2>3 DEF InState, RunningOnes, DetachedOnes, JoinableOnes
    <3>2. Cardinality(RunningOnes)' = Cardinality(RunningOnes) - 1
      BY <3>1, CountsFinite, FS_RemoveElement
    <3>3. Cardinality(JoinableOnes)' = Cardinality(JoinableOnes) + 1
      BY <3>1, CountsFinite, FS_AddElement
    <3>4. /\ running_threads' = running_threads - 1
          /\ joinable_threads' = joinable_threads + 1 /\ detached_threads' = detached_threads
      BY <2>3 DEF MarkFinished
    <3> QED
      BY <2>1, <3>1, <3>2, <3>3, <3>4, <2>4, CountsFinite, CountersCount, CountersCountNext
  <2> QED
    BY <2>2, <2>3
<1>5. TypeOK' /\ Stacks'
  <2>1. running_threads' \in Nat /\ detached_threads' \in Nat /\ joinable_threads' \in Int
    BY <1>8, CountsNext, CountersCountNext
  <2> QED
    BY <1>1, <1>2, <1>4, <2>1 DEF ThreadInv, ControlInv, TypeOK, StackTypes, FrameSet
<1>7. Freeing'
  BY <1>1, <1>2, <1>4, <1>6 DEF ThreadInv, CountInv, Freeing, Viable
<1> QED
  BY <1>5, <1>b0, <1>b1, <1>b2, <1>b3, <1>b4, <1>b5, <1>b6, <1>b7, <1>b8, <1>b9, <1>b10, <1>6, <1>7, <1>8 DEF ThreadInv, ControlInv, CountInv

\* An interpreter gets an object, and the counter follows.
LEMMA GainsInv ==
  ASSUME ThreadInv, NEW a \in Actors, NEW h \in Actors, NEW x \in Tids,
         NEW old \in {{}, {"take"}}, 
         Born(x), Viable(x) => os[x] # "none" /\ ~NoRefs(x) /\ References(x)' = References(x) + 1,
         ended # "cleaned", Turns(a, x, old, {}),
         count' = [count EXCEPT ![x] = @ + 1], objs' = [objs EXCEPT ![h] = @ \cup {x}],
         UNCHANGED <<pool, mutex, mem, listed, state, interp, os, tid_counter, counters, ended>>,
         \A u \in Tids \ {x} : RefsSame(u)
  PROVE  ThreadInv'
<1>1. /\ StackTypes /\ x \in Actors /\ count \in [Tids -> Nat] /\ objs \in [Actors -> SUBSET Tids]
      /\ Viable(x) => /\ mem[x] = "alloc" /\ count[x] = References(x)
                      /\ \A b \in Actors, p \in EndPlaces : ~Pending(b, p, x)
  BY WorkTyped, Referenced DEF ThreadInv, ControlInv, TypeOK, Actors
<1>2. /\ StackTypes'
      /\ \A b \in Actors : \A q, u :
           Pending(b, q, u)' <=> Pending(b, q, u) /\ ~(b = a /\ u = x /\ q \in old)
  BY DEF Turns
<1>3. ended # "cleaned"
  OBVIOUS
<1>4. /\ UNCHANGED <<pool, mutex, mem, listed, state, interp, os, tid_counter, counters, ended>>
      /\ objs' \in [Actors -> SUBSET Tids]
      /\ \A b \in Actors : objs'[b] = IF b = h THEN objs[h] \cup {x} ELSE objs[b]
      /\ count' \in [Tids -> Nat] /\ count'[x] = count[x] + 1
      /\ \A u \in Tids \ {x} : count'[u] = count[u]
  BY <1>1
<1>5. TypeOK' /\ Stacks'
  BY <1>1, <1>2, <1>4 DEF ThreadInv, ControlInv, TypeOK, StackTypes, FrameSet, counters
<1>b0. FrameTypes'
  <2> SUFFICES ASSUME NEW b \in Actors, NEW u \in Actors, NEW p \in Places, Pending(b, p, u)'
               PROVE  FrameOK(b, p, u)'
    BY DEF FrameTypes
  <2>1. CASE Pending(b, p, u)
    <3>1. FrameOK(b, p, u)
      BY <2>1 DEF ThreadInv, ControlInv, FrameTypes
    <3> QED
      BY <1>4, <3>1 DEF FrameOK, Alive, Born
  <2>2. CASE ~Pending(b, p, u)
    BY <1>1, <1>2, <1>4, <2>2 DEF FrameOK, Alive, Born, RunPlaces
  <2> QED
    BY <2>1, <2>2
<1>b1. PoolIsHeld'
  BY <1>1, <1>2, <1>4 DEF ThreadInv, ControlInv, PoolIsHeld, PoolPlaces
<1>b2. Creating'
  BY <1>1, <1>2, <1>4 DEF ThreadInv, ControlInv, Creating
<1>b3. Looking'
  BY <1>1, <1>2, <1>4 DEF ThreadInv, ControlInv, Looking, Viable, Uncallable
<1>b4. Ending'
  BY <1>1, <1>2, <1>4 DEF ThreadInv, ControlInv, Ending, RunPlaces, Actors
<1>b5. Joining'
  BY <1>1, <1>2, <1>4 DEF ThreadInv, ControlInv, Joining, Uncallable
<1>b6. OneJoiner'
  BY <1>1, <1>2, <1>4 DEF ThreadInv, ControlInv, OneJoiner, JoinPlaces
<1>b7. Clearing'
  BY <1>1, <1>2, <1>4 DEF ThreadInv, ControlInv, Clearing
<1>b8. OneEnd'
  BY <1>1, <1>2, <1>4 DEF ThreadInv, ControlInv, OneEnd, EndPlaces
<1>b9. Unborn'
  BY <1>1, <1>2, <1>4 DEF ThreadInv, ControlInv, Unborn, Born
<1>b10. Running'
  BY <1>1, <1>2, <1>4 DEF ThreadInv, ControlInv, Running, Born, Viable
<1>6. /\ \A u \in Tids : Viable(u) /\ NoRefs(u) => NoRefs(u)'
      /\ Interpreters' /\ Accounted' /\ PoolCounters' /\ TotalIsRight' /\ PoolOutlivesThreads'
  <2>1. \A u \in Tids \ {x} : References(u)' = References(u) /\ (NoRefs(u)' <=> NoRefs(u))
    BY RefsUnchanged
  <2>2. Viable(x) => count'[x] = References(x)'
    BY <1>1, <1>4
  <2>5. Accounted'
    BY <1>1, <1>4, <2>1, <2>2 DEF ThreadInv, CountInv, Accounted, Viable
  <2>6. \A u \in Tids : Viable(u) /\ NoRefs(u) => NoRefs(u)'
    BY <2>1
  <2>7. Interpreters'
    BY <1>4, <2>6 DEF ThreadInv, CountInv, Interpreters, Viable, Born
  <2>8. PoolOutlivesThreads'
    BY <1>3, <1>4 DEF PoolOutlivesThreads
  <2>9. PoolCounters'
    <3>1. \A b \in Actors, u \in Tids : Pending(b, "joined", u)' <=> Pending(b, "joined", u)
      BY <1>2
    <3>2. PoolCounters /\ UNCHANGED <<os, state, running_threads, joinable_threads, detached_threads>>
      BY <1>4 DEF ThreadInv, CountInv, counters
    <3> QED
      BY <3>1, <3>2, PoolCountersSame
  <2>10. TotalIsRight'
    <3>1. \A b \in Actors, u \in Tids : Pending(b, "total", u)' <=> Pending(b, "total", u)
      BY <1>2
    <3>2. TotalIsRight /\ UNCHANGED <<mem, total_threads>>
      BY <1>4 DEF ThreadInv, CountInv, counters
    <3> QED
      BY <3>1, <3>2, TotalSame
  <2> QED
    BY <2>5, <2>6, <2>7, <2>8, <2>9, <2>10
<1>7. Freeing'
  BY <1>1, <1>2, <1>4, <1>6 DEF ThreadInv, CountInv, Freeing, Viable
<1> QED
  BY <1>5, <1>b0, <1>b1, <1>b2, <1>b3, <1>b4, <1>b5, <1>b6, <1>b7, <1>b8, <1>b9, <1>b10, <1>6, <1>7 DEF ThreadInv, ControlInv, CountInv

LEMMA SelfInv ==
  ASSUME ThreadInv, NEW a \in Actors, Self(a)
  PROVE  ThreadInv'
<1>1. /\ StackTypes /\ Alive(a) /\ work[a] = <<>> /\ \A q, u : ~Pending(a, q, u)
      /\ a \in Tids /\ objs \in [Actors -> SUBSET Tids] /\ a \notin objs[a]
  BY NothingPending DEF Self, ThreadInv, ControlInv, TypeOK, Actors
<1>2. os[a] = "running" /\ "FINISHED" \notin state[a] /\ Viable(a) /\ Born(a)
  <2>1. os[a] = "running"
    BY <1>1 DEF Alive, Tids, Main
  <2> QED
    BY <1>1, <2>1 DEF ThreadInv, ControlInv, Ending, Running, Unborn
<1>3. RunHolds(a) /\ ~NoRefs(a)
  BY <1>2 DEF RunHolds, NoRefs
<1>4. Turns(a, a, {}, {}) /\ UNCHANGED work
  BY <1>1, TurnNothing DEF Self
<1>5. \A b \in Actors : \A q, u : Pending(b, q, u)' <=> Pending(b, q, u)
  BY <1>4 DEF Turns
<1>6. /\ count' = [count EXCEPT ![a] = @ + 1] /\ objs' = [objs EXCEPT ![a] = @ \cup {a}]
      /\ UNCHANGED <<pool, mutex, mem, listed, state, interp, os, tid_counter, counters, ended>>
  BY DEF Self, locks
<1>7. a \notin ObjectHolders(a) /\ ObjectHolders(a)' = ObjectHolders(a) \cup {a}
  BY <1>1, <1>5, <1>6 DEF ObjectHolders
<1>8. (RunHolds(a)' <=> RunHolds(a)) /\ (JoinHolds(a)' <=> JoinHolds(a))
  BY <1>5, <1>6 DEF RunHolds, JoinHolds, Uncallable
<1>9. References(a)' = References(a) + 1
  BY <1>7, <1>8, HolderComes
<1>10. \A u \in Tids \ {a} : RefsSame(u)
  BY <1>1, <1>5, <1>6, SameRefs DEF JoinPlaces, Actors
<1>11. ended # "cleaned"
  BY NotCleaned DEF Self
<1>12. {} \in {{}, {"take"}}
  OBVIOUS
<1> QED
  BY <1>1, <1>2, <1>3, <1>4, <1>6, <1>9, <1>10, <1>11, <1>12, GainsInv

\* An object of the creator is cloned for the new thread.
LEMMA CloneOneInv ==
  ASSUME ThreadInv, NEW a \in Actors, NEW t \in Tids, At(a, "clone", t),
         NEW x \in objs[a] \ objs[t], Viable(x), UNCHANGED work,
         count' = [count EXCEPT ![x] = @ + 1], objs' = [objs EXCEPT ![t] = @ \cup {x}],
         UNCHANGED <<pool, mutex, mem, listed, state, interp, os, tid_counter, counters, ended>>
  PROVE  ThreadInv'
<1>1. /\ StackTypes /\ Pending(a, "clone", t) /\ t \in Actors /\ x \in Tids /\ x \in Actors
      /\ objs \in [Actors -> SUBSET Tids] /\ t # Main
  <2>1. t # Main /\ t \in Actors /\ "clone" \in Places
    BY DEF Tids, Main, Actors, Places
  <2>2. objs \in [Actors -> SUBSET Tids]
    BY DEF ThreadInv, ControlInv, TypeOK
  <2>3. x \in Tids /\ x \in Actors
    BY <2>2 DEF Actors
  <2> QED
    BY <2>1, <2>2, <2>3, AtFacts
<1>2. os[t] = "none" /\ \A q \in Places : \A u \in Actors : ~Pending(t, q, u)
  BY <1>1 DEF ThreadInv, ControlInv, Creating, FrameTypes, FrameOK, Alive
<1>3. os[x] # "none" /\ Born(x) /\ ~NoRefs(x)
  <2>1. os[x] # "none" /\ Born(x)
    BY <1>1 DEF ThreadInv, ControlInv, Running, Unborn
  <2>2. a \in ObjectHolders(x)
    BY DEF ObjectHolders
  <2> QED
    BY <2>1, <2>2 DEF NoRefs
<1>4. Turns(a, x, {}, {})
  BY <1>1, TurnNothing
<1>5. \A b \in Actors : \A q, u : Pending(b, q, u)' <=> Pending(b, q, u)
  BY <1>4 DEF Turns
<1>6. t \notin ObjectHolders(x) /\ ObjectHolders(x)' = ObjectHolders(x) \cup {t}
  BY <1>1, <1>2, <1>5 DEF ObjectHolders, Places
<1>7. (RunHolds(x)' <=> RunHolds(x)) /\ (JoinHolds(x)' <=> JoinHolds(x))
  BY <1>1, <1>5 DEF RunHolds, JoinHolds, Uncallable
<1>8. References(x)' = References(x) + 1
  BY <1>1, <1>6, <1>7, HolderComes
<1>9. \A u \in Tids \ {x} : RefsSame(u)
  BY <1>1, <1>5, SameRefs DEF JoinPlaces, Actors
<1>10. ended # "cleaned"
  BY <1>1, NotCleaned DEF Places
<1>11. {} \in {{}, {"take"}}
  OBVIOUS
<1> QED
  BY <1>1, <1>3, <1>4, <1>8, <1>9, <1>10, <1>11, GainsInv

LEMMA CloneInv ==
  ASSUME ThreadInv, NEW a \in Actors, NEW t \in Tids, Clone(a, t)
  PROVE  ThreadInv'
<1>1. CASE objs[t] = objs[a]
  BY <1>1, ClonedInv
<1>2. CASE objs[t] # objs[a]
  <2>1. PICK x \in objs[a] \ objs[t] :
          /\ Viable(x) /\ UNCHANGED work
          /\ count' = [count EXCEPT ![x] = @ + 1] /\ objs' = [objs EXCEPT ![t] = @ \cup {x}]
    BY <1>2 DEF Clone
  <2>2. /\ At(a, "clone", t)
        /\ UNCHANGED <<pool, mutex, mem, listed, state, interp, os, tid_counter, counters, ended>>
    BY DEF Clone, locks
  <2> QED
    BY <2>1, <2>2, CloneOneInv
<1> QED
  BY <1>1, <1>2

\* There is an object already.
LEMMA TakenInv ==
  ASSUME ThreadInv, NEW a \in Actors, NEW t \in Tids, Take(a, t), t \in objs[a]
  PROVE  ThreadInv'
<1>1. /\ StackTypes /\ t \in Actors /\ Alive(a) /\ Born(t) /\ Pending(a, "take", t)
      /\ Pending(a, "unpool", a)
  <2>1. t \in Actors /\ At(a, "take", t) /\ "take" \in Places /\ "take" \notin {"look", "unpool"}
    BY DEF Take, Places, Actors
  <2>2. StackTypes /\ Alive(a) /\ Pending(a, "take", t) /\ Born(t)
    BY <2>1, AtFacts DEF FrameOK
  <2>3. Pending(a, "unpool", a)
    BY <2>1, <2>2 DEF ThreadInv, ControlInv, Looking
  <2> QED
    BY <2>1, <2>2, <2>3
<1>2. /\ StackTypes'
      /\ \A b \in Actors : \A q, u :
           Pending(b, q, u)' <=> Pending(b, q, u) /\ ~(b = a /\ u = t /\ q = "take")
  <2>1. Turns(a, t, {"take"}, {})
    BY <1>1, TurnPop DEF Take, Places
  <2> QED
    BY <2>1 DEF Turns
<1>3. ended # "cleaned"
  BY <1>1, NotCleaned DEF Take, Places
<1>4. UNCHANGED <<pool, mutex, mem, listed, count, state, interp, objs, os, tid_counter,
                  counters, ended>>
  BY DEF Take, locks
<1>5. TypeOK' /\ Stacks'
  BY <1>1, <1>2, <1>4 DEF ThreadInv, ControlInv, TypeOK, StackTypes, FrameSet, counters
<1>b0. FrameTypes'
  <2> SUFFICES ASSUME NEW b \in Actors, NEW u \in Actors, NEW p \in Places, Pending(b, p, u)'
               PROVE  FrameOK(b, p, u)'
    BY DEF FrameTypes
  <2>1. CASE Pending(b, p, u)
    <3>1. FrameOK(b, p, u)
      BY <2>1 DEF ThreadInv, ControlInv, FrameTypes
    <3> QED
      BY <1>4, <3>1 DEF FrameOK, Alive, Born
  <2>2. CASE ~Pending(b, p, u)
    BY <1>1, <1>2, <1>4, <2>2 DEF FrameOK, Alive, Born, RunPlaces
  <2> QED
    BY <2>1, <2>2
<1>b1. PoolIsHeld'
  BY <1>1, <1>2, <1>4 DEF ThreadInv, ControlInv, PoolIsHeld, PoolPlaces
<1>b2. Creating'
  BY <1>1, <1>2, <1>4 DEF ThreadInv, ControlInv, Creating
<1>b3. Looking'
  BY <1>1, <1>2, <1>4 DEF ThreadInv, ControlInv, Looking, Viable, Uncallable
<1>b4. Ending'
  BY <1>1, <1>2, <1>4 DEF ThreadInv, ControlInv, Ending, RunPlaces, Actors
<1>b5. Joining'
  BY <1>1, <1>2, <1>4 DEF ThreadInv, ControlInv, Joining, Uncallable
<1>b6. OneJoiner'
  BY <1>1, <1>2, <1>4 DEF ThreadInv, ControlInv, OneJoiner, JoinPlaces
<1>b7. Clearing'
  BY <1>1, <1>2, <1>4 DEF ThreadInv, ControlInv, Clearing
<1>b8. OneEnd'
  BY <1>1, <1>2, <1>4 DEF ThreadInv, ControlInv, OneEnd, EndPlaces
<1>b9. Unborn'
  BY <1>1, <1>2, <1>4 DEF ThreadInv, ControlInv, Unborn, Born
<1>b10. Running'
  BY <1>1, <1>2, <1>4 DEF ThreadInv, ControlInv, Running, Born, Viable
<1>6. /\ \A u \in Tids : NoRefs(u)' <=> NoRefs(u)
      /\ Interpreters' /\ Accounted' /\ PoolCounters' /\ TotalIsRight' /\ PoolOutlivesThreads'
  <2>1. \A b \in Actors, u \in Tids :
          /\ (Pending(b, "clone", u) \/ Pending(b, "start", u))' <=>
               Pending(b, "clone", u) \/ Pending(b, "start", u)
          /\ Pending(b, "run_ref", u)' <=> Pending(b, "run_ref", u)
          /\ Pending(b, "joined", u)' <=> Pending(b, "joined", u)
          /\ Pending(b, "total", u)' <=> Pending(b, "total", u)
    BY <1>1, <1>2 DEF Actors
  <2>2. ASSUME NEW u \in Tids
        PROVE  (\E b \in Actors, p \in JoinPlaces : Pending(b, p, u)') <=>
                 \E b \in Actors, p \in JoinPlaces : Pending(b, p, u)
    BY <1>1, <1>2 DEF Actors, JoinPlaces
  <2> QED
    BY <1>3, <1>4, <2>1, <2>2, QuietCounts
<1>7. Freeing'
  BY <1>1, <1>2, <1>4, <1>6 DEF ThreadInv, CountInv, Freeing, Viable
<1> QED
  BY <1>5, <1>b0, <1>b1, <1>b2, <1>b3, <1>b4, <1>b5, <1>b6, <1>b7, <1>b8, <1>b9, <1>b10, <1>6, <1>7 DEF ThreadInv, ControlInv, CountInv

LEMMA TakeInv ==
  ASSUME ThreadInv, NEW a \in Actors, NEW t \in Tids, Take(a, t)
  PROVE  ThreadInv'
<1>1. CASE t \in objs[a]
  BY <1>1, TakenInv
<1>2. CASE t \notin objs[a]
  <2>1. /\ StackTypes /\ t \in Actors /\ Born(t) /\ At(a, "take", t) /\ Pending(a, "take", t)
        /\ objs \in [Actors -> SUBSET Tids] /\ "take" \in Places
    <3>1. t \in Actors /\ At(a, "take", t) /\ "take" \in Places /\ "take" \notin {"look", "unpool"}
      BY DEF Take, Places, Actors
    <3> QED
      BY <3>1, AtFacts DEF FrameOK, ThreadInv, ControlInv, TypeOK
  <2>2. \A u : ~Pending(a, "clone", u) /\ ~Pending(a, "start", u)
    <3>1. Pending(a, "unpool", a)
      BY <2>1 DEF ThreadInv, ControlInv, Looking
    <3> QED
      BY <2>1, <3>1, OneBottom DEF BottomPlaces
  <2>3. Viable(t) => os[t] # "none"
    BY <2>1 DEF ThreadInv, ControlInv, Looking
  <2>4. JoinHolds(t) /\ ~NoRefs(t)
    <3>1. CASE "JOINED" \in state[t]
      <4>1. PICK b \in Actors : Pending(b, "joined", t)
        BY <2>1, <3>1 DEF ThreadInv, ControlInv, Looking
      <4> QED
        BY <4>1 DEF JoinHolds, NoRefs
    <3>2. CASE "JOINED" \notin state[t]
      <4>1. ~Uncallable(t)
        BY <2>1, <3>2 DEF ThreadInv, ControlInv, Looking, Uncallable
      <4> QED
        BY <4>1 DEF JoinHolds, NoRefs
    <3> QED
      BY <3>1, <3>2
  <2>5. Turns(a, t, {"take"}, {})
    BY <2>1, TurnPop DEF Take
  <2>6. \A b \in Actors : \A q, u : q # "take" => (Pending(b, q, u)' <=> Pending(b, q, u))
    BY <2>5 DEF Turns
  <2>7. /\ count' = [count EXCEPT ![t] = @ + 1] /\ objs' = [objs EXCEPT ![a] = @ \cup {t}]
        /\ UNCHANGED <<pool, mutex, mem, listed, state, interp, os, tid_counter, counters, ended>>
    BY <1>2 DEF Take, locks
  <2>8. a \notin ObjectHolders(t) /\ ObjectHolders(t)' = ObjectHolders(t) \cup {a}
    BY <1>2, <2>1, <2>2, <2>6, <2>7 DEF ObjectHolders
  <2>9. (RunHolds(t)' <=> RunHolds(t)) /\ (JoinHolds(t)' <=> JoinHolds(t))
    BY <2>1, <2>6, <2>7 DEF RunHolds, JoinHolds, Uncallable
  <2>10. References(t)' = References(t) + 1
    BY <2>8, <2>9, HolderComes
  <2>11. \A u \in Tids \ {t} : RefsSame(u)
    BY <2>1, <2>6, <2>7, SameRefs DEF JoinPlaces, Actors
  <2>12. ended # "cleaned"
    BY <2>1, NotCleaned
  <2>13. {"take"} \in {{}, {"take"}}
    OBVIOUS
  <2> QED
    BY <2>1, <2>3, <2>4, <2>5, <2>7, <2>10, <2>11, <2>12, <2>13, GainsInv
<1> QED
  BY <1>1, <1>2

LEMMA StartInv ==
  ASSUME ThreadInv, NEW a \in Actors, NEW t \in Tids, Start(a, t)
  PROVE  ThreadInv'
<1>1. /\ StackTypes /\ t \in Actors /\ Alive(a) /\ Born(t) /\ Pending(a, "start", t)
      /\ \A q, u : Pending(a, q, u) => q = "start" /\ u = t
      /\ pool = a /\ None \notin Actors /\ os[t] = "none" /\ state[t] = {} /\ mem[t] = "alloc"
      /\ t # a /\ t # Main /\ \A q \in Places : \A u \in Actors : ~Pending(t, q, u)
      /\ \A b \in Actors : t \notin objs[b]
      /\ \A b \in Actors, p \in PoolPlaces, u \in Actors : Pending(b, p, u) => b = a
  <2>1. t \in Actors /\ At(a, "start", t) /\ "start" \in Places /\ "start" \notin {"look", "unpool"}
    BY DEF Start, Places, Actors
  <2>2. StackTypes /\ Alive(a) /\ Pending(a, "start", t) /\ Born(t)
    BY <2>1, AtFacts DEF FrameOK
  <2>3. pool = a /\ os[t] = "none" /\ state[t] = {} /\ mem[t] = "alloc"
    BY <2>1, <2>2 DEF ThreadInv, ControlInv, PoolIsHeld, PoolPlaces, Creating
  <2>4. t # Main
    BY DEF Tids, Main
  <2>5. t # a
    BY <2>2, <2>3, <2>4 DEF Alive
  <2>6. \A q \in Places : \A u \in Actors : ~Pending(t, q, u)
    BY <2>1, <2>3, <2>4 DEF ThreadInv, ControlInv, FrameTypes, FrameOK, Alive
  <2>7. \A b \in Actors : t \notin objs[b]
    BY <2>3 DEF ThreadInv, ControlInv, Running, Viable
  <2>8. \A b \in Actors, p \in PoolPlaces, u \in Actors : Pending(b, p, u) => b = a
    BY <2>3 DEF ThreadInv, ControlInv, PoolIsHeld
  <2>9. \A q, u : Pending(a, q, u) => q = "start" /\ u = t
    BY <2>1, <2>2, OnlyBottom DEF BottomPlaces
  <2> QED
    BY <2>1, <2>2, <2>3, <2>4, <2>5, <2>6, <2>7, <2>8, <2>9, IthreadsAssumption
<1>2. /\ StackTypes'
      /\ \A b \in Actors : \A q, u :
           Pending(b, q, u)' <=> Pending(b, q, u) /\ ~(b = a /\ u = t /\ q = "start")
  <2>1. Turns(a, t, {"start"}, {})
    BY <1>1, TurnPop DEF Start, Places
  <2> QED
    BY <2>1 DEF Turns
<1>3. ended # "cleaned"
  BY <1>1, NotCleaned DEF Start, Places
<1>4. /\ pool' = None /\ mutex' = [mutex EXCEPT ![t] = None]
      /\ running_threads' = running_threads + 1 /\ running_threads' \in Nat
      /\ os' \in [Tids -> {"none", "running", "exited"}] /\ objs' \in [Actors -> SUBSET Tids]
      /\ os'[t] = "running" /\ \A u \in Tids : u # t => os'[u] = os[u]
      /\ \A b \in Actors : objs'[b] = IF b = a THEN objs[a] \cup {t} ELSE objs[b]
      /\ UNCHANGED <<mem, listed, count, state, interp, tid_counter, joinable_threads,
                     detached_threads, total_threads, ended>>
  <2>1. running_threads' = running_threads + 1 /\ running_threads \in Nat
    BY DEF Start, ThreadInv, ControlInv, TypeOK
  <2>2. running_threads' \in Nat
    BY <2>1
  <2>3. os \in [Tids -> {"none", "running", "exited"}] /\ objs \in [Actors -> SUBSET Tids]
    BY DEF ThreadInv, ControlInv, TypeOK
  <2> QED
    BY <1>1, <2>1, <2>2, <2>3 DEF Start, struct
<1>5. TypeOK' /\ Stacks'
  BY <1>1, <1>2, <1>4 DEF ThreadInv, ControlInv, TypeOK, StackTypes, FrameSet, counters
<1>b0. FrameTypes'
  <2> SUFFICES ASSUME NEW b \in Actors, NEW u \in Actors, NEW p \in Places, Pending(b, p, u)'
               PROVE  FrameOK(b, p, u)'
    BY DEF FrameTypes
  <2>1. CASE Pending(b, p, u)
    <3>1. FrameOK(b, p, u)
      BY <2>1 DEF ThreadInv, ControlInv, FrameTypes
    <3>2. b # t
      BY <1>1, <2>1
    <3>3. Alive(b)' <=> Alive(b)
      BY <1>4, <3>2 DEF Alive, Actors
    <3> QED
      BY <1>4, <3>1, <3>3 DEF FrameOK, Born
  <2>2. CASE ~Pending(b, p, u)
    BY <1>1, <1>2, <1>4, <2>2 DEF FrameOK, Alive, Born, RunPlaces
  <2> QED
    BY <2>1, <2>2
<1>b1. PoolIsHeld'
  BY <1>1, <1>2, <1>4 DEF ThreadInv, ControlInv, PoolIsHeld, PoolPlaces
<1>b2. Creating'
  BY <1>1, <1>2, <1>4 DEF ThreadInv, ControlInv, Creating, PoolPlaces
<1>b3. Looking'
  BY <1>1, <1>2, <1>4 DEF ThreadInv, ControlInv, Looking, Viable, Uncallable, PoolPlaces
<1>b4. Ending'
  BY <1>1, <1>2, <1>4 DEF ThreadInv, ControlInv, Ending, RunPlaces, Actors
<1>b5. Joining'
  BY <1>1, <1>2, <1>4 DEF ThreadInv, ControlInv, Joining, Uncallable
<1>b6. OneJoiner'
  BY <1>1, <1>2, <1>4 DEF ThreadInv, ControlInv, OneJoiner, JoinPlaces
<1>b7. Clearing'
  BY <1>1, <1>2, <1>4 DEF ThreadInv, ControlInv, Clearing
<1>b8. OneEnd'
  BY <1>1, <1>2, <1>4 DEF ThreadInv, ControlInv, OneEnd, EndPlaces
<1>b9. Unborn'
  BY <1>1, <1>2, <1>4 DEF ThreadInv, ControlInv, Unborn, Born
<1>b10. Running'
  BY <1>1, <1>2, <1>4 DEF ThreadInv, ControlInv, Running, Born, Viable, PoolPlaces
<1>6. /\ \A u \in Tids : NoRefs(u)' <=> NoRefs(u)
      /\ Interpreters' /\ Accounted' /\ PoolCounters' /\ TotalIsRight' /\ PoolOutlivesThreads'
  <2>1. ASSUME NEW u \in Tids PROVE RefsSame(u)
    <3>1. CASE u # t
      <4>1. /\ state'[u] = state[u] /\ os'[u] = os[u]
            /\ \A b \in Actors :
                 u \in objs'[b] \/ Pending(b, "clone", u)' \/ Pending(b, "start", u)' <=>
                   u \in objs[b] \/ Pending(b, "clone", u) \/ Pending(b, "start", u)
        BY <1>2, <1>4, <3>1
      <4>2. Pending(u, "run_ref", u)' <=> Pending(u, "run_ref", u)
        BY <1>2 DEF Actors
      <4>3. (\E b \in Actors, p \in JoinPlaces : Pending(b, p, u)') <=>
              \E b \in Actors, p \in JoinPlaces : Pending(b, p, u)
        BY <1>2 DEF JoinPlaces
      <4> QED
        BY <4>1, <4>2, <4>3, SameRefs
    <3>2. CASE u = t
      <4>1. ObjectHolders(t)' = ObjectHolders(t)
        BY <1>1, <1>2, <1>4 DEF ObjectHolders, PoolPlaces
      <4>2. RunHolds(t)' <=> RunHolds(t)
        BY <1>1, <1>2, <1>4 DEF RunHolds
      <4>3. JoinHolds(t)' <=> JoinHolds(t)
        BY <1>2, <1>4 DEF JoinHolds, Uncallable
      <4> QED
        BY <3>2, <4>1, <4>2, <4>3 DEF RefsSame
    <3> QED
      BY <3>1, <3>2
  <2>2. \A u \in Tids : NoRefs(u)' <=> NoRefs(u)
    BY <2>1, RefsUnchanged
  <2>3. Accounted'
    BY <1>4, <2>1, AccountedSame DEF ThreadInv, CountInv
  <2>4. Interpreters'
    BY <1>4, <2>2, InterpretersSame DEF ThreadInv, CountInv
  <2>5. /\ RunningOnes' = RunningOnes \cup {t} /\ t \notin RunningOnes
        /\ DetachedOnes' = DetachedOnes /\ JoinableOnes' = JoinableOnes
    BY <1>1, <1>4 DEF InState, RunningOnes, DetachedOnes, JoinableOnes
  <2>6. Cardinality(RunningOnes)' = Cardinality(RunningOnes) + 1
    BY <2>5, CountsFinite, FS_AddElement
  <2>7. PoolCounters'
    <3>1. TakenOff' = TakenOff
      BY <1>2, <1>4 DEF TakenOff
    <3>2. PoolCounters
      BY DEF ThreadInv, CountInv
    <3>3. /\ running_threads' = running_threads + 1
          /\ joinable_threads' = joinable_threads /\ detached_threads' = detached_threads
      BY <1>4
    <3> QED
      BY <2>5, <2>6, <3>1, <3>2, <3>3, CountsFinite, CountersCount, CountersCountNext
  <2>8. PoolOutlivesThreads'
    BY <1>3, <1>4 DEF PoolOutlivesThreads
  <2>9. TotalIsRight'
    BY <1>2, <1>4, TotalSame DEF ThreadInv, CountInv
  <2> QED
    BY <2>2, <2>3, <2>4, <2>7, <2>8, <2>9
<1>7. Freeing'
  BY <1>1, <1>2, <1>4, <1>6 DEF ThreadInv, CountInv, Freeing, Viable
<1> QED
  BY <1>5, <1>b0, <1>b1, <1>b2, <1>b3, <1>b4, <1>b5, <1>b6, <1>b7, <1>b8, <1>b9, <1>b10, <1>6, <1>7 DEF ThreadInv, ControlInv, CountInv

LEMMA StartFailsInv ==
  ASSUME ThreadInv, NEW a \in Actors, NEW t \in Tids, StartFails(a, t)
  PROVE  ThreadInv'
<1>1. /\ StackTypes /\ t \in Actors /\ Alive(a) /\ Born(t) /\ Pending(a, "start", t)
      /\ \A q, u : Pending(a, q, u) => q = "start" /\ u = t
      /\ pool = a /\ None \notin Actors /\ os[t] = "none" /\ state[t] = {} /\ mem[t] = "alloc"
      /\ \A b \in Actors, p \in EndPlaces : ~Pending(b, p, t)
      /\ \A b \in Actors, p \in PoolPlaces, u \in Actors : Pending(b, p, u) => b = a
  <2>1. t \in Actors /\ At(a, "start", t) /\ "start" \in Places /\ "start" \notin {"look", "unpool"}
    BY DEF StartFails, Places, Actors
  <2>2. StackTypes /\ Alive(a) /\ Pending(a, "start", t) /\ Born(t)
    BY <2>1, AtFacts DEF FrameOK
  <2>3. pool = a /\ os[t] = "none" /\ state[t] = {} /\ mem[t] = "alloc"
    BY <2>1, <2>2 DEF ThreadInv, ControlInv, PoolIsHeld, PoolPlaces, Creating
  <2>4. Viable(t) /\ ~NoRefs(t)
    BY <2>2, <2>3 DEF Viable, NoRefs, RunHolds
  <2>5. \A b \in Actors, p \in EndPlaces : ~Pending(b, p, t)
    BY <2>2, <2>4, Referenced
  <2>8. \A b \in Actors, p \in PoolPlaces, u \in Actors : Pending(b, p, u) => b = a
    BY <2>3 DEF ThreadInv, ControlInv, PoolIsHeld
  <2>9. \A q, u : Pending(a, q, u) => q = "start" /\ u = t
    BY <2>1, <2>2, OnlyBottom DEF BottomPlaces
  <2> QED
    BY <2>1, <2>2, <2>3, <2>5, <2>8, <2>9, IthreadsAssumption
<1>2. /\ StackTypes'
      /\ \A b \in Actors : \A q, u :
           Pending(b, q, u)' <=> \/ b = a /\ u = t /\ q = "unlink"
                                 \/ Pending(b, q, u) /\ ~(b = a /\ u = t /\ q = "start")
  <2>1. /\ At(a, "start", t) /\ "start" \in Places /\ "unlink" \in Places
        /\ "unlink" \notin BottomPlaces /\ ~Pending(a, "unlink", t)
        /\ Then(a, <<Frame("unlink", t)>>)
    BY <1>1 DEF StartFails, BottomPlaces, Places, EndPlaces
  <2>2. Turns(a, t, {"start"}, {"unlink"})
    BY <1>1, <2>1, TurnOne
  <2> QED
    BY <2>2 DEF Turns
<1>3. ended # "cleaned"
  BY <1>1, NotCleaned DEF StartFails, Places
<1>4. /\ pool' = None /\ mutex' = [mutex EXCEPT ![t] = None]
      /\ state' \in [Tids -> SUBSET Flags] /\ state'[t] = {"NONVIABLE"}
      /\ \A u \in Tids : u # t => state'[u] = state[u]
      /\ UNCHANGED <<mem, listed, count, interp, objs, os, tid_counter, counters, ended>>
  <2>1. state \in [Tids -> SUBSET Flags]
    BY DEF ThreadInv, ControlInv, TypeOK
  <2> QED
    BY <1>1, <2>1 DEF StartFails, Flags
<1>5. TypeOK' /\ Stacks'
  BY <1>1, <1>2, <1>4 DEF ThreadInv, ControlInv, TypeOK, StackTypes, FrameSet, counters
<1>b0. FrameTypes'
  <2> SUFFICES ASSUME NEW b \in Actors, NEW u \in Actors, NEW p \in Places, Pending(b, p, u)'
               PROVE  FrameOK(b, p, u)'
    BY DEF FrameTypes
  <2>1. CASE Pending(b, p, u)
    <3>1. FrameOK(b, p, u)
      BY <2>1 DEF ThreadInv, ControlInv, FrameTypes
    <3> QED
      BY <1>4, <3>1 DEF FrameOK, Alive, Born
  <2>2. CASE ~Pending(b, p, u)
    BY <1>1, <1>2, <1>4, <2>2 DEF FrameOK, Alive, Born, RunPlaces
  <2> QED
    BY <2>1, <2>2
<1>b1. PoolIsHeld'
  BY <1>1, <1>2, <1>4 DEF ThreadInv, ControlInv, PoolIsHeld, PoolPlaces
<1>b2. Creating'
  BY <1>1, <1>2, <1>4 DEF ThreadInv, ControlInv, Creating, PoolPlaces
<1>b3. Looking'
  BY <1>1, <1>2, <1>4 DEF ThreadInv, ControlInv, Looking, Viable, Uncallable, PoolPlaces
<1>b4. Ending'
  BY <1>1, <1>2, <1>4 DEF ThreadInv, ControlInv, Ending, RunPlaces, Actors
<1>b5. Joining'
  BY <1>1, <1>2, <1>4 DEF ThreadInv, ControlInv, Joining, Uncallable
<1>b6. OneJoiner'
  BY <1>1, <1>2, <1>4 DEF ThreadInv, ControlInv, OneJoiner, JoinPlaces
<1>b7. Clearing'
  BY <1>1, <1>2, <1>4 DEF ThreadInv, ControlInv, Clearing
<1>b8. OneEnd'
  BY <1>1, <1>2, <1>4 DEF ThreadInv, ControlInv, OneEnd, EndPlaces
<1>b9. Unborn'
  BY <1>1, <1>2, <1>4 DEF ThreadInv, ControlInv, Unborn, Born
<1>b10. Running'
  BY <1>1, <1>2, <1>4 DEF ThreadInv, ControlInv, Running, Born, Viable, PoolPlaces
<1>6. /\ \A u \in Tids \ {t} : NoRefs(u)' <=> NoRefs(u)
      /\ Interpreters' /\ Accounted' /\ PoolCounters' /\ TotalIsRight' /\ PoolOutlivesThreads'
  <2>1. ASSUME NEW u \in Tids \ {t} PROVE RefsSame(u)
    <3>1. /\ state'[u] = state[u] /\ os'[u] = os[u]
          /\ \A b \in Actors :
               u \in objs'[b] \/ Pending(b, "clone", u)' \/ Pending(b, "start", u)' <=>
                 u \in objs[b] \/ Pending(b, "clone", u) \/ Pending(b, "start", u)
      BY <1>2, <1>4
    <3>2. Pending(u, "run_ref", u)' <=> Pending(u, "run_ref", u)
      BY <1>2 DEF Actors
    <3>3. (\E b \in Actors, p \in JoinPlaces : Pending(b, p, u)') <=>
            \E b \in Actors, p \in JoinPlaces : Pending(b, p, u)
      BY <1>2 DEF JoinPlaces
    <3> QED
      BY <3>1, <3>2, <3>3, SameRefs
  <2>2. \A u \in Tids \ {t} : References(u)' = References(u) /\ (NoRefs(u)' <=> NoRefs(u))
    BY <2>1, RefsUnchanged
  <2>3. ~Viable(t)' /\ \A u \in Tids \ {t} : Viable(u)' <=> Viable(u)
    BY <1>4 DEF Viable
  <2>4. Accounted'
    BY <1>4, <2>2, <2>3 DEF ThreadInv, CountInv, Accounted
  <2>5. Interpreters'
    BY <1>4, <2>2, <2>3 DEF ThreadInv, CountInv, Interpreters, Born
  <2>6. PoolCounters'
    <3>1. TakenOff' = TakenOff
      <4>1. \A u \in Tids : "JOINED" \in state'[u] <=> "JOINED" \in state[u]
        BY <1>1, <1>4
      <4> QED
        BY <1>2, <4>1 DEF TakenOff
    <3>2. /\ RunningOnes' = RunningOnes /\ DetachedOnes' = DetachedOnes
          /\ JoinableOnes' = JoinableOnes
      BY <1>1, <1>4 DEF InState, RunningOnes, DetachedOnes, JoinableOnes
    <3>3. PoolCounters /\ UNCHANGED counters
      BY <1>4 DEF ThreadInv, CountInv
    <3> QED
      BY <3>1, <3>2, <3>3, CountersCount, CountersCountNext DEF counters
  <2>8. PoolOutlivesThreads'
    BY <1>3, <1>4 DEF PoolOutlivesThreads
  <2>9. TotalIsRight'
    BY <1>2, <1>4, TotalSame DEF ThreadInv, CountInv, counters
  <2> QED
    BY <2>2, <2>4, <2>5, <2>6, <2>8, <2>9
<1>7. Freeing'
  BY <1>1, <1>2, <1>4, <1>6 DEF ThreadInv, CountInv, Freeing, Viable
<1> QED
  BY <1>5, <1>b0, <1>b1, <1>b2, <1>b3, <1>b4, <1>b5, <1>b6, <1>b7, <1>b8, <1>b9, <1>b10, <1>6, <1>7 DEF ThreadInv, ControlInv, CountInv

LEMMA JoinInv ==
  ASSUME ThreadInv, NEW a \in Actors, NEW t \in Tids, Join(a, t)
  PROVE  ThreadInv'
<1>1. /\ StackTypes /\ Alive(a) /\ t \in Actors /\ Born(t) /\ work[a] = <<>>
      /\ \A q, u : ~Pending(a, q, u)
      /\ os[t] # "none" /\ Viable(t) /\ t \in objs[a] /\ ~Uncallable(t)
      /\ \A b \in Actors, p \in JoinPlaces : ~Pending(b, p, t)
  <2>1. t \in Actors /\ InPerl(a) /\ ~Uncallable(t) /\ t \in objs[a] /\ Viable(t)
    BY DEF Join, Usable, Actors
  <2>2. StackTypes /\ Alive(a) /\ work[a] = <<>> /\ \A q, u : ~Pending(a, q, u)
    BY <2>1, NothingPending
  <2>3. os[t] # "none" /\ Born(t)
    BY <2>1 DEF ThreadInv, ControlInv, Running, Unborn
  <2>4. \A b \in Actors, p \in JoinPlaces : ~Pending(b, p, t)
    BY <2>1 DEF ThreadInv, ControlInv, Joining, Uncallable, JoinPlaces
  <2> QED
    BY <2>1, <2>2, <2>3, <2>4
<1>2. /\ StackTypes'
      /\ \A b \in Actors : \A q, u :
           Pending(b, q, u)' <=> \/ b = a /\ u = t /\ q = "joined"
                                 \/ Pending(b, q, u)
  <2>1. Turns(a, t, {}, {"joined"})
    BY <1>1, TurnCall DEF Join, Places
  <2> QED
    BY <2>1 DEF Turns
<1>3. ended # "cleaned"
  BY NotCleaned DEF Join
<1>4. /\ state' \in [Tids -> SUBSET Flags] /\ state'[t] = state[t] \cup {"JOINED"}
      /\ \A u \in Tids : u # t => state'[u] = state[u]
      /\ \A u \in Tids : \A f : f # "JOINED" => (f \in state'[u] <=> f \in state[u])
      /\ UNCHANGED <<pool, mutex, mem, listed, count, interp, objs, os, tid_counter,
                     counters, ended>>
  <2>1. state \in [Tids -> SUBSET Flags]
    BY DEF ThreadInv, ControlInv, TypeOK
  <2> QED
    BY <2>1 DEF Join, locks, Flags
<1>5. TypeOK' /\ Stacks'
  BY <1>1, <1>2, <1>4 DEF ThreadInv, ControlInv, TypeOK, StackTypes, FrameSet, counters
<1>b0. FrameTypes'
  <2> SUFFICES ASSUME NEW b \in Actors, NEW u \in Actors, NEW p \in Places, Pending(b, p, u)'
               PROVE  FrameOK(b, p, u)'
    BY DEF FrameTypes
  <2>1. CASE Pending(b, p, u)
    <3>1. FrameOK(b, p, u)
      BY <2>1 DEF ThreadInv, ControlInv, FrameTypes
    <3> QED
      BY <1>4, <3>1 DEF FrameOK, Alive, Born
  <2>2. CASE ~Pending(b, p, u)
    BY <1>1, <1>2, <1>4, <2>2 DEF FrameOK, Alive, Born, RunPlaces
  <2> QED
    BY <2>1, <2>2
<1>b1. PoolIsHeld'
  BY <1>1, <1>2, <1>4 DEF ThreadInv, ControlInv, PoolIsHeld, PoolPlaces
<1>b2. Creating'
  BY <1>1, <1>2, <1>4 DEF ThreadInv, ControlInv, Creating
<1>b3. Looking'
  BY <1>1, <1>2, <1>4 DEF ThreadInv, ControlInv, Looking, Viable, Uncallable
<1>b4. Ending'
  BY <1>1, <1>2, <1>4 DEF ThreadInv, ControlInv, Ending, RunPlaces, Actors
<1>b5. Joining'
  BY <1>1, <1>2, <1>4 DEF ThreadInv, ControlInv, Joining, Uncallable
<1>b6. OneJoiner'
  BY <1>1, <1>2, <1>4 DEF ThreadInv, ControlInv, OneJoiner, JoinPlaces
<1>b7. Clearing'
  BY <1>1, <1>2, <1>4 DEF ThreadInv, ControlInv, Clearing
<1>b8. OneEnd'
  BY <1>1, <1>2, <1>4 DEF ThreadInv, ControlInv, OneEnd, EndPlaces
<1>b9. Unborn'
  BY <1>1, <1>2, <1>4 DEF ThreadInv, ControlInv, Unborn, Born
<1>b10. Running'
  BY <1>1, <1>2, <1>4 DEF ThreadInv, ControlInv, Running, Born, Viable
<1>6. /\ \A u \in Tids : NoRefs(u)' <=> NoRefs(u)
      /\ Interpreters' /\ Accounted' /\ PoolCounters' /\ TotalIsRight' /\ PoolOutlivesThreads'
  <2>1. ASSUME NEW u \in Tids PROVE RefsSame(u)
    <3>1. ObjectHolders(u)' = ObjectHolders(u)
      BY <1>1, <1>2, <1>4 DEF ObjectHolders
    <3>2. RunHolds(u)' <=> RunHolds(u)
      BY <1>1, <1>2, <1>4 DEF RunHolds, Actors
    <3>3. JoinHolds(u)' <=> JoinHolds(u)
      <4>1. CASE u = t
        BY <1>1, <1>2, <4>1 DEF JoinHolds
      <4>2. CASE u # t
        BY <1>2, <1>4, <4>2 DEF JoinHolds, Uncallable
      <4> QED
        BY <4>1, <4>2
    <3> QED
      BY <3>1, <3>2, <3>3 DEF RefsSame
  <2>2. \A u \in Tids : References(u)' = References(u) /\ (NoRefs(u)' <=> NoRefs(u))
    BY <2>1, RefsUnchanged
  <2>3. \A u \in Tids : Viable(u)' <=> Viable(u)
    BY <1>4 DEF Viable
  <2>4. Accounted'
    BY <1>4, <2>2, <2>3 DEF ThreadInv, CountInv, Accounted
  <2>5. Interpreters'
    BY <1>4, <2>2, <2>3 DEF ThreadInv, CountInv, Interpreters, Born
  <2>6. PoolCounters'
    <3>1. TakenOff' = TakenOff
      <4>1. t \notin TakenOff' /\ t \notin TakenOff
        BY <1>1, <1>2 DEF TakenOff, Uncallable
      <4>2. \A u \in Tids \ {t} : u \in TakenOff' <=> u \in TakenOff
        BY <1>2, <1>4 DEF TakenOff
      <4> QED
        BY <4>1, <4>2 DEF TakenOff
    <3>2. /\ RunningOnes' = RunningOnes /\ DetachedOnes' = DetachedOnes
          /\ JoinableOnes' = JoinableOnes
      BY <1>1, <1>4 DEF InState, RunningOnes, DetachedOnes, JoinableOnes
    <3>3. PoolCounters /\ UNCHANGED counters
      BY <1>4 DEF ThreadInv, CountInv
    <3> QED
      BY <3>1, <3>2, <3>3, CountersCount, CountersCountNext DEF counters
  <2>8. PoolOutlivesThreads'
    BY <1>3, <1>4 DEF PoolOutlivesThreads
  <2>9. TotalIsRight'
    BY <1>2, <1>4, TotalSame DEF ThreadInv, CountInv, counters
  <2> QED
    BY <2>2, <2>4, <2>5, <2>6, <2>8, <2>9
<1>7. Freeing'
  BY <1>1, <1>2, <1>4, <1>6 DEF ThreadInv, CountInv, Freeing, Viable
<1> QED
  BY <1>5, <1>b0, <1>b1, <1>b2, <1>b3, <1>b4, <1>b5, <1>b6, <1>b7, <1>b8, <1>b9, <1>b10, <1>6, <1>7 DEF ThreadInv, ControlInv, CountInv

\* detach() croaks.
LEMMA NotDetachedInv ==
  ASSUME ThreadInv, NEW a \in Actors, NEW t \in Tids, MarkDetached(a, t), Uncallable(t)
  PROVE  ThreadInv'
<1>1. /\ StackTypes /\ t \in Actors /\ Alive(a) /\ Born(t) /\ Pending(a, "detach", t)
      /\ \A q, u : Pending(a, q, u) => q = "detach" /\ u = t
      /\ pool = a /\ None \notin Actors /\ os[t] # "none" /\ Viable(t)
      /\ At(a, "detach", t)
      /\ \A b \in Actors, p \in PoolPlaces, u \in Actors : Pending(b, p, u) => b = a
  <2>1. t \in Actors /\ At(a, "detach", t) /\ "detach" \in Places /\ "detach" \notin {"look", "unpool"}
    BY DEF MarkDetached, Places, Actors
  <2>2. StackTypes /\ Alive(a) /\ Pending(a, "detach", t) /\ Born(t)
    BY <2>1, AtFacts DEF FrameOK
  <2>3. pool = a /\ os[t] # "none"
    BY <2>1, <2>2 DEF ThreadInv, ControlInv, PoolIsHeld, PoolPlaces, Joining
  <2>4. Viable(t)
    BY <2>3 DEF ThreadInv, ControlInv, Running
  <2>8. \A b \in Actors, p \in PoolPlaces, u \in Actors : Pending(b, p, u) => b = a
    BY <2>3 DEF ThreadInv, ControlInv, PoolIsHeld
  <2>9. \A q, u : Pending(a, q, u) => q = "detach" /\ u = t
    BY <2>1, <2>2, OnlyBottom DEF BottomPlaces
  <2> QED
    BY <2>1, <2>2, <2>3, <2>4, <2>8, <2>9, IthreadsAssumption
<1>2. /\ StackTypes'
      /\ \A b \in Actors : \A q, u :
           Pending(b, q, u)' <=> Pending(b, q, u) /\ ~(b = a /\ u = t /\ q = "detach")
  <2>1. Turns(a, t, {"detach"}, {})
    BY <1>1, TurnPop DEF MarkDetached, Places
  <2> QED
    BY <2>1 DEF Turns
<1>3. ended # "cleaned"
  BY <1>1, NotCleaned DEF Places
<1>4. /\ pool' = None
      /\ UNCHANGED <<mutex, mem, listed, count, state, interp, objs, os, tid_counter,
                     counters, ended>>
  BY DEF MarkDetached
<1>5. TypeOK' /\ Stacks'
  BY <1>1, <1>2, <1>4 DEF ThreadInv, ControlInv, TypeOK, StackTypes, FrameSet, counters
<1>b0. FrameTypes'
  <2> SUFFICES ASSUME NEW b \in Actors, NEW u \in Actors, NEW p \in Places, Pending(b, p, u)'
               PROVE  FrameOK(b, p, u)'
    BY DEF FrameTypes
  <2>1. CASE Pending(b, p, u)
    <3>1. FrameOK(b, p, u)
      BY <2>1 DEF ThreadInv, ControlInv, FrameTypes
    <3> QED
      BY <1>4, <3>1 DEF FrameOK, Alive, Born
  <2>2. CASE ~Pending(b, p, u)
    BY <1>1, <1>2, <1>4, <2>2 DEF FrameOK, Alive, Born, RunPlaces
  <2> QED
    BY <2>1, <2>2
<1>b1. PoolIsHeld'
  BY <1>1, <1>2, <1>4 DEF ThreadInv, ControlInv, PoolIsHeld, PoolPlaces
<1>b2. Creating'
  BY <1>1, <1>2, <1>4 DEF ThreadInv, ControlInv, Creating
<1>b3. Looking'
  BY <1>1, <1>2, <1>4 DEF ThreadInv, ControlInv, Looking, Viable, Uncallable
<1>b4. Ending'
  BY <1>1, <1>2, <1>4 DEF ThreadInv, ControlInv, Ending, RunPlaces, Actors
<1>b5. Joining'
  BY <1>1, <1>2, <1>4 DEF ThreadInv, ControlInv, Joining, Uncallable
<1>b6. OneJoiner'
  BY <1>1, <1>2, <1>4 DEF ThreadInv, ControlInv, OneJoiner, JoinPlaces
<1>b7. Clearing'
  BY <1>1, <1>2, <1>4 DEF ThreadInv, ControlInv, Clearing
<1>b8. OneEnd'
  BY <1>1, <1>2, <1>4 DEF ThreadInv, ControlInv, OneEnd, EndPlaces
<1>b9. Unborn'
  BY <1>1, <1>2, <1>4 DEF ThreadInv, ControlInv, Unborn, Born
<1>b10. Running'
  BY <1>1, <1>2, <1>4 DEF ThreadInv, ControlInv, Running, Born, Viable
<1>6. /\ \A u \in Tids : NoRefs(u)' <=> NoRefs(u)
      /\ Interpreters' /\ Accounted' /\ PoolCounters' /\ TotalIsRight' /\ PoolOutlivesThreads'
  <2>1. \A b \in Actors, u \in Tids :
          /\ (Pending(b, "clone", u) \/ Pending(b, "start", u))' <=>
               Pending(b, "clone", u) \/ Pending(b, "start", u)
          /\ Pending(b, "run_ref", u)' <=> Pending(b, "run_ref", u)
          /\ Pending(b, "joined", u)' <=> Pending(b, "joined", u)
          /\ Pending(b, "total", u)' <=> Pending(b, "total", u)
    BY <1>1, <1>2 DEF Actors
  <2>2. ASSUME NEW u \in Tids
        PROVE  (\E b \in Actors, p \in JoinPlaces : Pending(b, p, u)') <=>
                 \E b \in Actors, p \in JoinPlaces : Pending(b, p, u)
    BY <1>1, <1>2 DEF Actors, JoinPlaces
  <2> QED
    BY <1>3, <1>4, <2>1, <2>2, QuietCounts
<1>7. Freeing'
  BY <1>1, <1>2, <1>4, <1>6 DEF ThreadInv, CountInv, Freeing, Viable
<1> QED
  BY <1>5, <1>b0, <1>b1, <1>b2, <1>b3, <1>b4, <1>b5, <1>b6, <1>b7, <1>b8, <1>b9, <1>b10, <1>6, <1>7 DEF ThreadInv, ControlInv, CountInv

LEMMA MarkedDetachedInv ==
  ASSUME ThreadInv, NEW a \in Actors, NEW t \in Tids, MarkDetached(a, t), ~Uncallable(t)
  PROVE  ThreadInv'
<1>1. /\ StackTypes /\ t \in Actors /\ Alive(a) /\ Born(t) /\ Pending(a, "detach", t)
      /\ \A q, u : Pending(a, q, u) => q = "detach" /\ u = t
      /\ pool = a /\ None \notin Actors /\ os[t] # "none" /\ Viable(t)
      /\ At(a, "detach", t)
      /\ \A b \in Actors, p \in JoinPlaces : ~Pending(b, p, t)
      /\ \A b \in Actors, p \in PoolPlaces, u \in Actors : Pending(b, p, u) => b = a
  <2>1. t \in Actors /\ At(a, "detach", t) /\ "detach" \in Places /\ "detach" \notin {"look", "unpool"}
    BY DEF MarkDetached, Places, Actors
  <2>2. StackTypes /\ Alive(a) /\ Pending(a, "detach", t) /\ Born(t)
    BY <2>1, AtFacts DEF FrameOK
  <2>3. pool = a /\ os[t] # "none"
    BY <2>1, <2>2 DEF ThreadInv, ControlInv, PoolIsHeld, PoolPlaces, Joining
  <2>4. Viable(t)
    BY <2>3 DEF ThreadInv, ControlInv, Running
  <2>8. \A b \in Actors, p \in PoolPlaces, u \in Actors : Pending(b, p, u) => b = a
    BY <2>3 DEF ThreadInv, ControlInv, PoolIsHeld
  <2>9. \A q, u : Pending(a, q, u) => q = "detach" /\ u = t
    BY <2>1, <2>2, OnlyBottom DEF BottomPlaces
  <2>10. \A b \in Actors, p \in JoinPlaces : ~Pending(b, p, t)
    BY <2>1 DEF ThreadInv, ControlInv, Joining, Uncallable, JoinPlaces
  <2> QED
    BY <2>10, <2>1, <2>2, <2>3, <2>4, <2>8, <2>9, IthreadsAssumption
<1>2. /\ StackTypes'
      /\ \A b \in Actors : \A q, u :
           Pending(b, q, u)' <=> \/ b = a /\ u = t /\ q = "detached"
                                 \/ Pending(b, q, u) /\ ~(b = a /\ u = t /\ q = "detach")
  <2>1. /\ At(a, "detach", t) /\ "detach" \in Places /\ "detached" \in Places
        /\ "detach" \in BottomPlaces /\ ~Pending(a, "detached", t)
        /\ Then(a, <<Frame("detached", t)>>)
    BY <1>1 DEF MarkDetached, BottomPlaces, Places
  <2>2. Turns(a, t, {"detach"}, {"detached"})
    BY <1>1, <2>1, TurnOne
  <2> QED
    BY <2>2 DEF Turns
<1>3. ended # "cleaned"
  BY <1>1, NotCleaned DEF Places
<1>4. /\ pool' = None
      /\ state' \in [Tids -> SUBSET Flags] /\ state'[t] = state[t] \cup {"DETACHED"}
      /\ \A u \in Tids : u # t => state'[u] = state[u]
      /\ \A u \in Tids : \A f : f # "DETACHED" => (f \in state'[u] <=> f \in state[u])
      /\ UNCHANGED <<mutex, mem, listed, count, interp, objs, os, tid_counter,
                     total_threads, ended>>
  <2>1. state \in [Tids -> SUBSET Flags]
    BY DEF ThreadInv, ControlInv, TypeOK
  <2> QED
    BY <2>1 DEF MarkDetached, Flags
<1>b0. FrameTypes'
  <2> SUFFICES ASSUME NEW b \in Actors, NEW u \in Actors, NEW p \in Places, Pending(b, p, u)'
               PROVE  FrameOK(b, p, u)'
    BY DEF FrameTypes
  <2>1. CASE Pending(b, p, u)
    <3>1. FrameOK(b, p, u)
      BY <2>1 DEF ThreadInv, ControlInv, FrameTypes
    <3> QED
      BY <1>4, <3>1 DEF FrameOK, Alive, Born
  <2>2. CASE ~Pending(b, p, u)
    BY <1>1, <1>2, <1>4, <2>2 DEF FrameOK, Alive, Born, RunPlaces
  <2> QED
    BY <2>1, <2>2
<1>b1. PoolIsHeld'
  BY <1>1, <1>2, <1>4 DEF ThreadInv, ControlInv, PoolIsHeld, PoolPlaces
<1>b2. Creating'
  BY <1>1, <1>2, <1>4 DEF ThreadInv, ControlInv, Creating
<1>b3. Looking'
  BY <1>1, <1>2, <1>4 DEF ThreadInv, ControlInv, Looking, Viable, Uncallable, PoolPlaces
<1>b4. Ending'
  BY <1>1, <1>2, <1>4 DEF ThreadInv, ControlInv, Ending, RunPlaces, Actors
<1>b5. Joining'
  BY <1>1, <1>2, <1>4 DEF ThreadInv, ControlInv, Joining, Uncallable
<1>b6. OneJoiner'
  BY <1>1, <1>2, <1>4 DEF ThreadInv, ControlInv, OneJoiner, JoinPlaces
<1>b7. Clearing'
  BY <1>1, <1>2, <1>4 DEF ThreadInv, ControlInv, Clearing
<1>b8. OneEnd'
  BY <1>1, <1>2, <1>4 DEF ThreadInv, ControlInv, OneEnd, EndPlaces
<1>b9. Unborn'
  BY <1>1, <1>2, <1>4 DEF ThreadInv, ControlInv, Unborn, Born
<1>b10. Running'
  BY <1>1, <1>2, <1>4 DEF ThreadInv, ControlInv, Running, Born, Viable
<1>6. /\ \A u \in Tids : NoRefs(u)' <=> NoRefs(u)
      /\ Interpreters' /\ Accounted' /\ TotalIsRight' /\ PoolOutlivesThreads'
  <2>1. ASSUME NEW u \in Tids PROVE RefsSame(u)
    <3>1. ObjectHolders(u)' = ObjectHolders(u)
      BY <1>1, <1>2, <1>4 DEF ObjectHolders
    <3>2. RunHolds(u)' <=> RunHolds(u)
      BY <1>1, <1>2, <1>4 DEF RunHolds, Actors
    <3>3. JoinHolds(u)' <=> JoinHolds(u)
      <4>1. CASE u = t
        BY <1>1, <1>2, <4>1 DEF JoinHolds
      <4>2. CASE u # t
        BY <1>2, <1>4, <4>2 DEF JoinHolds, Uncallable
      <4> QED
        BY <4>1, <4>2
    <3> QED
      BY <3>1, <3>2, <3>3 DEF RefsSame
  <2>2. \A u \in Tids : References(u)' = References(u) /\ (NoRefs(u)' <=> NoRefs(u))
    BY <2>1, RefsUnchanged
  <2>3. \A u \in Tids : Viable(u)' <=> Viable(u)
    BY <1>4 DEF Viable
  <2>4. Accounted'
    BY <1>4, <2>2, <2>3 DEF ThreadInv, CountInv, Accounted
  <2>5. Interpreters'
    BY <1>4, <2>2, <2>3 DEF ThreadInv, CountInv, Interpreters, Born
  <2>8. PoolOutlivesThreads'
    BY <1>3, <1>4 DEF PoolOutlivesThreads
  <2>9. TotalIsRight'
    BY <1>2, <1>4, TotalSame DEF ThreadInv, CountInv
  <2> QED
    BY <2>2, <2>4, <2>5, <2>8, <2>9
<1>8. PoolCounters'
  <2>1. TakenOff' = TakenOff
    <3>1. \A u \in Tids : "JOINED" \in state'[u] <=> "JOINED" \in state[u]
      BY <1>4
    <3> QED
      BY <1>2, <3>1 DEF TakenOff
  <2>2. PoolCounters
    BY DEF ThreadInv, CountInv
  <2>3. "DETACHED" \notin state[t]
    BY DEF Uncallable
  <2>4. CASE "FINISHED" \in state[t]
    <3>1. /\ JoinableOnes' = JoinableOnes \ {t} /\ t \in JoinableOnes
          /\ RunningOnes' = RunningOnes /\ DetachedOnes' = DetachedOnes
      BY <1>1, <1>4, <2>3, <2>4 DEF InState, RunningOnes, DetachedOnes, JoinableOnes
    <3>2. Cardinality(JoinableOnes)' = Cardinality(JoinableOnes) - 1
      BY <3>1, CountsFinite, FS_RemoveElement
    <3>3. /\ joinable_threads' = joinable_threads - 1
          /\ running_threads' = running_threads /\ detached_threads' = detached_threads
      BY <2>4 DEF MarkDetached
    <3> QED
      BY <2>1, <2>2, <3>1, <3>2, <3>3, CountsFinite, CountersCount, CountersCountNext
  <2>5. CASE "FINISHED" \notin state[t]
    <3>1. /\ RunningOnes' = RunningOnes \ {t} /\ t \in RunningOnes
          /\ DetachedOnes' = DetachedOnes \cup {t} /\ t \notin DetachedOnes
          /\ JoinableOnes' = JoinableOnes
      BY <1>1, <1>4, <2>3, <2>5 DEF InState, RunningOnes, DetachedOnes, JoinableOnes
    <3>2. Cardinality(RunningOnes)' = Cardinality(RunningOnes) - 1
      BY <3>1, CountsFinite, FS_RemoveElement
    <3>3. Cardinality(DetachedOnes)' = Cardinality(DetachedOnes) + 1
      BY <3>1, CountsFinite, FS_AddElement
    <3>4. /\ running_threads' = running_threads - 1
          /\ detached_threads' = detached_threads + 1 /\ joinable_threads' = joinable_threads
      BY <2>5 DEF MarkDetached
    <3> QED
      BY <2>1, <2>2, <3>1, <3>2, <3>3, <3>4, CountsFinite, CountersCount, CountersCountNext
  <2> QED
    BY <2>4, <2>5
<1>5. TypeOK' /\ Stacks'
  <2>1. running_threads' \in Nat /\ detached_threads' \in Nat /\ joinable_threads' \in Int
    BY <1>8, CountsNext, CountersCountNext
  <2> QED
    BY <1>1, <1>2, <1>4, <2>1 DEF ThreadInv, ControlInv, TypeOK, StackTypes, FrameSet
<1>7. Freeing'
  BY <1>1, <1>2, <1>4, <1>6 DEF ThreadInv, CountInv, Freeing, Viable
<1> QED
  BY <1>5, <1>b0, <1>b1, <1>b2, <1>b3, <1>b4, <1>b5, <1>b6, <1>b7, <1>b8, <1>b9, <1>b10, <1>6, <1>7, <1>8 DEF ThreadInv, ControlInv, CountInv

LEMMA MarkDetachedInv ==
  ASSUME ThreadInv, NEW a \in Actors, NEW t \in Tids, MarkDetached(a, t)
  PROVE  ThreadInv'
BY NotDetachedInv, MarkedDetachedInv

LEMMA CreateInv ==
  ASSUME ThreadInv, NEW a \in Actors, NEW t, t = tid_counter, Create(a)
  PROVE  ThreadInv'
<1>1. /\ StackTypes /\ Alive(a) /\ t \in Tids /\ t \in Actors /\ ~Born(t) /\ work[a] = <<>>
      /\ pool = None /\ None \notin Actors /\ tid_counter + 1 \in 1 .. MaxTid + 1
      /\ \A u \in Tids : u < tid_counter + 1 <=> Born(u) \/ u = t
      /\ mem[t] = "none" /\ t \notin listed /\ os[t] = "none" /\ state[t] = {}
      /\ \A b \in Actors : t \notin objs[b]
      /\ \A q, u : ~Pending(a, q, u)
      /\ \A b \in Actors, p \in Places : ~Pending(b, p, t)
      /\ \A b \in Actors, p \in PoolPlaces, u \in Actors : ~Pending(b, p, u)
  <2>1. /\ t \in Tids /\ ~Born(t) /\ tid_counter + 1 \in 1 .. MaxTid + 1
        /\ \A u \in Tids : u < tid_counter + 1 <=> Born(u) \/ u = t
    <3>1. tid_counter \in 1 .. MaxTid + 1 /\ tid_counter <= MaxTid
      BY DEF Create, ThreadInv, ControlInv, TypeOK
    <3> QED
      BY <3>1, IthreadsAssumption DEF Tids, Born
  <2>2. pool = None /\ None \notin Actors
    BY IthreadsAssumption DEF Create
  <2>3. StackTypes /\ Alive(a) /\ work[a] = <<>> /\ \A q, u : ~Pending(a, q, u)
    BY NothingPending DEF Create
  <2>4. /\ mem[t] = "none" /\ t \notin listed /\ os[t] = "none" /\ state[t] = {}
        /\ \A b \in Actors : t \notin objs[b]
    BY <2>1 DEF ThreadInv, ControlInv, Unborn
  <2>5. \A b \in Actors, p \in PoolPlaces, u \in Actors : ~Pending(b, p, u)
    BY <2>2 DEF ThreadInv, ControlInv, PoolIsHeld
  <2>6. ASSUME NEW b \in Actors, NEW p \in Places, Pending(b, p, t) PROVE FALSE
    <3>1. t \in Actors
      BY <2>1 DEF Actors
    <3>2. p \in {"look", "unpool"}
      BY <2>1, <2>6, <3>1 DEF ThreadInv, ControlInv, FrameTypes, FrameOK
    <3> QED
      BY <2>5, <2>6, <3>1, <3>2 DEF PoolPlaces
  <2> QED
    BY <2>1, <2>2, <2>3, <2>4, <2>5, <2>6 DEF Actors
<1>2. /\ StackTypes'
      /\ \A b \in Actors : \A q, u :
           Pending(b, q, u)' <=> \/ b = a /\ q = "clone" /\ u = t
                                 \/ Pending(b, q, u)
  <2>1. Turns(a, t, {}, {"clone"})
    BY <1>1, TurnCall DEF Create, Places
  <2> QED
    BY <2>1 DEF Turns
<1>3. ended # "cleaned"
  BY NotCleaned DEF Create
<1>4. /\ pool' = a /\ mutex' \in [Tids -> Actors \cup {None}]
      /\ listed' \subseteq Tids /\ interp' \subseteq Tids
      /\ mem' \in [Tids -> {"none", "alloc", "freed"}] /\ mem'[t] = "alloc"
      /\ \A u \in Tids : u # t => mem'[u] = mem[u]
      /\ listed' = listed \cup {t} /\ interp' = interp \cup {t}
      /\ count' \in [Tids -> Nat] /\ count'[t] = 3
      /\ \A u \in Tids : u # t => count'[u] = count[u]
      /\ tid_counter' \in 1 .. MaxTid + 1
      /\ \A u \in Tids : Born(u)' <=> Born(u) \/ u = t
      /\ total_threads' = total_threads + 1 /\ total_threads' \in Nat
      /\ UNCHANGED <<state, objs, os, running_threads, joinable_threads, detached_threads, ended>>
  <2>1. /\ mem \in [Tids -> {"none", "alloc", "freed"}] /\ count \in [Tids -> Nat]
        /\ total_threads \in Nat /\ mutex \in [Tids -> Actors \cup {None}]
        /\ listed \subseteq Tids /\ interp \subseteq Tids
    BY DEF ThreadInv, ControlInv, TypeOK
  <2>2. total_threads' = total_threads + 1 /\ total_threads' \in Nat
    BY <2>1 DEF Create
  <2>3. tid_counter' = tid_counter + 1
    BY DEF Create
  <2>4. tid_counter' \in 1 .. MaxTid + 1 /\ \A u \in Tids : Born(u)' <=> Born(u) \/ u = t
    BY <1>1, <2>3 DEF Born
  <2>5. /\ mem' = [mem EXCEPT ![t] = "alloc"] /\ count' = [count EXCEPT ![t] = 3]
        /\ mutex' = [mutex EXCEPT ![t] = a] /\ pool' = a
        /\ listed' = listed \cup {t} /\ interp' = interp \cup {t}
        /\ UNCHANGED <<state, objs, os, running_threads, joinable_threads, detached_threads, ended>>
    BY DEF Create
  <2>6. /\ mem' \in [Tids -> {"none", "alloc", "freed"}] /\ mem'[t] = "alloc"
        /\ \A u \in Tids : u # t => mem'[u] = mem[u]
    BY <1>1, <2>1, <2>5
  <2>7. /\ count' \in [Tids -> Nat] /\ count'[t] = 3
        /\ \A u \in Tids : u # t => count'[u] = count[u]
    BY <1>1, <2>1, <2>5
  <2>8. /\ mutex' \in [Tids -> Actors \cup {None}]
        /\ listed' \subseteq Tids /\ interp' \subseteq Tids
    BY <1>1, <2>1, <2>5
  <2> QED
    BY <2>2, <2>4, <2>5, <2>6, <2>7, <2>8
<1>5. TypeOK' /\ Stacks'
  BY <1>1, <1>2, <1>4 DEF ThreadInv, ControlInv, TypeOK, StackTypes, FrameSet, counters
<1>b0. FrameTypes'
  <2> SUFFICES ASSUME NEW b \in Actors, NEW u \in Actors, NEW p \in Places, Pending(b, p, u)'
               PROVE  FrameOK(b, p, u)'
    BY DEF FrameTypes
  <2>1. CASE Pending(b, p, u)
    <3>1. FrameOK(b, p, u)
      BY <2>1 DEF ThreadInv, ControlInv, FrameTypes
    <3>2. Alive(b)' <=> Alive(b)
      BY <1>4 DEF Alive
    <3>3. Born(u) /\ u \in Tids => Born(u)'
      BY <1>4
    <3> QED
      BY <3>1, <3>2, <3>3 DEF FrameOK
  <2>2. CASE ~Pending(b, p, u)
    <3>1. b = a /\ p = "clone" /\ u = t
      BY <1>2, <2>2
    <3>2. Born(t)' /\ Alive(a)'
      BY <1>1, <1>4 DEF Alive
    <3> QED
      BY <1>1, <3>1, <3>2 DEF FrameOK, RunPlaces
  <2> QED
    BY <2>1, <2>2
<1>b1. PoolIsHeld'
  BY <1>1, <1>2, <1>4 DEF ThreadInv, ControlInv, PoolIsHeld, PoolPlaces
<1>b2. Creating'
  BY <1>1, <1>2, <1>4 DEF ThreadInv, ControlInv, Creating, PoolPlaces
<1>b3. Looking'
  BY <1>1, <1>2, <1>4 DEF ThreadInv, ControlInv, Looking, Viable, Uncallable, PoolPlaces
<1>b4. Ending'
  BY <1>1, <1>2, <1>4 DEF ThreadInv, ControlInv, Ending, RunPlaces, Actors
<1>b5. Joining'
  BY <1>1, <1>2, <1>4 DEF ThreadInv, ControlInv, Joining, Uncallable
<1>b6. OneJoiner'
  BY <1>1, <1>2, <1>4 DEF ThreadInv, ControlInv, OneJoiner, JoinPlaces
<1>b7. Clearing'
  BY <1>1, <1>2, <1>4 DEF ThreadInv, ControlInv, Clearing
<1>b8. OneEnd'
  BY <1>1, <1>2, <1>4 DEF ThreadInv, ControlInv, OneEnd, EndPlaces
<1>b9. Unborn'
  BY <1>1, <1>2, <1>4 DEF ThreadInv, ControlInv, Unborn
<1>b10. Running'
  <2>1. \A u \in Tids : Born(u)' /\ Viable(u)' /\ os'[u] = "none" =>
          u = t \/ \E b \in Actors : Pending(b, "clone", u) \/ Pending(b, "start", u)
    BY <1>1, <1>4 DEF ThreadInv, ControlInv, Running, Viable
  <2>2. \A u \in Tids : Born(u)' /\ Viable(u)' /\ os'[u] = "none" =>
          \E b \in Actors : Pending(b, "clone", u)' \/ Pending(b, "start", u)'
    BY <1>2, <2>1
  <2>3. \A u \in Tids :
          /\ os'[u] = "none" => state'[u] \subseteq {"NONVIABLE"}
          /\ os'[u] # "none" => Viable(u)'
          /\ \A b \in Actors : u \in objs'[b] /\ Viable(u)' => os'[u] # "none"
    BY <1>4 DEF ThreadInv, ControlInv, Running, Viable
  <2> QED
    BY <2>2, <2>3 DEF Running
<1>6. /\ \A u \in Tids \ {t} : NoRefs(u)' <=> NoRefs(u)
      /\ Interpreters' /\ Accounted' /\ PoolCounters' /\ TotalIsRight' /\ PoolOutlivesThreads'
  <2>1. ASSUME NEW u \in Tids \ {t} PROVE RefsSame(u)
    <3>1. /\ state'[u] = state[u] /\ os'[u] = os[u]
          /\ \A b \in Actors :
               u \in objs'[b] \/ Pending(b, "clone", u)' \/ Pending(b, "start", u)' <=>
                 u \in objs[b] \/ Pending(b, "clone", u) \/ Pending(b, "start", u)
      BY <1>2, <1>4
    <3>2. Pending(u, "run_ref", u)' <=> Pending(u, "run_ref", u)
      BY <1>2 DEF Actors
    <3>3. (\E b \in Actors, p \in JoinPlaces : Pending(b, p, u)') <=>
            \E b \in Actors, p \in JoinPlaces : Pending(b, p, u)
      BY <1>2 DEF JoinPlaces
    <3> QED
      BY <3>1, <3>2, <3>3, SameRefs
  <2>2. \A u \in Tids \ {t} : References(u)' = References(u) /\ (NoRefs(u)' <=> NoRefs(u))
    BY <2>1, RefsUnchanged
  <2>3. References(t)' = 3
    <3>1. ObjectHolders(t)' = {a}
      BY <1>1, <1>2, <1>4 DEF ObjectHolders, PoolPlaces
    <3>2. RunHolds(t)' /\ JoinHolds(t)'
      BY <1>1, <1>4 DEF RunHolds, JoinHolds, Uncallable
    <3>3. Cardinality(ObjectHolders(t))' = 1
      BY <3>1, FS_Singleton
    <3> QED
      BY <3>2, <3>3 DEF References
  <2>4. \A u \in Tids : Viable(u)' <=> Viable(u)
    BY <1>4 DEF Viable
  <2>5. Accounted'
    BY <1>4, <2>2, <2>3, <2>4 DEF ThreadInv, CountInv, Accounted
  <2>6. Interpreters'
    BY <1>4, <2>2, <2>4 DEF ThreadInv, CountInv, Interpreters
  <2>7. PoolCounters'
    <3>1. \A b \in Actors, u \in Tids : Pending(b, "joined", u)' <=> Pending(b, "joined", u)
      BY <1>2
    <3>2. PoolCounters /\ UNCHANGED <<os, state, running_threads, joinable_threads, detached_threads>>
      BY <1>4 DEF ThreadInv, CountInv
    <3> QED
      BY <3>1, <3>2, PoolCountersSame
  <2>8. PoolOutlivesThreads'
    BY <1>3, <1>4 DEF PoolOutlivesThreads
  <2>9. TotalIsRight'
    <3>1. Counted' = Counted \cup {t} /\ t \notin Counted
      BY <1>1, <1>2, <1>4 DEF Counted, Places
    <3>2. Cardinality(Counted)' = Cardinality(Counted) + 1
      BY <3>1, CountsFinite, FS_AddElement
    <3>3. total_threads = Cardinality(Counted) /\ total_threads' = total_threads + 1
      BY <1>4 DEF ThreadInv, CountInv, TotalIsRight
    <3> QED
      BY <3>2, <3>3 DEF TotalIsRight
  <2> QED
    BY <2>2, <2>5, <2>6, <2>7, <2>8, <2>9
<1>7. Freeing'
  BY <1>1, <1>2, <1>4, <1>6 DEF ThreadInv, CountInv, Freeing, Viable, Places
<1> QED
  BY <1>5, <1>b0, <1>b1, <1>b2, <1>b3, <1>b4, <1>b5, <1>b6, <1>b7, <1>b8, <1>b9, <1>b10, <1>6, <1>7 DEF ThreadInv, ControlInv, CountInv

\* A frame that clears an interpreter under a frame that frees the structure.
LEMMA ClearUnderDestroy ==
  ASSUME StackTypes, NEW a \in Actors, NEW t, At(a, "destroy", t), Pending(a, "clear", t)
  PROVE  Pending(a, "free", t)
<1>1. /\ work[a] \in Seq(FrameSet) /\ Shape(work[a]) /\ 1 \in 1 .. Len(work[a])
      /\ work[a][1] = Frame("destroy", t)
  BY TopIsPending
<1>2. DOMAIN work[a] = 1 .. Len(work[a]) /\ Len(work[a]) \in Nat
  <2> DEFINE s == work[a]
  <2>1. s \in Seq(FrameSet)
    BY <1>1
  <2> HIDE DEF s, FrameSet
  <2>2. DOMAIN s = 1 .. Len(s) /\ Len(s) \in Nat
    BY <2>1
  <2> QED
    BY <2>2 DEF s
<1>3. PICK i \in 1 .. Len(work[a]) : work[a][i] = Frame("clear", t)
  BY <1>2 DEF Pending
<1>4. /\ i < Len(work[a])
      /\ work[a][i + 1] \in {Frame("free", t), Frame("destroy", t)}
  <2>1. work[a][i].at = "clear" /\ work[a][i].on = t
    BY <1>3 DEF Frame
  <2>2. /\ i < Len(work[a])
        /\ work[a][i + 1] \in {Frame("free", work[a][i].on), Frame("destroy", work[a][i].on)}
    BY <1>1, <1>3, <2>1 DEF Shape, ClearThenFrees
  <2> QED
    BY <2>1, <2>2
<1>5. i + 1 \in 1 .. Len(work[a]) /\ i + 1 # 1
  BY <1>2, <1>3, <1>4
<1>6. work[a][i + 1] # Frame("destroy", t)
  BY <1>1, <1>5 DEF Shape, Distinct
<1> QED
  BY <1>2, <1>4, <1>5, <1>6 DEF Pending

LEMMA DestroyInv ==
  ASSUME ThreadInv, NEW a \in Actors, NEW t \in Tids, Destroy(a, t)
  PROVE  ThreadInv'
<1>1. /\ StackTypes /\ t \in Actors /\ Alive(a) /\ Born(t) /\ Pending(a, "destroy", t)
      /\ \A b \in Actors, p \in EndPlaces : Pending(b, p, t) => b = a /\ p = "destroy"
      /\ mem[t] = "alloc" /\ (Viable(t) => NoRefs(t))
      /\ \A b \in Actors : ~Pending(b, "clear", t) /\ ~Pending(b, "clone", t) /\ ~Pending(b, "start", t)
  <2>1. t \in Actors /\ At(a, "destroy", t) /\ "destroy" \in Places /\ "destroy" \notin {"look", "unpool"}
    BY DEF Destroy, Places, Actors
  <2>2. StackTypes /\ Alive(a) /\ Pending(a, "destroy", t) /\ Born(t)
    BY <2>1, AtFacts DEF FrameOK
  <2>3. \A b \in Actors, p \in EndPlaces : Pending(b, p, t) => b = a /\ p = "destroy"
    BY <2>2 DEF ThreadInv, ControlInv, OneEnd, EndPlaces
  <2>4. mem[t] = "alloc" /\ (Viable(t) => NoRefs(t))
    BY <2>2 DEF ThreadInv, CountInv, Freeing
  <2>5. \A b \in Actors : ~Pending(b, "free", t)
    <3> SUFFICES ASSUME NEW b \in Actors, Pending(b, "free", t) PROVE FALSE
      OBVIOUS
    <3>1. Uncallable(t)
      BY DEF ThreadInv, ControlInv, Joining
    <3>2. Viable(t)
      BY <3>1 DEF ThreadInv, ControlInv, Running, Uncallable
    <3>3. ~JoinHolds(t)
      BY <2>4, <3>2 DEF NoRefs
    <3> QED
      BY <3>3 DEF JoinHolds
  <2>6. \A b \in Actors : ~Pending(b, "clear", t)
    <3> SUFFICES ASSUME NEW b \in Actors, Pending(b, "clear", t) PROVE FALSE
      OBVIOUS
    <3>1. Pending(b, "destroy", t)
      BY <2>5 DEF ThreadInv, ControlInv, Clearing
    <3>2. b = a
      BY <2>3, <3>1 DEF EndPlaces
    <3> QED
      BY <2>1, <2>2, <2>5, <3>2, ClearUnderDestroy
  <2>7. \A b \in Actors : ~Pending(b, "clone", t) /\ ~Pending(b, "start", t)
    <3> SUFFICES ASSUME NEW b \in Actors, Pending(b, "clone", t) \/ Pending(b, "start", t) PROVE FALSE
      OBVIOUS
    <3>1. Viable(t)
      BY DEF ThreadInv, ControlInv, Creating, Viable
    <3>2. b \in ObjectHolders(t)
      BY DEF ObjectHolders
    <3> QED
      BY <2>4, <3>1, <3>2 DEF NoRefs
  <2> QED
    BY <2>1, <2>2, <2>3, <2>4, <2>6, <2>7
<1>2. /\ StackTypes'
      /\ \A b \in Actors : \A q, u :
           Pending(b, q, u)' <=> \/ b = a /\ u = t /\ q = "total"
                                 \/ Pending(b, q, u) /\ ~(b = a /\ u = t /\ q = "destroy")
  <2>1. /\ At(a, "destroy", t) /\ "destroy" \in Places /\ "total" \in Places
        /\ "total" \notin BottomPlaces /\ ~Pending(a, "total", t)
        /\ Then(a, <<Frame("total", t)>>)
    BY <1>1 DEF Destroy, BottomPlaces, Places, EndPlaces
  <2>2. Turns(a, t, {"destroy"}, {"total"})
    BY <1>1, <2>1, TurnOne
  <2> QED
    BY <2>2 DEF Turns
<1>3. ended # "cleaned"
  BY <1>1, NotCleaned DEF Destroy, Places
<1>4. /\ mutex' = [mutex EXCEPT ![t] = None]
      /\ mem' \in [Tids -> {"none", "alloc", "freed"}] /\ mem'[t] = "freed"
      /\ \A u \in Tids : u # t => mem'[u] = mem[u]
      /\ UNCHANGED <<pool, listed, count, state, interp, objs, os, tid_counter, counters, ended>>
  <2>1. mem \in [Tids -> {"none", "alloc", "freed"}]
    BY DEF ThreadInv, ControlInv, TypeOK
  <2> QED
    BY <2>1 DEF Destroy
<1>5. TypeOK' /\ Stacks'
  BY <1>1, <1>2, <1>4 DEF ThreadInv, ControlInv, TypeOK, StackTypes, FrameSet, counters
<1>b0. FrameTypes'
  <2> SUFFICES ASSUME NEW b \in Actors, NEW u \in Actors, NEW p \in Places, Pending(b, p, u)'
               PROVE  FrameOK(b, p, u)'
    BY DEF FrameTypes
  <2>1. CASE Pending(b, p, u)
    <3>1. FrameOK(b, p, u)
      BY <2>1 DEF ThreadInv, ControlInv, FrameTypes
    <3> QED
      BY <1>4, <3>1 DEF FrameOK, Alive, Born
  <2>2. CASE ~Pending(b, p, u)
    BY <1>1, <1>2, <1>4, <2>2 DEF FrameOK, Alive, Born, RunPlaces
  <2> QED
    BY <2>1, <2>2
<1>b1. PoolIsHeld'
  BY <1>1, <1>2, <1>4 DEF ThreadInv, ControlInv, PoolIsHeld, PoolPlaces
<1>b2. Creating'
  BY <1>1, <1>2, <1>4 DEF ThreadInv, ControlInv, Creating
<1>b3. Looking'
  BY <1>1, <1>2, <1>4 DEF ThreadInv, ControlInv, Looking, Viable, Uncallable
<1>b4. Ending'
  BY <1>1, <1>2, <1>4 DEF ThreadInv, ControlInv, Ending, RunPlaces, Actors
<1>b5. Joining'
  BY <1>1, <1>2, <1>4 DEF ThreadInv, ControlInv, Joining, Uncallable
<1>b6. OneJoiner'
  BY <1>1, <1>2, <1>4 DEF ThreadInv, ControlInv, OneJoiner, JoinPlaces
<1>b7. Clearing'
  BY <1>1, <1>2, <1>4 DEF ThreadInv, ControlInv, Clearing
<1>b8. OneEnd'
  BY <1>1, <1>2, <1>4 DEF ThreadInv, ControlInv, OneEnd, EndPlaces
<1>b9. Unborn'
  BY <1>1, <1>2, <1>4 DEF ThreadInv, ControlInv, Unborn, Born
<1>b10. Running'
  BY <1>1, <1>2, <1>4 DEF ThreadInv, ControlInv, Running, Born, Viable
<1>6. /\ \A u \in Tids : NoRefs(u)' <=> NoRefs(u)
      /\ Interpreters' /\ Accounted' /\ PoolCounters' /\ TotalIsRight' /\ PoolOutlivesThreads'
  <2>1. \A u \in Tids : RefsSame(u)
    <3>1. \A b \in Actors, u \in Tids :
            /\ (Pending(b, "clone", u) \/ Pending(b, "start", u))' <=>
                 Pending(b, "clone", u) \/ Pending(b, "start", u)
            /\ Pending(b, "run_ref", u)' <=> Pending(b, "run_ref", u)
      BY <1>2
    <3>2. ASSUME NEW u \in Tids
          PROVE  (\E b \in Actors, p \in JoinPlaces : Pending(b, p, u)') <=>
                   \E b \in Actors, p \in JoinPlaces : Pending(b, p, u)
      BY <1>1, <1>2 DEF JoinPlaces
    <3> QED
      BY <1>4, <3>1, <3>2, QuietRefs
  <2>2. \A u \in Tids : References(u)' = References(u) /\ (NoRefs(u)' <=> NoRefs(u))
    BY <2>1, RefsUnchanged
  <2>3. Accounted'
    BY <1>1, <1>4, <2>2 DEF ThreadInv, CountInv, Accounted, Viable
  <2>4. Interpreters'
    BY <1>4, <2>2, InterpretersSame DEF ThreadInv, CountInv
  <2>5. PoolCounters'
    <3>1. \A b \in Actors, u \in Tids : Pending(b, "joined", u)' <=> Pending(b, "joined", u)
      BY <1>2
    <3>2. PoolCounters /\ UNCHANGED <<os, state, running_threads, joinable_threads, detached_threads>>
      BY <1>4 DEF ThreadInv, CountInv, counters
    <3> QED
      BY <3>1, <3>2, PoolCountersSame
  <2>8. PoolOutlivesThreads'
    BY <1>3, <1>4 DEF PoolOutlivesThreads
  <2>9. TotalIsRight'
    <3>1. t \in Counted /\ t \in Counted'
      BY <1>1, <1>2 DEF Counted
    <3>2. \A u \in Tids \ {t} : u \in Counted' <=> u \in Counted
      BY <1>2, <1>4 DEF Counted
    <3>3. Counted' = Counted
      BY <3>1, <3>2 DEF Counted
    <3> QED
      BY <1>4, <3>3 DEF ThreadInv, CountInv, TotalIsRight, counters
  <2> QED
    BY <2>2, <2>3, <2>4, <2>5, <2>8, <2>9
<1>7. Freeing'
  BY <1>1, <1>2, <1>4, <1>6 DEF ThreadInv, CountInv, Freeing, Viable, EndPlaces
<1> QED
  BY <1>5, <1>b0, <1>b1, <1>b2, <1>b3, <1>b4, <1>b5, <1>b6, <1>b7, <1>b8, <1>b9, <1>b10, <1>6, <1>7 DEF ThreadInv, ControlInv, CountInv

LEMMA TotalInv ==
  ASSUME ThreadInv, NEW a \in Actors, NEW t \in Tids, Total(a, t)
  PROVE  ThreadInv'
<1>1. /\ StackTypes /\ t \in Actors /\ Alive(a) /\ Born(t) /\ Pending(a, "total", t)
      /\ \A b \in Actors, p \in EndPlaces : Pending(b, p, t) => b = a /\ p = "total"
      /\ mem[t] = "freed"
  <2>1. t \in Actors /\ At(a, "total", t) /\ "total" \in Places /\ "total" \notin {"look", "unpool"}
    BY DEF Total, Places, Actors
  <2>2. StackTypes /\ Alive(a) /\ Pending(a, "total", t) /\ Born(t)
    BY <2>1, AtFacts DEF FrameOK
  <2>3. \A b \in Actors, p \in EndPlaces : Pending(b, p, t) => b = a /\ p = "total"
    BY <2>2 DEF ThreadInv, ControlInv, OneEnd, EndPlaces
  <2>4. mem[t] = "freed"
    BY <2>2 DEF ThreadInv, CountInv, Freeing
  <2> QED
    BY <2>1, <2>2, <2>3, <2>4
<1>2. /\ StackTypes'
      /\ \A b \in Actors : \A q, u :
           Pending(b, q, u)' <=> Pending(b, q, u) /\ ~(b = a /\ u = t /\ q = "total")
  <2>1. Turns(a, t, {"total"}, {})
    BY <1>1, TurnPop DEF Total, Places
  <2> QED
    BY <2>1 DEF Turns
<1>3. ended # "cleaned"
  BY <1>1, NotCleaned DEF Total, Places
<1>4. /\ total_threads' = Cardinality(Counted') /\ total_threads' \in Nat
      /\ UNCHANGED <<pool, mutex, mem, listed, count, state, interp, objs, os, tid_counter,
                     running_threads, joinable_threads, detached_threads, ended>>
  <2>1. /\ total_threads' = total_threads - 1
        /\ UNCHANGED <<pool, mutex, mem, listed, count, state, interp, objs, os, tid_counter,
                       running_threads, joinable_threads, detached_threads, ended>>
    BY DEF Total, locks, struct
  <2>2. Counted' = Counted \ {t} /\ t \in Counted
    BY <1>1, <1>2, <2>1 DEF Counted, EndPlaces
  <2>3. Cardinality(Counted)' = Cardinality(Counted) - 1
    BY <2>2, CountsFinite, FS_RemoveElement
  <2>4. total_threads = Cardinality(Counted)
    BY DEF ThreadInv, CountInv, TotalIsRight
  <2> QED
    BY <2>1, <2>3, <2>4, CountsNext
<1>5. TypeOK' /\ Stacks'
  BY <1>1, <1>2, <1>4 DEF ThreadInv, ControlInv, TypeOK, StackTypes, FrameSet, counters
<1>b0. FrameTypes'
  <2> SUFFICES ASSUME NEW b \in Actors, NEW u \in Actors, NEW p \in Places, Pending(b, p, u)'
               PROVE  FrameOK(b, p, u)'
    BY DEF FrameTypes
  <2>1. CASE Pending(b, p, u)
    <3>1. FrameOK(b, p, u)
      BY <2>1 DEF ThreadInv, ControlInv, FrameTypes
    <3> QED
      BY <1>4, <3>1 DEF FrameOK, Alive, Born
  <2>2. CASE ~Pending(b, p, u)
    BY <1>1, <1>2, <1>4, <2>2 DEF FrameOK, Alive, Born, RunPlaces
  <2> QED
    BY <2>1, <2>2
<1>b1. PoolIsHeld'
  BY <1>1, <1>2, <1>4 DEF ThreadInv, ControlInv, PoolIsHeld, PoolPlaces
<1>b2. Creating'
  BY <1>1, <1>2, <1>4 DEF ThreadInv, ControlInv, Creating
<1>b3. Looking'
  BY <1>1, <1>2, <1>4 DEF ThreadInv, ControlInv, Looking, Viable, Uncallable
<1>b4. Ending'
  BY <1>1, <1>2, <1>4 DEF ThreadInv, ControlInv, Ending, RunPlaces, Actors
<1>b5. Joining'
  BY <1>1, <1>2, <1>4 DEF ThreadInv, ControlInv, Joining, Uncallable
<1>b6. OneJoiner'
  BY <1>1, <1>2, <1>4 DEF ThreadInv, ControlInv, OneJoiner, JoinPlaces
<1>b7. Clearing'
  BY <1>1, <1>2, <1>4 DEF ThreadInv, ControlInv, Clearing
<1>b8. OneEnd'
  BY <1>1, <1>2, <1>4 DEF ThreadInv, ControlInv, OneEnd, EndPlaces
<1>b9. Unborn'
  BY <1>1, <1>2, <1>4 DEF ThreadInv, ControlInv, Unborn, Born
<1>b10. Running'
  BY <1>1, <1>2, <1>4 DEF ThreadInv, ControlInv, Running, Born, Viable
<1>6. /\ \A u \in Tids : NoRefs(u)' <=> NoRefs(u)
      /\ Interpreters' /\ Accounted' /\ PoolCounters' /\ TotalIsRight' /\ PoolOutlivesThreads'
  <2>1. \A u \in Tids : RefsSame(u)
    <3>1. \A b \in Actors, u \in Tids :
            /\ (Pending(b, "clone", u) \/ Pending(b, "start", u))' <=>
                 Pending(b, "clone", u) \/ Pending(b, "start", u)
            /\ Pending(b, "run_ref", u)' <=> Pending(b, "run_ref", u)
      BY <1>2
    <3>2. ASSUME NEW u \in Tids
          PROVE  (\E b \in Actors, p \in JoinPlaces : Pending(b, p, u)') <=>
                   \E b \in Actors, p \in JoinPlaces : Pending(b, p, u)
      BY <1>1, <1>2 DEF JoinPlaces
    <3> QED
      BY <1>4, <3>1, <3>2, QuietRefs
  <2>2. \A u \in Tids : References(u)' = References(u) /\ (NoRefs(u)' <=> NoRefs(u))
    BY <2>1, RefsUnchanged
  <2>3. Accounted'
    BY <1>4, <2>1, AccountedSame DEF ThreadInv, CountInv
  <2>4. Interpreters'
    BY <1>4, <2>2, InterpretersSame DEF ThreadInv, CountInv
  <2>5. PoolCounters'
    <3>1. \A b \in Actors, u \in Tids : Pending(b, "joined", u)' <=> Pending(b, "joined", u)
      BY <1>2
    <3>2. PoolCounters /\ UNCHANGED <<os, state, running_threads, joinable_threads, detached_threads>>
      BY <1>4 DEF ThreadInv, CountInv
    <3> QED
      BY <3>1, <3>2, PoolCountersSame
  <2>8. PoolOutlivesThreads'
    BY <1>3, <1>4 DEF PoolOutlivesThreads
  <2>9. TotalIsRight'
    BY <1>4 DEF TotalIsRight
  <2> QED
    BY <2>2, <2>3, <2>4, <2>5, <2>8, <2>9
<1>7. Freeing'
  BY <1>1, <1>2, <1>4, <1>6 DEF ThreadInv, CountInv, Freeing, Viable
<1> QED
  BY <1>5, <1>b0, <1>b1, <1>b2, <1>b3, <1>b4, <1>b5, <1>b6, <1>b7, <1>b8, <1>b9, <1>b10, <1>6, <1>7 DEF ThreadInv, ControlInv, CountInv

\* The main interpreter goes: nothing is pending in any thread but its exit.
LEMMA OnlyExits ==
  ASSUME ThreadInv, pool = None, total_threads = 0, NEW t \in Tids, os[t] = "running"
  PROVE  work[t] = <<Frame("exit", t)>>
<1>1. StackTypes /\ t \in Actors /\ None \notin Actors
  BY WorkTyped, IthreadsAssumption DEF ThreadInv, Actors
<1>2. Counted = {}
  <2>1. Cardinality(Counted) = 0
    BY DEF ThreadInv, CountInv, TotalIsRight
  <2> QED
    BY <2>1, CountsFinite, FS_EmptySet
<1>3. \A u \in Tids : mem[u] # "alloc" /\ \A a \in Actors : ~Pending(a, "total", u)
  BY <1>2 DEF Counted
<1>4. Viable(t) /\ Born(t)
  BY DEF ThreadInv, ControlInv, Running, Unborn
<1>5. NoRefs(t)
  BY <1>3, <1>4 DEF ThreadInv, ControlInv, CountInv, Unborn, Accounted, TypeOK
<1>6. "FINISHED" \in state[t] /\ ~Pending(t, "run_ref", t)
  BY <1>5 DEF NoRefs, RunHolds
<1>7. Pending(t, "exit", t)
  BY <1>6 DEF ThreadInv, ControlInv, Ending
<1>8. ASSUME NEW q \in Places, NEW u \in Actors, Pending(t, q, u)
      PROVE  q = "exit" /\ u = t
  <2>1. FrameOK(t, q, u)
    BY <1>1, <1>8 DEF ThreadInv, ControlInv, FrameTypes
  <2>2. q \notin PoolPlaces
    BY <1>1, <1>8 DEF ThreadInv, ControlInv, PoolIsHeld
  <2>3. q \notin EndPlaces
    <3> SUFFICES ASSUME q \in EndPlaces PROVE FALSE
      OBVIOUS
    <3>1. u \in Tids
      BY <2>1 DEF FrameOK, EndPlaces
    <3> QED
      BY <1>1, <1>3, <1>8, <3>1 DEF ThreadInv, CountInv, Freeing, EndPlaces
  <2>4. q \in BottomPlaces => q = "exit" /\ u = t
    BY <1>1, <1>7, <1>8, OneBottom DEF BottomPlaces
  <2>5. q # "clear"
    <3> SUFFICES ASSUME q = "clear" PROVE FALSE
      OBVIOUS
    <3>1. u \in Tids
      BY <2>1 DEF FrameOK
    <3>2. Pending(t, "free", u) \/ Pending(t, "destroy", u)
      BY <1>1, <1>8, <3>1 DEF ThreadInv, ControlInv, Clearing
    <3>3. ~Pending(t, "free", u)
      BY <1>1, <1>7, OneBottom DEF BottomPlaces
    <3>4. Pending(t, "destroy", u)
      BY <3>2, <3>3
    <3> QED
      BY <1>1, <1>3, <3>1, <3>4 DEF ThreadInv, CountInv, Freeing
  <2>6. q \notin {"term", "run_ref"}
    BY <1>6, <1>8, <2>1 DEF FrameOK, RunPlaces, ThreadInv, ControlInv, Ending
  <2> QED
    BY <2>2, <2>3, <2>4, <2>5, <2>6 DEF Places, PoolPlaces, EndPlaces, BottomPlaces
<1> DEFINE s == work[t]
           f == Frame("exit", t)
<1>9. s \in Seq(FrameSet) /\ Distinct(s)
  BY <1>1 DEF StackTypes, Stacks, Shape
<1>10. f \in FrameSet
  BY <1>1, FrameIsFrame DEF Places
<1>11. DOMAIN s = 1 .. Len(s) /\ Len(s) \in Nat /\ \A i \in 1 .. Len(s) : s[i] \in FrameSet
  <2> HIDE DEF s, FrameSet
  <2> QED
    BY <1>9
<1>12. ASSUME NEW i \in 1 .. Len(s) PROVE s[i] = f
  <2>1. s[i] \in FrameSet
    BY <1>11
  <2>2. /\ s[i].at \in Places /\ s[i].on \in Actors
        /\ s[i] = Frame(s[i].at, s[i].on)
    BY <2>1 DEF FrameSet, Frame
  <2>3. Pending(t, s[i].at, s[i].on)
    BY <1>11, <2>2 DEF Pending
  <2>4. s[i].at = "exit" /\ s[i].on = t
    BY <1>8, <2>2, <2>3
  <2> QED
    BY <2>2, <2>4
<1>13. s # <<>>
  BY <1>7, <1>11 DEF Pending
<1> HIDE DEF s, f
<1>14. Len(s) = 1
  <2> HIDE DEF FrameSet
  <2>1. Len(s) >= 1
    BY <1>9, <1>13
  <2>2. ASSUME Len(s) >= 2 PROVE FALSE
    <3>1. 1 \in 1 .. Len(s) /\ 2 \in 1 .. Len(s)
      BY <1>11, <2>2
    <3>2. s[1] = s[2]
      BY <1>12, <3>1
    <3> QED
      BY <1>9, <3>1, <3>2 DEF Distinct
  <2> QED
    BY <1>11, <2>1, <2>2
<1>15. s = <<f>>
  <2> HIDE DEF FrameSet
  <2>1. <<f>> \in Seq(FrameSet) /\ Len(<<f>>) = 1 /\ <<f>>[1] = f
    BY <1>10
  <2>2. \A i \in 1 .. 1 : s[i] = <<f>>[i]
    BY <1>12, <1>14, <2>1
  <2> QED
    BY <1>9, <1>14, <2>1, <2>2, SeqEqual
<1> QED
  BY <1>15 DEF s, f

LEMMA VetoInv ==
  ASSUME ThreadInv, Veto
  PROVE  ThreadInv'
<1>1. /\ StackTypes /\ \A q, u : ~Pending(Main, q, u)
      /\ Main \in Actors /\ pool = None
  <2>1. Main \in Actors /\ InPerl(Main) /\ pool = None
    BY DEF Veto, Actors
  <2> QED
    BY <2>1, NothingPending
<1>2. /\ UNCHANGED <<pool, mutex, mem, listed, count, state, interp, objs, os, work, tid_counter,
                    running_threads, joinable_threads, detached_threads, total_threads>>
      /\ ended' \in {"no", "vetoed", "cleaned"}
      /\ ended' = "cleaned" => ~(total_threads > 0)
  BY DEF Veto, locks, struct, counters
<1>3. \A b \in Actors : \A q, u : Pending(b, q, u)' <=> Pending(b, q, u)
  BY <1>2 DEF Pending
<1>4. TypeOK' /\ Stacks'
  BY <1>2 DEF ThreadInv, ControlInv, TypeOK, Stacks
<1>5. FrameTypes'
  <2> SUFFICES ASSUME NEW b \in Actors, NEW u \in Actors, NEW p \in Places, Pending(b, p, u)'
               PROVE  FrameOK(b, p, u)'
    BY DEF FrameTypes
  <2>1. Pending(b, p, u) /\ b # Main
    BY <1>1, <1>3
  <2>2. FrameOK(b, p, u)
    BY <2>1 DEF ThreadInv, ControlInv, FrameTypes
  <2> QED
    BY <1>2, <2>1, <2>2 DEF FrameOK, Alive, Born
<1>6. PoolIsHeld' /\ Creating' /\ Joining' /\ OneJoiner' /\ OneEnd' /\ Clearing'
  <2>1. PoolIsHeld'
    BY <1>2, <1>3 DEF ThreadInv, ControlInv, PoolIsHeld
  <2>2. Creating'
    BY <1>2, <1>3 DEF ThreadInv, ControlInv, Creating
  <2>3. Joining'
    BY <1>2, <1>3 DEF ThreadInv, ControlInv, Joining, Uncallable
  <2>4. OneJoiner' /\ OneEnd'
    BY <1>2, <1>3 DEF ThreadInv, ControlInv, OneJoiner, OneEnd
  <2>5. Clearing'
    BY <1>2, <1>3 DEF ThreadInv, ControlInv, Clearing
  <2> QED
    BY <2>1, <2>2, <2>3, <2>4, <2>5
<1>7. Looking' /\ Ending' /\ Unborn' /\ Running'
  <2>1. Looking'
    BY <1>2, <1>3 DEF ThreadInv, ControlInv, Looking, Viable
  <2>2. Ending'
    BY <1>2, <1>3 DEF ThreadInv, ControlInv, Ending, Actors
  <2>3. Unborn'
    BY <1>2, <1>3 DEF ThreadInv, ControlInv, Unborn, Born
  <2>4. Running'
    BY <1>2, <1>3 DEF ThreadInv, ControlInv, Running, Born, Viable
  <2> QED
    BY <2>1, <2>2, <2>3, <2>4
<1>8. \A u \in Tids : RefsSame(u)
  <2>1. UNCHANGED <<state, objs, os>>
    BY <1>2
  <2> QED
    BY <1>3, <2>1, QuietRefs DEF JoinPlaces, Actors
<1>9. \A u \in Tids : NoRefs(u)' <=> NoRefs(u)
  BY <1>8, RefsUnchanged
<1>10. Freeing'
  BY <1>2, <1>3, <1>9 DEF ThreadInv, CountInv, Freeing, Viable
<1>11. Interpreters'
  BY <1>2, <1>9, InterpretersSame DEF ThreadInv, CountInv
<1>12. Accounted'
  BY <1>2, <1>8, AccountedSame DEF ThreadInv, CountInv
<1>13. PoolCounters'
  BY <1>2, <1>3, PoolCountersSame DEF ThreadInv, CountInv
<1>14. TotalIsRight'
  BY <1>2, <1>3, TotalSame DEF ThreadInv, CountInv
<1>15. PoolOutlivesThreads'
  <2> SUFFICES ASSUME ended' = "cleaned"
               PROVE  pool' = None /\ \A t \in Tids : os'[t] = "running" => work'[t] = <<Frame("exit", t)>>
    BY DEF PoolOutlivesThreads
  <2>1. total_threads \in Nat /\ ~(total_threads > 0)
    BY <1>2 DEF ThreadInv, ControlInv, TypeOK
  <2>2. total_threads = 0
    BY <2>1
  <2> QED
    BY <1>1, <1>2, <2>2, OnlyExits
<1> QED
  BY <1>4, <1>5, <1>6, <1>7, <1>10, <1>11, <1>12, <1>13, <1>14, <1>15 DEF ThreadInv, ControlInv, CountInv

LEMMA StutterInv ==
  ASSUME ThreadInv, UNCHANGED vars
  PROVE  ThreadInv'
<1>1. UNCHANGED <<pool, mutex, mem, listed, count, state, interp, objs, os, work, tid_counter,
                  running_threads, joinable_threads, detached_threads, total_threads, ended>>
  BY DEF vars
<1>2. \A b, q, u : Pending(b, q, u)' <=> Pending(b, q, u)
  BY <1>1 DEF Pending
<1>3. TypeOK' /\ Stacks'
  BY <1>1 DEF ThreadInv, ControlInv, TypeOK, Stacks
<1>4. FrameTypes' /\ PoolIsHeld' /\ Creating' /\ Looking' /\ Ending' /\ Joining'
  BY <1>1, <1>2 DEF ThreadInv, ControlInv, FrameTypes, FrameOK, Alive, Born, PoolIsHeld,
       Creating, Looking, Viable, Ending, Joining, Uncallable
<1>5. OneJoiner' /\ Clearing' /\ OneEnd' /\ Unborn' /\ Running'
  BY <1>1, <1>2 DEF ThreadInv, ControlInv, OneJoiner, Clearing, OneEnd, Unborn, Born, Running, Viable
<1>6. \A u \in Tids : RefsSame(u)
  <2>1. UNCHANGED <<state, objs, os>>
    BY <1>1
  <2> QED
    BY <1>2, <2>1, QuietRefs
<1>7. \A u \in Tids : NoRefs(u)' <=> NoRefs(u)
  BY <1>6, RefsUnchanged
<1>8. Freeing' /\ Interpreters' /\ Accounted'
  <2>1. Freeing'
    BY <1>1, <1>2, <1>7 DEF ThreadInv, CountInv, Freeing, Viable
  <2>2. Interpreters'
    BY <1>1, <1>7, InterpretersSame DEF ThreadInv, CountInv
  <2>3. Accounted'
    BY <1>1, <1>6, AccountedSame DEF ThreadInv, CountInv
  <2> QED
    BY <2>1, <2>2, <2>3
<1>9. PoolCounters' /\ TotalIsRight' /\ PoolOutlivesThreads'
  <2>1. PoolCounters'
    BY <1>1, <1>2, PoolCountersSame DEF ThreadInv, CountInv
  <2>2. TotalIsRight'
    BY <1>1, <1>2, TotalSame DEF ThreadInv, CountInv
  <2>3. PoolOutlivesThreads'
    BY <1>1 DEF ThreadInv, CountInv, PoolOutlivesThreads
  <2> QED
    BY <2>1, <2>2, <2>3
<1> QED
  BY <1>3, <1>4, <1>5, <1>8, <1>9 DEF ThreadInv, ControlInv, CountInv

LEMMA ListInv == ASSUME ThreadInv, NEW a \in Actors, List(a) PROVE ThreadInv'
<1> DEFINE looks == [t \in Tids |-> Frame("look", t)]
<1>1. /\ looks \in Seq(FrameSet) /\ Distinct(looks)
      /\ InSeq(looks) = {Frame("look", t) : t \in Tids} /\ Walk(a, looks)
  BY ListLooks DEF List
<1> HIDE DEF looks
<1>2. Tids \in SUBSET Tids
  OBVIOUS
<1> QED
  BY <1>1, <1>2, WalkInv

LEMMA ObjectInv == ASSUME ThreadInv, NEW a \in Actors, NEW t \in Tids, Object(a, t) PROVE ThreadInv'
<1> DEFINE looks == <<Frame("look", t)>>
<1>1. /\ looks \in Seq(FrameSet) /\ Distinct(looks)
      /\ InSeq(looks) = {Frame("look", u) : u \in {t}} /\ Walk(a, looks)
  BY ObjectLooks DEF Object
<1> HIDE DEF looks
<1>2. {t} \in SUBSET Tids
  OBVIOUS
<1> QED
  BY <1>1, <1>2, WalkInv

-----------------------------------------------------------------------------
(* The theorems.                                                           *)

LEMMA InitThreads == Init => ThreadInv
<1> SUFFICES ASSUME Init PROVE ThreadInv
  OBVIOUS
<1>1. \A a \in Actors : work[a] = <<>>
  BY DEF Init
<1>2. \A a \in Actors : \A q, u : ~Pending(a, q, u)
  BY <1>1 DEF Pending
<1>3. TypeOK
  BY EmptyShape, IthreadsAssumption DEF Init, TypeOK, FrameSet
<1>4. Stacks
  BY <1>1, EmptyShape DEF Stacks
<1>5. \A t \in Tids : ~Born(t)
  BY IthreadsAssumption DEF Init, Born, Tids
<1>6. FrameTypes /\ PoolIsHeld /\ Creating /\ Looking /\ Joining /\ OneJoiner /\ Clearing /\ OneEnd
  BY <1>2 DEF FrameTypes, PoolIsHeld, Creating, Looking, Joining, OneJoiner, Clearing, OneEnd
<1>7. Ending
  BY <1>2 DEF Ending, Init, Actors
<1>8. Unborn /\ Running
  BY <1>5 DEF Unborn, Running, Init, Viable
<1>9. Freeing /\ Interpreters /\ Accounted /\ PoolOutlivesThreads
  BY <1>2, <1>5 DEF Init, Freeing, Interpreters, Accounted, PoolOutlivesThreads
<1>10. RunningOnes = {} /\ DetachedOnes = {} /\ JoinableOnes = {} /\ TakenOff = {} /\ Counted = {}
  BY <1>2 DEF Init, RunningOnes, DetachedOnes, JoinableOnes, InState, TakenOff, Counted
<1>11. Cardinality({}) = 0
  BY FS_EmptySet
<1>12. PoolCounters /\ TotalIsRight
  BY <1>10, <1>11, CountersCount DEF Init, TotalIsRight
<1> QED
  BY <1>3, <1>4, <1>6, <1>7, <1>8, <1>9, <1>12 DEF ThreadInv, ControlInv, CountInv

LEMMA NextThreads == ThreadInv /\ [Next]_vars => ThreadInv'
<1> SUFFICES ASSUME ThreadInv, [Next]_vars PROVE ThreadInv'
  OBVIOUS
<1>1. CASE UNCHANGED vars
  BY <1>1, StutterInv
<1>2. ASSUME NEW a \in Actors, PerlStep(a) PROVE ThreadInv'
  BY <1>2, CreateInv, SelfInv, ListInv, ObjectInv, DropObjectInv, JoinInv, DetachInv DEF PerlStep
<1>3. ASSUME NEW a \in Actors, CStep(a) PROVE ThreadInv'
  <2>1. CASE Unpool(a)
    BY <2>1, UnpoolInv
  <2>2. ASSUME NEW t \in Tids,
               \/ Clone(a, t) \/ Start(a, t) \/ StartFails(a, t)
               \/ Look(a, t) \/ Take(a, t)
               \/ Joined(a, t) \/ PthreadJoin(a, t)
        PROVE  ThreadInv'
    BY <2>2, CloneInv, StartInv, StartFailsInv, LookInv, TakeInv, JoinedInv, PthreadJoinInv
  <2>3. ASSUME NEW t \in Tids,
               \/ MarkDetached(a, t) \/ Detached(a, t)
               \/ Clear(a, t) \/ Free(a, t) \/ Unlink(a, t) \/ Disown(a, t)
               \/ Destroy(a, t) \/ Total(a, t)
        PROVE  ThreadInv'
    BY <2>3, MarkDetachedInv, DetachedInv, ClearInv, FreeInv, UnlinkInv, DisownInv, DestroyInv, TotalInv
  <2> QED
    BY <1>3, <2>1, <2>2, <2>3 DEF CStep
<1>4. ASSUME NEW t \in Tids, RunStep(t) PROVE ThreadInv'
  BY <1>4, FinishInv, MarkFinishedInv, LocaleTermInv, RunRefInv, ExitInv DEF RunStep
<1>5. CASE Veto
  BY <1>5, VetoInv
<1> QED
  BY <1>1, <1>2, <1>3, <1>4, <1>5 DEF Next

LEMMA AlwaysThreadInv == Spec => []ThreadInv
BY InitThreads, NextThreads, PTL DEF Spec

\* The variables have their types: no counter of a structure and no counter of
\* the pool but that of the joinable threads ever goes below zero, and what a
\* thread has left to do are known places in the C code of threads.xs.
THEOREM ThreadTypes == Spec => []TypeOK
<1>1. ThreadInv => TypeOK
  BY DEF ThreadInv, ControlInv
<1> QED
  BY <1>1, AlwaysThreadInv, PTL

\* The counter of a structure is the number of references to it, through
\* cloning, list(), nested destruction and the races between them, and the
\* counters of the pool say how many threads run, are detached or can be
\* joined.
THEOREM CountersAreRight == Spec => []ThreadsAreCounted
<1>1. ThreadInv => ThreadsAreCounted
  BY DEF ThreadInv, CountInv, Accounted, ThreadsAreCounted, CountIsReferences
<1> QED
  BY <1>1, AlwaysThreadInv, PTL

\* No structure is freed while anybody has a reference, no interpreter while
\* its thread runs Perl code, and neither the pool nor the main interpreter
\* while a thread has more to do than to exit.
THEOREM NothingUsedIsFreed == Spec => []NothingIsFreedInUse
<1>1. ThreadInv => NothingIsFreedInUse
  <2> SUFFICES ASSUME ThreadInv PROVE NothingIsFreedInUse
    OBVIOUS
  <2>1. NothingDangles
    BY RefsOfNobody DEF ThreadInv, CountInv, Accounted, NothingDangles
  <2>2. PoolOutlivesThreads
    BY DEF ThreadInv, CountInv
  <2>3. ASSUME NEW t \in Tids, os[t] = "running", "FINISHED" \notin state[t]
        PROVE  t \in interp
    <3>1. Viable(t) /\ Born(t)
      BY <2>3 DEF ThreadInv, ControlInv, Running, Unborn
    <3>2. ~NoRefs(t)
      BY <2>3 DEF NoRefs, RunHolds
    <3> QED
      BY <2>3, <3>1, <3>2 DEF ThreadInv, CountInv, Interpreters
  <2> QED
    BY <2>1, <2>2, <2>3 DEF NothingIsFreedInUse, RunsInItsInterpreter
<1> QED
  BY <1>1, AlwaysThreadInv, PTL

\* As long as there is an object for a thread that died, its interpreter is
\* there, where "$thr->error()" looks for the error, also after join() or
\* detach().
THEOREM ErrorIsKept == Spec => []ErrorSurvives
<1>1. ThreadInv => ErrorSurvives
  <2> SUFFICES ASSUME ThreadInv, NEW a \in Actors, NEW t \in Tids, t \in objs[a], "DIED" \in state[t]
               PROVE  t \in interp
    BY DEF ErrorSurvives
  <2>1. "FINISHED" \in state[t]
    BY DEF ThreadInv, ControlInv, Ending
  <2>2. os[t] # "none"
    BY <2>1 DEF ThreadInv, ControlInv, Running
  <2>3. Viable(t) /\ Born(t)
    BY <2>2 DEF ThreadInv, ControlInv, Running, Unborn
  <2>4. ~NoRefs(t)
    BY DEF NoRefs, ObjectHolders
  <2> QED
    BY <2>1, <2>3, <2>4 DEF ThreadInv, CountInv, Interpreters
<1> QED
  BY <1>1, AlwaysThreadInv, PTL

=============================================================================
