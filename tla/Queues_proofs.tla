----------------------------- MODULE Queues_proofs -----------------------------
(***************************************************************************)
(* Proofs about Thread::Queue and Thread::Semaphore, for every set of      *)
(* threads, every limit, count and position.                               *)
(***************************************************************************)
EXTENDS MCQueues, SequenceTheorems, FiniteSetTheorems, TLAPS

-----------------------------------------------------------------------------
(* Sequences.                                                              *)

Items(s) == {s[i] : i \in DOMAIN s}

\* There are n numbers up to n.
LEMMA UpToCard ==
  ASSUME NEW n \in Nat
  PROVE  IsFiniteSet(1 .. n) /\ Cardinality(1 .. n) = n
<1>1. IsFiniteSet(1 .. n) /\ Cardinality(1 .. n) = IF 1 > n THEN 0 ELSE n - 1 + 1
  BY FS_Interval
<1> QED
  BY <1>1

LEMMA MinOfTwo ==
  ASSUME NEW a \in Int, NEW b \in Int
  PROVE  Min({a, b}) = IF a <= b THEN a ELSE b
<1>1. \E x \in {a, b} : \A y \in {a, b} : x <= y
  OBVIOUS
<1> DEFINE m == Min({a, b})
<1>2. m \in {a, b} /\ \A y \in {a, b} : m <= y
  BY <1>1 DEF Min
<1>3. m \in {a, b} /\ m <= a /\ m <= b
  BY <1>2
<1> HIDE DEF m
<1>4. m = IF a <= b THEN a ELSE b
  BY <1>3
<1> QED
  BY <1>4 DEF m

LEMMA MaxOfTwo ==
  ASSUME NEW a \in Int, NEW b \in Int
  PROVE  Max({a, b}) = IF a >= b THEN a ELSE b
<1>1. \E x \in {a, b} : \A y \in {a, b} : x >= y
  OBVIOUS
<1> DEFINE m == Max({a, b})
<1>2. m \in {a, b} /\ \A y \in {a, b} : m >= y
  BY <1>1 DEF Max
<1>3. m \in {a, b} /\ m >= a /\ m >= b
  BY <1>2
<1> HIDE DEF m
<1>4. m = IF a >= b THEN a ELSE b
  BY <1>3
<1> QED
  BY <1>4 DEF m

LEMMA ConcatItems ==
  ASSUME NEW S, NEW s \in Seq(S), NEW t \in Seq(S)
  PROVE  /\ s \o t \in Seq(S)
         /\ Len(s \o t) = Len(s) + Len(t)
         /\ Items(s \o t) = Items(s) \cup Items(t)
<1>1. /\ s \o t \in Seq(S)
      /\ Len(s \o t) = Len(s) + Len(t)
      /\ \A i \in 1 .. Len(s) + Len(t) :
           (s \o t)[i] = IF i <= Len(s) THEN s[i] ELSE t[i - Len(s)]
  BY ConcatProperties
<1>2. /\ Len(s) \in Nat /\ DOMAIN s = 1 .. Len(s)
      /\ Len(t) \in Nat /\ DOMAIN t = 1 .. Len(t)
      /\ DOMAIN (s \o t) = 1 .. Len(s) + Len(t)
  BY <1>1, LenProperties
<1>3. Items(s \o t) \subseteq Items(s) \cup Items(t)
  <2> SUFFICES ASSUME NEW i \in 1 .. Len(s) + Len(t)
               PROVE  (s \o t)[i] \in Items(s) \cup Items(t)
    BY <1>2 DEF Items
  <2> QED
    BY <1>1, <1>2 DEF Items
<1>4. ASSUME NEW i \in 1 .. Len(s) PROVE s[i] \in Items(s \o t)
  BY <1>1, <1>2 DEF Items
<1>5. ASSUME NEW i \in 1 .. Len(t) PROVE t[i] \in Items(s \o t)
  <2> DEFINE k == i + Len(s)
  <2>1. k \in 1 .. Len(s) + Len(t) /\ ~(k <= Len(s)) /\ k - Len(s) = i
    BY <1>2
  <2> HIDE DEF k
  <2>2. (s \o t)[k] = t[i]
    BY <1>1, <2>1
  <2> QED
    BY <1>2, <2>1, <2>2 DEF Items
<1>6. Items(s) \subseteq Items(s \o t)
  BY <1>2, <1>4 DEF Items
<1>7. Items(t) \subseteq Items(s \o t)
  BY <1>2, <1>5 DEF Items
<1> QED
  BY <1>1, <1>3, <1>6, <1>7

LEMMA SliceItems ==
  ASSUME NEW S, NEW q \in Seq(S), NEW a \in Nat \ {0}, NEW b \in Int, b <= Len(q)
  PROVE  /\ SubSeq(q, a, b) \in Seq(S)
         /\ Len(SubSeq(q, a, b)) = IF a <= b THEN b - a + 1 ELSE 0
         /\ Items(SubSeq(q, a, b)) = {q[i] : i \in a .. b}
<1>1. Len(q) \in Nat
  BY LenProperties
<1>2. \A i \in a .. b : q[i] \in S
  BY <1>1, ElementOfSeq
<1>3. /\ SubSeq(q, a, b) \in Seq(S)
      /\ Len(SubSeq(q, a, b)) = IF a <= b THEN b - a + 1 ELSE 0
      /\ \A i \in 1 .. b - a + 1 : SubSeq(q, a, b)[i] = q[a + i - 1]
  BY <1>2, SubSeqProperties
<1>4. DOMAIN SubSeq(q, a, b) = 1 .. b - a + 1
  BY <1>3, LenProperties
<1> DEFINE s == SubSeq(q, a, b)
<1>5. \A i \in 1 .. b - a + 1 : a + i - 1 \in a .. b /\ s[i] = q[a + i - 1]
  BY <1>3
<1>6. \A i \in a .. b : i - a + 1 \in 1 .. b - a + 1 /\ a + (i - a + 1) - 1 = i
  OBVIOUS
<1>7. \A i \in a .. b : s[i - a + 1] = q[i]
  BY <1>5, <1>6
<1> HIDE DEF s
<1>8. DOMAIN s = 1 .. b - a + 1
  BY <1>4 DEF s
<1>9. Items(s) \subseteq {q[i] : i \in a .. b}
  BY <1>5, <1>8 DEF Items
<1>10. {q[i] : i \in a .. b} \subseteq Items(s)
  <2> SUFFICES ASSUME NEW i \in a .. b PROVE q[i] \in Items(s)
    OBVIOUS
  <2>1. i - a + 1 \in DOMAIN s /\ s[i - a + 1] = q[i]
    BY <1>6, <1>7, <1>8
  <2> QED
    BY <2>1 DEF Items
<1> QED
  BY <1>3, <1>9, <1>10 DEF s

\* A sequence cut in three: nothing is lost, nothing is there twice.
LEMMA CutItems ==
  ASSUME NEW S, NEW q \in Seq(S), NEW i \in Nat, NEW j \in Nat, i <= j, j <= Len(q)
  PROVE  /\ SubSeq(q, 1, i) \in Seq(S)
         /\ SubSeq(q, i + 1, j) \in Seq(S)
         /\ SubSeq(q, j + 1, Len(q)) \in Seq(S)
         /\ Len(SubSeq(q, 1, i)) = i
         /\ Len(SubSeq(q, i + 1, j)) = j - i
         /\ Len(SubSeq(q, j + 1, Len(q))) = Len(q) - j
         /\ Items(q) = Items(SubSeq(q, 1, i)) \cup Items(SubSeq(q, i + 1, j))
                         \cup Items(SubSeq(q, j + 1, Len(q)))
<1>1. Len(q) \in Nat /\ DOMAIN q = 1 .. Len(q)
  BY LenProperties
<1>2. /\ SubSeq(q, 1, i) \in Seq(S)
      /\ Len(SubSeq(q, 1, i)) = i
      /\ Items(SubSeq(q, 1, i)) = {q[k] : k \in 1 .. i}
  BY <1>1, SliceItems
<1>3. /\ SubSeq(q, i + 1, j) \in Seq(S)
      /\ Len(SubSeq(q, i + 1, j)) = j - i
      /\ Items(SubSeq(q, i + 1, j)) = {q[k] : k \in i + 1 .. j}
  BY <1>1, SliceItems
<1>4. /\ SubSeq(q, j + 1, Len(q)) \in Seq(S)
      /\ Len(SubSeq(q, j + 1, Len(q))) = Len(q) - j
      /\ Items(SubSeq(q, j + 1, Len(q))) = {q[k] : k \in j + 1 .. Len(q)}
  <2>1. j + 1 \in Nat \ {0} /\ Len(q) \in Int /\ Len(q) <= Len(q)
    BY <1>1
  <2>2. \A n \in Nat : j <= n => (IF j + 1 <= n THEN n - (j + 1) + 1 ELSE 0) = n - j
    OBVIOUS
  <2>3. /\ SubSeq(q, j + 1, Len(q)) \in Seq(S)
        /\ Len(SubSeq(q, j + 1, Len(q))) = IF j + 1 <= Len(q) THEN Len(q) - (j + 1) + 1 ELSE 0
        /\ Items(SubSeq(q, j + 1, Len(q))) = {q[k] : k \in j + 1 .. Len(q)}
    BY <2>1, SliceItems
  <2> QED
    BY <1>1, <2>2, <2>3
<1>5. \A k : k \in DOMAIN q <=> k \in 1 .. i \/ k \in i + 1 .. j \/ k \in j + 1 .. Len(q)
  BY <1>1
<1>6. Items(q) = {q[k] : k \in 1 .. i} \cup {q[k] : k \in i + 1 .. j}
                   \cup {q[k] : k \in j + 1 .. Len(q)}
  BY <1>5 DEF Items
<1> QED
  BY <1>2, <1>3, <1>4, <1>6

\* NewItems(n), of a queue that has had m items.
Numbered(m, n) == [i \in 1 .. n |-> m + i]

LEMMA NumberedItems ==
  ASSUME NEW m \in Nat, NEW n \in Nat, NEW k \in Nat, m + n <= k
  PROVE  /\ Numbered(m, n) \in Seq(1 .. k)
         /\ Len(Numbered(m, n)) = n
         /\ Items(Numbered(m, n)) = m + 1 .. m + n
<1>1. \A i \in 1 .. n : m + i \in 1 .. k
  OBVIOUS
<1>2. Numbered(m, n) \in [1 .. n -> 1 .. k]
  BY <1>1 DEF Numbered
<1>3. Numbered(m, n) \in Seq(1 .. k)
  BY <1>2, SeqDef
<1>4. DOMAIN Numbered(m, n) = 1 .. n
  BY DEF Numbered
<1>5. Len(Numbered(m, n)) = n
  BY <1>3, <1>4, LenProperties
<1>6. \A i \in 1 .. n : Numbered(m, n)[i] = m + i /\ m + i \in m + 1 .. m + n
  BY DEF Numbered
<1>7. \A x \in m + 1 .. m + n : x - m \in 1 .. n /\ m + (x - m) = x
  OBVIOUS
<1>8. Items(Numbered(m, n)) = m + 1 .. m + n
  BY <1>4, <1>6, <1>7 DEF Items
<1> QED
  BY <1>3, <1>5, <1>8

-----------------------------------------------------------------------------
(* What the methods do to the list.                                        *)

\* Of a queue q that has had m items, k more come and tk goes; q2 remains.
Rearranged(q, q2, tk, m, k) ==
  /\ q2 \in Seq(1 .. m + k)
  /\ tk \in Seq(1 .. m + k)
  /\ Len(q2) + Len(tk) = Len(q) + k
  /\ Items(q2) \cup Items(tk) = Items(q) \cup (m + 1 .. m + k)

\* The same, in the order of the queue.
InOrder(q, q2, tk, m, k) == tk \o q2 = q \o Numbered(m, k)

LEMMA Widen ==
  ASSUME NEW m \in Nat, NEW k \in Nat, NEW q \in Seq(1 .. m)
  PROVE  q \in Seq(1 .. m + k)
<1>1. 1 .. m \subseteq 1 .. m + k
  OBVIOUS
<1> QED
  BY <1>1, SeqMonotonic

LEMMA NoItems == Items(<<>>) = {} /\ Len(<<>>) = 0 /\ \A S : <<>> \in Seq(S)
  BY EmptySeq DEF Items

LEMMA EnqueueRearranges ==
  ASSUME NEW m \in Nat, NEW k \in Nat, NEW q \in Seq(1 .. m)
  PROVE  /\ Rearranged(q, q \o Numbered(m, k), <<>>, m, k)
         /\ InOrder(q, q \o Numbered(m, k), <<>>, m, k)
<1> DEFINE S == 1 .. m + k
           new == Numbered(m, k)
<1>1. q \in Seq(S)
  BY Widen
<1>2. new \in Seq(S) /\ Len(new) = k /\ Items(new) = m + 1 .. m + k
  BY NumberedItems
<1> HIDE DEF S, new
<1>3. /\ q \o new \in Seq(S)
      /\ Len(q \o new) = Len(q) + k
      /\ Items(q \o new) = Items(q) \cup (m + 1 .. m + k)
  <2>1. /\ q \o new \in Seq(S)
        /\ Len(q \o new) = Len(q) + Len(new)
        /\ Items(q \o new) = Items(q) \cup Items(new)
    <3>1. q \in Seq(S) /\ new \in Seq(S)
      BY <1>1, <1>2
    <3> QED
      BY <3>1, ConcatItems
  <2> QED
    BY <1>2, <2>1
<1>4. Rearranged(q, q \o new, <<>>, m, k)
  BY <1>1, <1>3, NoItems, LenProperties DEF Rearranged, S
<1>5. <<>> \o (q \o new) = q \o new
  BY <1>3, ConcatEmptySeq
<1> QED
  BY <1>4, <1>5 DEF InOrder, new

LEMMA InsertRearranges ==
  ASSUME NEW m \in Nat, NEW k \in Nat, NEW q \in Seq(1 .. m), NEW i \in 0 .. Len(q)
  PROVE  Rearranged(q, SubSeq(q, 1, i) \o Numbered(m, k) \o SubSeq(q, i + 1, Len(q)), <<>>, m, k)
<1> DEFINE S == 1 .. m + k
           new == Numbered(m, k)
           a == SubSeq(q, 1, i)
           b == SubSeq(q, i + 1, i)
           c == SubSeq(q, i + 1, Len(q))
<1>1. q \in Seq(S) /\ Len(q) \in Nat
  BY Widen, LenProperties
<1>2. new \in Seq(S) /\ Len(new) = k /\ Items(new) = m + 1 .. m + k
  BY NumberedItems
<1>3. /\ a \in Seq(S) /\ Len(a) = i
      /\ c \in Seq(S) /\ Len(c) = Len(q) - i
      /\ Items(q) = Items(a) \cup Items(b) \cup Items(c)
  <2> HIDE DEF S
  <2>1. i \in Nat /\ i <= i /\ i <= Len(q)
    BY <1>1
  <2>2. /\ SubSeq(q, 1, i) \in Seq(S) /\ Len(SubSeq(q, 1, i)) = i
        /\ SubSeq(q, i + 1, Len(q)) \in Seq(S)
        /\ Len(SubSeq(q, i + 1, Len(q))) = Len(q) - i
        /\ Items(q) = Items(SubSeq(q, 1, i)) \cup Items(SubSeq(q, i + 1, i))
                        \cup Items(SubSeq(q, i + 1, Len(q)))
    BY <1>1, <2>1, CutItems
  <2> QED
    BY <2>2
<1>4. Items(b) = {}
  <2>1. b = <<>>
    BY SubSeqEmpty
  <2> QED
    BY <2>1, NoItems
<1> HIDE DEF S, new, a, b, c
<1>5. /\ a \o new \in Seq(S)
      /\ Len(a \o new) = i + k
      /\ Items(a \o new) = Items(a) \cup (m + 1 .. m + k)
  <2>1. /\ a \o new \in Seq(S)
        /\ Len(a \o new) = Len(a) + Len(new)
        /\ Items(a \o new) = Items(a) \cup Items(new)
    <3>1. a \in Seq(S) /\ new \in Seq(S)
      BY <1>2, <1>3
    <3> QED
      BY <3>1, ConcatItems
  <2> QED
    BY <1>2, <1>3, <2>1
<1>6. /\ (a \o new) \o c \in Seq(S)
      /\ Len((a \o new) \o c) = (i + k) + (Len(q) - i)
      /\ Items((a \o new) \o c) = Items(a) \cup (m + 1 .. m + k) \cup Items(c)
  <2>1. /\ (a \o new) \o c \in Seq(S)
        /\ Len((a \o new) \o c) = Len(a \o new) + Len(c)
        /\ Items((a \o new) \o c) = Items(a \o new) \cup Items(c)
    <3>1. a \o new \in Seq(S) /\ c \in Seq(S)
      BY <1>3, <1>5
    <3> QED
      BY <3>1, ConcatItems
  <2> QED
    BY <1>3, <1>5, <2>1
<1>7. (i + k) + (Len(q) - i) = Len(q) + k
  BY <1>1
<1>8. Rearranged(q, (a \o new) \o c, <<>>, m, k)
  BY <1>1, <1>3, <1>4, <1>6, <1>7, NoItems DEF Rearranged, S
<1> QED
  BY <1>8 DEF new, a, c

LEMMA TakeRearranges ==
  ASSUME NEW m \in Nat, NEW q \in Seq(1 .. m), NEW k \in 0 .. Len(q)
  PROVE  /\ Rearranged(q, SubSeq(q, k + 1, Len(q)), SubSeq(q, 1, k), m, 0)
         /\ InOrder(q, SubSeq(q, k + 1, Len(q)), SubSeq(q, 1, k), m, 0)
<1> DEFINE a == SubSeq(q, 1, k)
           b == SubSeq(q, k + 1, k)
           c == SubSeq(q, k + 1, Len(q))
<1>1. Len(q) \in Nat
  BY LenProperties
<1>2. /\ a \in Seq(1 .. m) /\ Len(a) = k
      /\ c \in Seq(1 .. m) /\ Len(c) = Len(q) - k
      /\ Items(q) = Items(a) \cup Items(b) \cup Items(c)
  BY <1>1, CutItems
<1>3. Items(b) = {}
  <2>1. b = <<>>
    BY SubSeqEmpty
  <2> QED
    BY <2>1, NoItems
<1>4. a \o c = SubSeq(q, 1, Len(q))
  <2>1. /\ 1 \in 1 .. Len(q) + 1
        /\ k \in 1 - 1 .. Len(q)
        /\ Len(q) \in k .. Len(q)
    BY <1>1
  <2> QED
    BY <2>1, ConcatAdjacentSubSeq
<1>5. SubSeq(q, 1, Len(q)) = q
  BY SubSeqFull
<1>6. Numbered(m, 0) = <<>>
  <2>1. Numbered(m, 0) \in Seq(1 .. m) /\ Len(Numbered(m, 0)) = 0
    BY NumberedItems
  <2> QED
    BY <2>1, EmptySeq
<1>7. q \o <<>> = q
  BY ConcatEmptySeq
<1> HIDE DEF a, b, c
<1>8. Rearranged(q, c, a, m, 0)
  BY <1>1, <1>2, <1>3 DEF Rearranged
<1>9. InOrder(q, c, a, m, 0)
  BY <1>4, <1>5, <1>6, <1>7 DEF InOrder
<1> QED
  BY <1>8, <1>9 DEF a, c

LEMMA ExtractRearranges ==
  ASSUME NEW m \in Nat, NEW q \in Seq(1 .. m), NEW start \in Nat, NEW n \in Nat
  PROVE  Rearranged(q, SubSeq(q, 1, Min({start, Len(q)})) \o SubSeq(q, start + n + 1, Len(q)),
                    SubSeq(q, start + 1, Min({start + n, Len(q)})), m, 0)
<1> DEFINE S == 1 .. m
           i == Min({start, Len(q)})
           j == Min({start + n, Len(q)})
           a == SubSeq(q, 1, i)
           b == SubSeq(q, i + 1, j)
           c == SubSeq(q, j + 1, Len(q))
<1>1. Len(q) \in Nat
  BY LenProperties
<1>2. /\ i = IF start <= Len(q) THEN start ELSE Len(q)
      /\ j = IF start + n <= Len(q) THEN start + n ELSE Len(q)
  BY <1>1, MinOfTwo
<1> HIDE DEF i, j
<1>3. i \in Nat /\ j \in Nat /\ i <= j /\ j <= Len(q)
  BY <1>1, <1>2
<1>4. /\ a \in Seq(S) /\ Len(a) = i
      /\ b \in Seq(S) /\ Len(b) = j - i
      /\ c \in Seq(S) /\ Len(c) = Len(q) - j
      /\ Items(q) = Items(a) \cup Items(b) \cup Items(c)
  BY <1>3, CutItems
<1>5. SubSeq(q, start + 1, j) = b
  <2>1. CASE start <= Len(q)
    BY <1>2, <2>1
  <2>2. CASE ~(start <= Len(q))
    <3>1. j < start + 1 /\ j < i + 1
      BY <1>1, <1>2, <2>2
    <3>2. SubSeq(q, start + 1, j) = <<>> /\ SubSeq(q, i + 1, j) = <<>>
      BY <1>3, <3>1, SubSeqEmpty
    <3> QED
      BY <3>2
  <2> QED
    BY <2>1, <2>2
<1>6. SubSeq(q, start + n + 1, Len(q)) = c
  <2>1. CASE start + n <= Len(q)
    BY <1>2, <2>1
  <2>2. CASE ~(start + n <= Len(q))
    <3>1. Len(q) < start + n + 1 /\ Len(q) < j + 1
      BY <1>1, <1>2, <2>2
    <3>2. SubSeq(q, start + n + 1, Len(q)) = <<>> /\ SubSeq(q, j + 1, Len(q)) = <<>>
      BY <1>1, <1>3, <3>1, SubSeqEmpty
    <3> QED
      BY <3>2
  <2> QED
    BY <2>1, <2>2
<1> HIDE DEF S, a, b, c
<1>7. /\ a \o c \in Seq(S)
      /\ Len(a \o c) = i + (Len(q) - j)
      /\ Items(a \o c) = Items(a) \cup Items(c)
  <2>1. /\ a \o c \in Seq(S)
        /\ Len(a \o c) = Len(a) + Len(c)
        /\ Items(a \o c) = Items(a) \cup Items(c)
    <3>1. a \in Seq(S) /\ c \in Seq(S)
      BY <1>4
    <3> QED
      BY <3>1, ConcatItems
  <2> QED
    BY <1>4, <2>1
<1>8. (i + (Len(q) - j)) + (j - i) = Len(q) + 0
  BY <1>1, <1>3
<1>9. Rearranged(q, a \o c, b, m, 0)
  BY <1>4, <1>7, <1>8 DEF Rearranged, S
<1> QED
  BY <1>5, <1>6, <1>9 DEF a, i, j

-----------------------------------------------------------------------------
(* The inductive invariant of the queue.                                   *)

\* What a client needs to know of the monitor: whoever has the lock, or waits
\* to have it back, is inside a scope, and waits only in a loop of a method.
InMonitor ==
  /\ M!TypeOK
  /\ M!HeldIsScoped
  /\ \A t \in Threads : mode[t] # "run" => depth[t] > 0 /\ call[t] \in Loops

CallTypes ==
  /\ LIMIT \in Nat
  /\ ENDED \in BOOLEAN
  /\ call \in [Threads -> Places]
  /\ arg \in [Threads -> [n : Int, index : Int]]
  /\ expired \in [Threads -> BOOLEAN]
  /\ offered \in 0 .. MaxItems

\* t was given items that are not on the queue yet.
Pending(t) == call[t] \in Adding \cup {"enqueue_wait"}
TakingPlaces == Taking \cup {"dequeue_wait", "timed_wait"}

ArgsInv ==
  \A t \in Threads :
    /\ Pending(t) => arg[t].n \in Nat
    /\ call[t] \in {"dequeue_wait", "timed_wait"} => arg[t].n >= 1

\* Every item on the queue, and every item of a call that will put it there,
\* has its own number among those that were offered.
Shares(g, D) ==
  /\ Cardinality(D) = added
  /\ \A t \in Threads : Pending(t) =>
       /\ Cardinality(g[t]) = arg[t].n
       /\ g[t] \cap D = {}
       /\ \A u \in Threads \ {t} : Pending(u) => g[t] \cap g[u] = {}

Accounted ==
  \E g \in [Threads -> SUBSET (1 .. offered)], D \in SUBSET (1 .. offered) : Shares(g, D)

Conserved ==
  /\ added \in Nat
  /\ queue \in Seq(1 .. added)
  /\ taken \in Seq(1 .. added)
  /\ Len(taken) + Len(queue) = added
  /\ Items(taken) \cup Items(queue) = 1 .. added

QInv == InMonitor /\ CallTypes /\ ArgsInv /\ Accounted /\ Conserved

LEMMA InitQInv == Init => QInv
<1> SUFFICES ASSUME Init PROVE QInv
  OBVIOUS
<1>1. InMonitor
  BY QueueAssumption DEF Init, InMonitor, M!Init, M!TypeOK, M!HeldIsScoped
<1>2. CallTypes /\ ArgsInv
  <2>1. \A t \in Threads : call[t] = "none"
    BY DEF Init
  <2>2. NoArgs \in [n : Int, index : Int]
    BY DEF NoArgs
  <2>3. arg \in [Threads -> [n : Int, index : Int]]
    BY <2>2 DEF Init
  <2>4. LIMIT \in Nat /\ ENDED \in BOOLEAN /\ call \in [Threads -> Places]
        /\ expired \in [Threads -> BOOLEAN] /\ offered \in 0 .. MaxItems
    <3>1. LIMIT \in Nat /\ 0 \in 0 .. MaxItems
      BY QueueAssumption DEF Init
    <3> QED
      BY <3>1 DEF Init, Places
  <2> QED
    BY <2>1, <2>3, <2>4 DEF CallTypes, ArgsInv, Pending, Adding
<1>3. Accounted
  <2> DEFINE g == [t \in Threads |-> {}]
  <2>1. g \in [Threads -> SUBSET (1 .. offered)] /\ {} \in SUBSET (1 .. offered)
    OBVIOUS
  <2>2. Shares(g, {})
    BY FS_EmptySet DEF Init, Shares, Pending, Adding
  <2> HIDE DEF g
  <2> QED
    BY <2>1, <2>2 DEF Accounted
<1>4. Conserved
  BY NoItems DEF Init, Conserved
<1> QED
  BY <1>1, <1>2, <1>3, <1>4 DEF QInv

\* What was added was offered, and what is pending can still be added.
LEMMA RoomForPending ==
  ASSUME QInv
  PROVE  /\ added \in Nat /\ added <= offered
         /\ \A t \in Threads : Pending(t) => added + arg[t].n <= offered
<1>1. PICK g \in [Threads -> SUBSET (1 .. offered)], D \in SUBSET (1 .. offered) : Shares(g, D)
  BY DEF QInv, Accounted
<1>2. offered \in Nat
  BY QueueAssumption DEF QInv, CallTypes
<1>3. IsFiniteSet(1 .. offered) /\ Cardinality(1 .. offered) = offered
  BY <1>2, UpToCard
<1>4. IsFiniteSet(D) /\ Cardinality(D) <= offered
  BY <1>3, FS_Subset
<1>5. ASSUME NEW t \in Threads, Pending(t) PROVE added + arg[t].n <= offered
  <2>1. IsFiniteSet(g[t]) /\ Cardinality(g[t]) = arg[t].n /\ g[t] \cap D = {}
    BY <1>1, <1>3, <1>5, FS_Subset DEF Shares
  <2>2. Cardinality(g[t] \cup D) = arg[t].n + added - Cardinality({})
    BY <1>1, <1>4, <2>1, FS_Union DEF Shares
  <2>3. Cardinality(g[t] \cup D) <= offered
    BY <1>3, FS_Subset
  <2>4. Cardinality({}) = 0
    BY FS_EmptySet
  <2>5. added \in Nat /\ arg[t].n \in Nat
    BY <1>5 DEF QInv, Conserved, ArgsInv
  <2> QED
    BY <1>2, <2>2, <2>3, <2>4, <2>5
<1> QED
  BY <1>1, <1>4, <1>5 DEF Shares, QInv, Conserved

LEMMA QInvTypes == QInv => TypeOK
<1> SUFFICES ASSUME QInv PROVE TypeOK
  OBVIOUS
<1>1. added \in 0 .. MaxItems /\ 1 .. added \subseteq 1 .. MaxItems
  BY RoomForPending, QueueAssumption DEF QInv, CallTypes
<1>2. queue \in Seq(1 .. MaxItems) /\ taken \in Seq(1 .. MaxItems)
  BY <1>1, SeqMonotonic DEF QInv, Conserved
<1> QED
  BY <1>1, <1>2 DEF QInv, TypeOK, InMonitor, CallTypes

LEMMA QInvItems == QInv => ItemsConserved
<1> SUFFICES ASSUME QInv PROVE ItemsConserved
  OBVIOUS
<1>1. /\ Len(taken \o queue) = Len(taken) + Len(queue)
      /\ Items(taken \o queue) = Items(taken) \cup Items(queue)
  BY ConcatItems DEF QInv, Conserved
<1> QED
  BY <1>1 DEF QInv, Conserved, ItemsConserved, Items

-----------------------------------------------------------------------------
(* The steps of the monitor, as they occur in the methods.                 *)

\* The scope of t ends, and some waiting threads, perhaps none, are told.
LEMMA ReleaseKeepsMonitor ==
  ASSUME InMonitor, NEW t \in Threads, M!Release(t),
         mode' \in [Threads -> {"run", "waiting", "resuming"}],
         \A u \in Threads : mode'[u] = "run" <=> mode[u] = "run",
         \A u \in Threads \ {t} : call'[u] = call[u]
  PROVE  InMonitor'
<1>1. depth[t] \in Nat \ {0} /\ t # None
  BY QueueAssumption DEF InMonitor, M!Release, M!TypeOK, M!HeldIsScoped
<1>2. /\ depth' \in [Threads -> Nat]
      /\ depth'[t] = depth[t] - 1
      /\ \A u \in Threads \ {t} : depth'[u] = depth[u]
  BY <1>1 DEF InMonitor, M!Release, M!TypeOK
<1>3. holder' \in {None, t} /\ (holder' = t => depth'[t] > 0 /\ mode'[t] = "run")
  BY <1>1, <1>2 DEF M!Release
<1>4. \A u \in Threads : mode'[u] # "run" => depth'[u] > 0 /\ call'[u] \in Loops
  BY <1>2 DEF InMonitor, M!Release
<1> QED
  BY <1>1, <1>2, <1>3, <1>4 DEF InMonitor, M!TypeOK, M!HeldIsScoped

LEMMA SignalWakes ==
  ASSUME InMonitor, M!Signal
  PROVE  /\ mode' \in [Threads -> {"run", "waiting", "resuming"}]
         /\ \A u \in Threads : mode'[u] = "run" <=> mode[u] = "run"
         /\ \A u \in Threads : mode'[u] = "waiting" => mode[u] = "waiting"
         /\ \/ \A u \in Threads : mode[u] # "waiting"
            \/ \E u \in Threads : mode[u] = "waiting" /\ mode'[u] = "resuming"
<1>1. CASE M!Waiting = {}
  BY <1>1 DEF InMonitor, M!Signal, M!Waiting, M!TypeOK
<1>2. CASE M!Waiting # {}
  <2>1. PICK w \in M!Waiting : M!Wake({w})
    BY <1>2 DEF M!Signal
  <2>2. /\ w \in Threads /\ mode[w] = "waiting"
        /\ mode' = [u \in Threads |-> IF u \in {w} THEN "resuming" ELSE mode[u]]
    BY <2>1 DEF M!Waiting, M!Wake
  <2> QED
    BY <2>2 DEF InMonitor, M!TypeOK
<1> QED
  BY <1>1, <1>2

LEMMA WaitKeepsMonitor ==
  ASSUME InMonitor, NEW t \in Threads, M!Wait(t), call'[t] \in Loops,
         \A u \in Threads \ {t} : call'[u] = call[u]
  PROVE  InMonitor'
  BY QueueAssumption DEF InMonitor, M!Wait, M!TypeOK, M!HeldIsScoped

LEMMA WakeKeepsMonitor ==
  ASSUME InMonitor, NEW t \in Threads, M!Wake({t}), UNCHANGED <<holder, depth, call>>
  PROVE  InMonitor'
<1>1. \A u \in Threads : \/ mode'[u] = mode[u]
                         \/ mode[u] = "waiting" /\ mode'[u] = "resuming"
  BY DEF M!Wake, M!Waiting
<1>2. mode' \in [Threads -> {"run", "waiting", "resuming"}]
  BY <1>1 DEF M!Wake, InMonitor, M!TypeOK
<1> QED
  BY <1>1, <1>2, QueueAssumption DEF InMonitor, M!TypeOK, M!HeldIsScoped

LEMMA ResumeKeepsMonitor ==
  ASSUME InMonitor, NEW t \in Threads, M!Resume(t), UNCHANGED call
  PROVE  InMonitor'
  BY QueueAssumption DEF InMonitor, M!Resume, M!TypeOK, M!HeldIsScoped

LEMMA AcquireKeepsMonitor ==
  ASSUME InMonitor, NEW t \in Threads, M!Acquire(t), UNCHANGED mode,
         \A u \in Threads \ {t} : call'[u] = call[u]
  PROVE  InMonitor'
  BY QueueAssumption DEF InMonitor, M!Acquire, M!TypeOK, M!HeldIsScoped

-----------------------------------------------------------------------------
(* What the steps of a call do to the counts of items.                     *)

\* Nothing is offered or added, and no call has more to add than before.
LEMMA AccountedUnchanged ==
  ASSUME QInv, UNCHANGED <<offered, added>>,
         \A t \in Threads : Pending(t)' => Pending(t) /\ arg'[t].n = arg[t].n
  PROVE  Accounted'
<1>1. PICK g \in [Threads -> SUBSET (1 .. offered)], D \in SUBSET (1 .. offered) : Shares(g, D)
  BY DEF QInv, Accounted
<1>2. Cardinality(D) = added'
  BY <1>1 DEF Shares
<1>3. ASSUME NEW t \in Threads, Pending(t)'
      PROVE  /\ Cardinality(g[t]) = arg'[t].n
             /\ g[t] \cap D = {}
             /\ \A u \in Threads \ {t} : Pending(u)' => g[t] \cap g[u] = {}
  BY <1>1, <1>3 DEF Shares
<1>4. Shares(g, D)'
  BY <1>2, <1>3 DEF Shares
<1>5. g \in [Threads -> SUBSET (1 .. offered')] /\ D \in SUBSET (1 .. offered')
  OBVIOUS
<1> QED
  BY <1>4, <1>5 DEF Accounted

\* n items are given to the call of t: they get the next numbers.
LEMMA AccountedOffer ==
  ASSUME QInv, NEW t \in Threads, NEW n \in Nat,
         offered' = offered + n, UNCHANGED added,
         Pending(t)' => arg'[t].n = n,
         \A u \in Threads \ {t} : (Pending(u)' <=> Pending(u)) /\ arg'[u].n = arg[u].n
  PROVE  Accounted'
<1>1. PICK g \in [Threads -> SUBSET (1 .. offered)], D \in SUBSET (1 .. offered) : Shares(g, D)
  BY DEF QInv, Accounted
<1>2. offered \in Nat
  BY QueueAssumption DEF QInv, CallTypes
<1> DEFINE new == offered + 1 .. offered + n
<1>3. 1 .. offered \subseteq 1 .. offered' /\ new \subseteq 1 .. offered'
  BY <1>2
<1>4. Cardinality(new) = n
  BY <1>2, FS_Interval
<1>5. \A x \in 1 .. offered : x \notin new
  BY <1>2
<1> HIDE DEF new
<1>6. PICK h \in [Threads -> SUBSET (1 .. offered')] :
        h[t] = new /\ \A u \in Threads \ {t} : h[u] = g[u]
  <2> DEFINE f == [g EXCEPT ![t] = new]
  <2>1. /\ f \in [Threads -> SUBSET (1 .. offered')]
        /\ f[t] = new /\ \A u \in Threads \ {t} : f[u] = g[u]
    BY <1>3
  <2> HIDE DEF f
  <2> QED
    BY <2>1
<1>7. \A u \in Threads : g[u] \subseteq 1 .. offered
  OBVIOUS
<1>8. new \cap D = {} /\ \A u \in Threads : new \cap g[u] = {} /\ g[u] \cap new = {}
  BY <1>5, <1>7
<1>9. ASSUME NEW u \in Threads, Pending(u)'
      PROVE  /\ Cardinality(h[u]) = arg'[u].n
             /\ h[u] \cap D = {}
             /\ \A v \in Threads \ {u} : Pending(v)' => h[u] \cap h[v] = {}
  <2>1. CASE u = t
    BY <1>4, <1>6, <1>8, <1>9, <2>1
  <2>2. CASE u # t
    <3>1. /\ Cardinality(g[u]) = arg'[u].n
          /\ g[u] \cap D = {}
          /\ \A v \in Threads \ {u} : Pending(v) => g[u] \cap g[v] = {}
      BY <1>1, <1>9, <2>2 DEF Shares
    <3>2. ASSUME NEW v \in Threads \ {u}, Pending(v)' PROVE h[u] \cap h[v] = {}
      BY <1>6, <1>8, <2>2, <3>1, <3>2
    <3> QED
      BY <1>6, <2>2, <3>1, <3>2
  <2> QED
    BY <2>1, <2>2
<1>10. Shares(h, D)'
  BY <1>1, <1>9 DEF Shares
<1>11. D \in SUBSET (1 .. offered')
  BY <1>3
<1> QED
  BY <1>6, <1>10, <1>11 DEF Accounted

\* The call of t puts its items on the queue, and is over.
LEMMA AccountedAdd ==
  ASSUME QInv, NEW t \in Threads, Pending(t), ~Pending(t)',
         added' = added + arg[t].n, UNCHANGED offered,
         \A u \in Threads \ {t} : Pending(u)' => Pending(u) /\ arg'[u].n = arg[u].n
  PROVE  Accounted'
<1>1. PICK g \in [Threads -> SUBSET (1 .. offered)], D \in SUBSET (1 .. offered) : Shares(g, D)
  BY DEF QInv, Accounted
<1>2. offered \in Nat
  BY QueueAssumption DEF QInv, CallTypes
<1>3. IsFiniteSet(1 .. offered) /\ Cardinality(1 .. offered) = offered
  BY <1>2, UpToCard
<1>4. /\ IsFiniteSet(D) /\ IsFiniteSet(g[t])
      /\ Cardinality(D) = added /\ Cardinality(g[t]) = arg[t].n /\ D \cap g[t] = {}
  <2>1. g[t] \in SUBSET (1 .. offered)
    OBVIOUS
  <2>2. IsFiniteSet(D) /\ IsFiniteSet(g[t])
    BY <1>3, <2>1, FS_Subset
  <2>3. Cardinality(D) = added /\ Cardinality(g[t]) = arg[t].n /\ g[t] \cap D = {}
    BY <1>1 DEF Shares
  <2> QED
    BY <2>2, <2>3
<1> DEFINE E == D \cup g[t]
<1>5. Cardinality(E) = added + arg[t].n - Cardinality({})
  BY <1>4, FS_Union
<1>6. Cardinality({}) = 0 /\ added \in Nat /\ arg[t].n \in Nat
  BY FS_EmptySet DEF QInv, Conserved, ArgsInv
<1>7. Cardinality(E) = added'
  BY <1>5, <1>6
<1>8. E \in SUBSET (1 .. offered') /\ g \in [Threads -> SUBSET (1 .. offered')]
  OBVIOUS
<1>9. ASSUME NEW u \in Threads, Pending(u)'
      PROVE  /\ Cardinality(g[u]) = arg'[u].n
             /\ g[u] \cap E = {}
             /\ \A v \in Threads \ {u} : Pending(v)' => g[u] \cap g[v] = {}
  <2>1. u # t /\ Pending(u) /\ arg'[u].n = arg[u].n
    BY <1>9
  <2>2. /\ Cardinality(g[u]) = arg[u].n
        /\ g[u] \cap D = {} /\ g[u] \cap g[t] = {}
        /\ \A v \in Threads \ {u} : Pending(v) => g[u] \cap g[v] = {}
    BY <1>1, <2>1 DEF Shares
  <2>3. \A v \in Threads \ {u} : Pending(v)' => Pending(v)
    OBVIOUS
  <2> QED
    BY <2>1, <2>2, <2>3
<1> HIDE DEF E
<1>10. Shares(g, E)'
  BY <1>7, <1>9 DEF Shares
<1> QED
  BY <1>8, <1>10 DEF Accounted

\* What a change of the list does to the items.
LEMMA ConservedChange ==
  ASSUME Conserved, NEW q2, NEW tk, NEW k \in Nat, Rearranged(queue, q2, tk, added, k),
         queue' = q2, taken' = taken \o tk, added' = added + k
  PROVE  Conserved'
<1> DEFINE S == 1 .. added + k
<1>1. /\ added \in Nat /\ queue \in Seq(1 .. added) /\ taken \in Seq(1 .. added)
      /\ Len(taken) + Len(queue) = added
      /\ Items(taken) \cup Items(queue) = 1 .. added
  BY DEF Conserved
<1>2. /\ q2 \in Seq(S) /\ tk \in Seq(S)
      /\ Len(q2) + Len(tk) = Len(queue) + k
      /\ Items(q2) \cup Items(tk) = Items(queue) \cup (added + 1 .. added + k)
  BY DEF Rearranged
<1>3. taken \in Seq(S)
  BY <1>1, Widen
<1>4. S = 1 .. added \cup (added + 1 .. added + k)
  BY <1>1
<1> HIDE DEF S
<1>5. /\ taken \o tk \in Seq(S)
      /\ Len(taken \o tk) = Len(taken) + Len(tk)
      /\ Items(taken \o tk) = Items(taken) \cup Items(tk)
  BY <1>2, <1>3, ConcatItems
<1>6. /\ Len(taken) \in Nat /\ Len(queue) \in Nat /\ added \in Nat
      /\ Len(tk) \in Nat /\ Len(q2) \in Nat
  BY <1>1, <1>2, LenProperties
<1>7. Len(taken \o tk) + Len(q2) = added + k
  <2>1. Len(taken) + Len(queue) = added /\ Len(q2) + Len(tk) = Len(queue) + k
    BY <1>1, <1>2
  <2>2. (Len(taken) + Len(tk)) + Len(q2) = added + k
    BY <1>6, <2>1
  <2> QED
    BY <1>5, <2>2
<1>8. Items(taken \o tk) \cup Items(q2) = S
  BY <1>1, <1>2, <1>4, <1>5
<1>9. added + k \in Nat
  BY <1>1
<1> QED
  BY <1>2, <1>5, <1>7, <1>8, <1>9 DEF Conserved, S

-----------------------------------------------------------------------------
(* The steps.                                                              *)

LEMMA EnterStep ==
  ASSUME QInv, NEW t \in Threads, NEW m \in Places \ (Loops \cup {"none"}),
         NEW n \in Int, NEW i \in Int, Enter(t, m, n, i),
         \/ m \in Adding /\ n \in Nat /\ offered' = offered + n /\ offered' <= MaxItems
         \/ m \notin Adding /\ UNCHANGED offered
  PROVE  QInv'
<1> USE DEF QInv
<1>1. /\ call' = [call EXCEPT ![t] = m] /\ call[t] = "none"
      /\ arg' = [arg EXCEPT ![t] = [n |-> n, index |-> i]]
      /\ UNCHANGED <<mode, queue, LIMIT, ENDED, expired, added, taken>>
  BY DEF Enter
<1>2. InMonitor'
  BY <1>1, AcquireKeepsMonitor DEF Enter, CallTypes
<1>3. offered' \in 0 .. MaxItems
  BY QueueAssumption DEF CallTypes
<1>4. CallTypes'
  BY <1>1, <1>3 DEF CallTypes
<1>5. \A u \in Threads \ {t} : call'[u] = call[u] /\ arg'[u] = arg[u]
  BY <1>1 DEF CallTypes
<1>6. call'[t] = m /\ arg'[t].n = n
  BY <1>1 DEF CallTypes
<1>7. m \notin Loops /\ m \notin {"enqueue_wait", "dequeue_wait", "timed_wait"}
  BY DEF Loops
<1>8. ArgsInv'
  BY <1>5, <1>6, <1>7 DEF ArgsInv, Pending
<1>9. Accounted'
  <2>1. CASE m \in Adding /\ n \in Nat /\ offered' = offered + n
    BY <1>1, <1>5, <1>6, <2>1, AccountedOffer DEF Pending
  <2>2. CASE m \notin Adding /\ UNCHANGED offered
    BY <1>1, <1>5, <1>6, <1>7, <2>2, AccountedUnchanged DEF Pending
  <2> QED
    BY <2>1, <2>2
<1>10. Conserved'
  BY <1>1 DEF Conserved
<1> QED
  BY <1>2, <1>4, <1>8, <1>9, <1>10

\* What a return leaves behind.
LEMMA ReturnTypes ==
  ASSUME QInv, NEW t \in Threads, Return(t), UNCHANGED <<LIMIT, offered>>, ENDED' \in BOOLEAN
  PROVE  /\ CallTypes' /\ ArgsInv'
         /\ call'[t] = "none"
         /\ \A u \in Threads \ {t} : call'[u] = call[u] /\ arg'[u] = arg[u]
<1> USE DEF QInv
<1>1. /\ call' = [call EXCEPT ![t] = "none"]
      /\ arg' = [arg EXCEPT ![t] = NoArgs]
      /\ expired' = [expired EXCEPT ![t] = FALSE]
  BY DEF Return
<1>2. NoArgs \in [n : Int, index : Int] /\ "none" \in Places
  BY DEF NoArgs, Places
<1>3. CallTypes'
  BY <1>1, <1>2 DEF CallTypes
<1>4. /\ call'[t] = "none"
      /\ \A u \in Threads \ {t} : call'[u] = call[u] /\ arg'[u] = arg[u]
  BY <1>1 DEF CallTypes
<1>5. ArgsInv'
  BY <1>4 DEF ArgsInv, Pending, Adding
<1> QED
  BY <1>3, <1>4, <1>5

LEMMA ReturnNothingStep ==
  ASSUME QInv, NEW t \in Threads, ReturnNothing(t)
  PROVE  QInv'
<1>1. Return(t) /\ UNCHANGED <<mode, queue, LIMIT, ENDED, offered, added, taken>>
  BY DEF ReturnNothing, history
<1>2. /\ CallTypes' /\ ArgsInv'
      /\ call'[t] = "none"
      /\ \A u \in Threads \ {t} : call'[u] = call[u] /\ arg'[u] = arg[u]
  BY <1>1, ReturnTypes DEF QInv, CallTypes
<1>3. InMonitor'
  BY <1>1, <1>2, ReleaseKeepsMonitor DEF Return, QInv, InMonitor, M!TypeOK
<1>4. \A u \in Threads : Pending(u)' => Pending(u) /\ arg'[u].n = arg[u].n
  BY <1>2 DEF Pending, Adding
<1>5. Accounted'
  BY <1>1, <1>4, AccountedUnchanged
<1>6. Conserved'
  BY <1>1 DEF QInv, Conserved
<1> QED
  BY <1>2, <1>3, <1>5, <1>6 DEF QInv

LEMMA WaitAtStep ==
  ASSUME QInv, NEW t \in Threads, NEW p \in Loops, WaitAt(t, p),
         \/ p = "enqueue_wait" /\ Pending(t)
         \/ p # "enqueue_wait" /\ arg[t].n >= 1
  PROVE  QInv'
<1> USE DEF QInv
<1>1. /\ M!Wait(t)
      /\ call' = [call EXCEPT ![t] = p]
      /\ UNCHANGED <<queue, LIMIT, ENDED, arg, expired, offered, added, taken>>
  BY DEF WaitAt, history
<1>2. call'[t] = p /\ \A u \in Threads \ {t} : call'[u] = call[u]
  BY <1>1 DEF CallTypes
<1>3. InMonitor'
  BY <1>1, <1>2, WaitKeepsMonitor
<1>4. p \in Places
  BY DEF Places
<1>5. CallTypes'
  BY <1>1, <1>4 DEF CallTypes
<1>6. \A u \in Threads : Pending(u)' => Pending(u) /\ arg'[u].n = arg[u].n
  BY <1>1, <1>2 DEF Pending, Adding, Loops
<1>7. ArgsInv'
  BY <1>1, <1>2, <1>6 DEF ArgsInv
<1>8. Accounted'
  BY <1>1, <1>6, AccountedUnchanged
<1>9. Conserved'
  BY <1>1 DEF Conserved
<1> QED
  BY <1>3, <1>5, <1>7, <1>8, <1>9

LEMMA ChangeStep ==
  ASSUME QInv, NEW t \in Threads, NEW q2, NEW tk, NEW k \in Nat, Change(t, q2, tk, k),
         Rearranged(queue, q2, tk, added, k),
         k = 0 \/ (Pending(t) /\ k = arg[t].n)
  PROVE  QInv'
<1>1. /\ queue' = q2 /\ taken' = taken \o tk /\ added' = added + k
      /\ M!Signal /\ Return(t) /\ UNCHANGED <<LIMIT, ENDED, offered>>
  BY DEF Change
<1>2. /\ CallTypes' /\ ArgsInv'
      /\ call'[t] = "none"
      /\ \A u \in Threads \ {t} : call'[u] = call[u] /\ arg'[u] = arg[u]
  BY <1>1, ReturnTypes DEF QInv, CallTypes
<1>3. InMonitor'
  BY <1>1, <1>2, SignalWakes, ReleaseKeepsMonitor DEF Return, QInv
<1>4. \A u \in Threads \ {t} : Pending(u)' => Pending(u) /\ arg'[u].n = arg[u].n
  BY <1>2 DEF Pending, Adding
<1>5. ~Pending(t)'
  BY <1>2 DEF Pending, Adding
<1>6. Conserved'
  BY <1>1, ConservedChange DEF QInv
<1>7. Accounted'
  <2>1. CASE k = 0
    <3>1. added' = added
      BY <1>1, <2>1 DEF QInv, Conserved
    <3> QED
      BY <1>1, <1>4, <1>5, <3>1, AccountedUnchanged
  <2>2. CASE Pending(t) /\ k = arg[t].n
    BY <1>1, <1>4, <1>5, <2>2, AccountedAdd
  <2> QED
    BY <2>1, <2>2
<1> QED
  BY <1>2, <1>3, <1>6, <1>7 DEF QInv

LEMMA EndStep ==
  ASSUME QInv, NEW t \in Threads, End(t)
  PROVE  QInv'
<1>1. /\ ENDED' = TRUE /\ M!Signal /\ Return(t)
      /\ UNCHANGED <<queue, LIMIT, offered, added, taken>>
  BY DEF End, history
<1>2. /\ CallTypes' /\ ArgsInv'
      /\ call'[t] = "none"
      /\ \A u \in Threads \ {t} : call'[u] = call[u] /\ arg'[u] = arg[u]
  BY <1>1, ReturnTypes
<1>3. InMonitor'
  BY <1>1, <1>2, SignalWakes, ReleaseKeepsMonitor DEF Return, QInv
<1>4. \A u \in Threads : Pending(u)' => Pending(u) /\ arg'[u].n = arg[u].n
  BY <1>2 DEF Pending, Adding
<1>5. Accounted'
  BY <1>1, <1>4, AccountedUnchanged
<1>6. Conserved'
  BY <1>1 DEF QInv, Conserved
<1> QED
  BY <1>2, <1>3, <1>5, <1>6 DEF QInv

\* The lock, a wait that ends, and a limit that is set leave calls and items alone.
LEMMA QuietStep ==
  ASSUME QInv, InMonitor', UNCHANGED <<queue, ENDED, call, arg, offered, added, taken>>,
         LIMIT' \in Nat, expired' \in [Threads -> BOOLEAN]
  PROVE  QInv'
<1>1. CallTypes' /\ Conserved'
  BY DEF QInv, CallTypes, Conserved
<1>2. \A u \in Threads : Pending(u)' => Pending(u) /\ arg'[u].n = arg[u].n
  BY DEF Pending
<1>3. ArgsInv'
  BY <1>2 DEF QInv, ArgsInv
<1>4. Accounted'
  BY <1>2, AccountedUnchanged
<1> QED
  BY <1>1, <1>3, <1>4 DEF QInv

-----------------------------------------------------------------------------
(* What the body of a method may come to: every method, in each of its     *)
(* branches, does one of these.                                            *)

GivesUp(t) ==
  ReturnNothing(t) /\ (call[t] \in Loops => call[t] # "enqueue_wait" /\ ~ValidCount(arg[t].n))

WaitsForRoom(t) ==
  WaitAt(t, "enqueue_wait") /\ Pending(t) /\ LIMIT # 0 /\ Len(queue) >= LIMIT

WaitsForItems(t) ==
  /\ \E p \in {"dequeue_wait", "timed_wait"} : WaitAt(t, p)
  /\ call[t] \in TakingPlaces
  /\ arg[t].n >= 1 /\ Len(queue) < arg[t].n /\ ~ENDED

ChangesTo(t, q2, tk, k) ==
  /\ Change(t, q2, tk, k)
  /\ Rearranged(queue, q2, tk, added, k)
  /\ call[t] \notin {"insert", "extract"} => InOrder(queue, q2, tk, added, k)
  /\ k = 0 \/ (Pending(t) /\ k = arg[t].n)

Changes(t) == \E q2, tk : \E k \in Nat : ChangesTo(t, q2, tk, k)

Outcome(t) ==
  GivesUp(t) \/ WaitsForRoom(t) \/ WaitsForItems(t) \/ Changes(t) \/ End(t)

LEMMA EnqueueOutcome ==
  ASSUME QInv, NEW t \in Threads, EnqueueLoop(t), call[t] \in {"enqueue", "enqueue_wait"}
  PROVE  Outcome(t)
<1>1. /\ added \in Nat /\ queue \in Seq(1 .. added) /\ Pending(t) /\ arg[t].n \in Nat
      /\ call[t] \notin {"insert", "extract"}
  BY DEF QInv, Conserved, ArgsInv, Pending, Adding
<1>2. CASE LIMIT # 0 /\ Len(queue) >= LIMIT
  BY <1>1, <1>2 DEF EnqueueLoop, Outcome, WaitsForRoom
<1>3. CASE ~(LIMIT # 0 /\ Len(queue) >= LIMIT)
  <2> DEFINE k == arg[t].n
             q2 == queue \o Numbered(added, k)
  <2>1. Change(t, q2, <<>>, k)
    BY <1>3 DEF EnqueueLoop, NewItems, Numbered
  <2>2. Rearranged(queue, q2, <<>>, added, k) /\ InOrder(queue, q2, <<>>, added, k)
    BY <1>1, EnqueueRearranges
  <2>3. ChangesTo(t, q2, <<>>, k)
    BY <1>1, <2>1, <2>2 DEF ChangesTo
  <2> QED
    BY <1>1, <2>3 DEF Outcome, Changes
<1> QED
  BY <1>2, <1>3

LEMMA InsertOutcome ==
  ASSUME QInv, NEW t \in Threads, Insert(t)
  PROVE  Outcome(t)
<1>1. /\ added \in Nat /\ queue \in Seq(1 .. added) /\ Len(queue) \in Nat
      /\ Pending(t) /\ arg[t].n \in Nat /\ arg[t].index \in Int /\ call[t] = "insert"
  BY LenProperties DEF QInv, Conserved, CallTypes, ArgsInv, Pending, Adding, Insert, In
<1>2. CASE ENDED
  BY <1>1, <1>2 DEF Insert, Outcome, GivesUp, Loops
<1>3. CASE ~ENDED
  <2> DEFINE k == arg[t].n
             i == InsertPosition(arg[t].index)
             q2 == SubSeq(queue, 1, i) \o Numbered(added, k) \o SubSeq(queue, i + 1, Len(queue))
  <2>1. Change(t, q2, <<>>, k)
    BY <1>3 DEF Insert, NewItems, Numbered
  <2>2. i \in 0 .. Len(queue)
    <3>1. CASE arg[t].index >= 0
      <4>1. arg[t].index \in Int /\ Len(queue) \in Int
        BY <1>1
      <4>2. Min({arg[t].index, Len(queue)})
              = IF arg[t].index <= Len(queue) THEN arg[t].index ELSE Len(queue)
        BY <4>1, MinOfTwo
      <4> QED
        BY <1>1, <3>1, <4>2 DEF InsertPosition
    <3>2. CASE ~(arg[t].index >= 0)
      <4>1. Max({arg[t].index + Len(queue), 0})
              = IF arg[t].index + Len(queue) >= 0 THEN arg[t].index + Len(queue) ELSE 0
        BY <1>1, MaxOfTwo
      <4> QED
        BY <1>1, <3>2, <4>1 DEF InsertPosition
    <3> QED
      BY <3>1, <3>2
  <2> HIDE DEF i
  <2>3. Rearranged(queue, q2, <<>>, added, k)
    BY <1>1, <2>2, InsertRearranges
  <2>4. ChangesTo(t, q2, <<>>, k)
    BY <1>1, <2>1, <2>3 DEF ChangesTo
  <2> QED
    BY <1>1, <2>4 DEF Outcome, Changes
<1> QED
  BY <1>2, <1>3

LEMMA TakeOutcome ==
  ASSUME QInv, NEW t \in Threads, NEW n \in Nat, Take(t, n)
  PROVE  Outcome(t)
<1>1. added \in Nat /\ queue \in Seq(1 .. added) /\ Len(queue) \in Nat
  BY LenProperties DEF QInv, Conserved
<1> DEFINE k == Min({n, Len(queue)})
           q2 == SubSeq(queue, k + 1, Len(queue))
           tk == SubSeq(queue, 1, k)
<1>2. k \in 0 .. Len(queue)
  BY <1>1, MinOfTwo
<1>3. Change(t, q2, tk, 0)
  BY DEF Take
<1> HIDE DEF k
<1>4. Rearranged(queue, q2, tk, added, 0) /\ InOrder(queue, q2, tk, added, 0)
  BY <1>1, <1>2, TakeRearranges
<1>5. ChangesTo(t, q2, tk, 0)
  BY <1>3, <1>4 DEF ChangesTo
<1> QED
  BY <1>5 DEF Outcome, Changes

LEMMA DequeueNbOutcome ==
  ASSUME QInv, NEW t \in Threads, NEW n \in Int, DequeueNbOf(t, n),
         call[t] \notin Loops \/ (n = arg[t].n /\ call[t] # "enqueue_wait")
  PROVE  Outcome(t)
<1>1. CASE ValidCount(n)
  BY <1>1, TakeOutcome DEF DequeueNbOf, ValidCount
<1>2. CASE ~ValidCount(n)
  BY <1>2 DEF DequeueNbOf, Outcome, GivesUp
<1> QED
  BY <1>1, <1>2

LEMMA DequeueOutcome ==
  ASSUME QInv, NEW t \in Threads, call[t] \in TakingPlaces, arg[t].n >= 1,
         DequeueLoop(t) \/ TimedLoop(t)
  PROVE  Outcome(t)
<1>1. arg[t].n \in Int /\ arg[t].n >= 1 /\ call[t] # "enqueue_wait" /\ ENDED \in BOOLEAN
  BY DEF QInv, CallTypes, TakingPlaces, Taking
<1>2. Len(queue) \in Nat
  BY LenProperties DEF QInv, Conserved
<1>3. CASE WaitAt(t, "dequeue_wait") /\ Len(queue) < arg[t].n /\ ~ENDED
  BY <1>1, <1>3 DEF Outcome, WaitsForItems
<1>4. CASE WaitAt(t, "timed_wait") /\ Len(queue) < arg[t].n /\ ~ENDED
  BY <1>1, <1>4 DEF Outcome, WaitsForItems
<1>5. CASE DequeueNbOf(t, arg[t].n)
  BY <1>1, <1>5, DequeueNbOutcome
<1>6. CASE Take(t, arg[t].n)
  BY <1>1, <1>6, TakeOutcome
<1> QED
  BY <1>1, <1>2, <1>3, <1>4, <1>5, <1>6 DEF DequeueLoop, TimedLoop

LEMMA ExtractOutcome ==
  ASSUME QInv, NEW t \in Threads, Extract(t)
  PROVE  Outcome(t)
<1> DEFINE n == arg[t].n
           i == arg[t].index
           start == IF i < 0 THEN i + Len(queue) ELSE i
<1>1. /\ added \in Nat /\ queue \in Seq(1 .. added) /\ Len(queue) \in Nat
      /\ n \in Int /\ i \in Int /\ call[t] = "extract" /\ call[t] \notin Loops
  BY LenProperties DEF QInv, Conserved, CallTypes, Extract, In, Loops
<1>2. CASE ReturnNothing(t)
  BY <1>1, <1>2 DEF Outcome, GivesUp
<1>3. CASE DequeueNbOf(t, n + start)
  BY <1>1, <1>3, DequeueNbOutcome
<1>4. CASE /\ ValidCount(n) /\ ~(start < 0)
           /\ Change(t, SubSeq(queue, 1, Min({start, Len(queue)}))
                          \o SubSeq(queue, start + n + 1, Len(queue)),
                     SubSeq(queue, start + 1, Min({start + n, Len(queue)})), 0)
  <2>1. n \in Nat /\ start \in Nat
    BY <1>1, <1>4 DEF ValidCount
  <2> HIDE DEF n, start
  <2>2. ChangesTo(t, SubSeq(queue, 1, Min({start, Len(queue)}))
                       \o SubSeq(queue, start + n + 1, Len(queue)),
                  SubSeq(queue, start + 1, Min({start + n, Len(queue)})), 0)
    BY <1>1, <1>4, <2>1, ExtractRearranges DEF ChangesTo
  <2> QED
    BY <2>2 DEF Outcome, Changes
<1>5. \/ ReturnNothing(t)
      \/ DequeueNbOf(t, n + start)
      \/ /\ ValidCount(n) /\ ~(start < 0)
         /\ Change(t, SubSeq(queue, 1, Min({start, Len(queue)}))
                        \o SubSeq(queue, start + n + 1, Len(queue)),
                   SubSeq(queue, start + 1, Min({start + n, Len(queue)})), 0)
  BY DEF Extract
<1> QED
  BY <1>2, <1>3, <1>4, <1>5

LEMMA BodyOutcome ==
  ASSUME QInv, NEW t \in Threads, Body(t)
  PROVE  mode[t] = "run" /\ call[t] # "none" /\ Outcome(t)
<1>1. mode[t] = "run" /\ call[t] # "none"
  BY DEF Body, Enqueue, EnqueueAgain, Insert, End, Dequeue, DequeueAgain, DequeueNb,
         DequeueTimed, DequeueTimedAgain, Extract, In
<1>2. ASSUME call[t] \notin Loops, ReturnNothing(t) PROVE Outcome(t)
  BY <1>2 DEF Outcome, GivesUp
<1>3. ASSUME Enqueue(t) PROVE Outcome(t)
  <2>1. CASE ENDED
    BY <1>2, <1>3, <2>1 DEF Enqueue, In, Loops
  <2>2. CASE ~ENDED
    BY <1>3, <2>2, EnqueueOutcome DEF Enqueue, In
  <2> QED
    BY <2>1, <2>2
<1>4. ASSUME EnqueueAgain(t) PROVE Outcome(t)
  BY <1>4, EnqueueOutcome DEF EnqueueAgain, In
<1>5. ASSUME Insert(t) PROVE Outcome(t)
  BY <1>5, InsertOutcome
<1>6. ASSUME End(t) PROVE Outcome(t)
  BY <1>6 DEF Outcome
<1>7. ASSUME Dequeue(t) PROVE Outcome(t)
  <2>1. CASE ValidCount(arg[t].n)
    BY <1>7, <2>1, DequeueOutcome DEF Dequeue, In, ValidCount, TakingPlaces, Taking
  <2>2. CASE ~ValidCount(arg[t].n)
    BY <1>2, <1>7, <2>2 DEF Dequeue, In, Loops
  <2> QED
    BY <2>1, <2>2
<1>8. ASSUME DequeueAgain(t) PROVE Outcome(t)
  BY <1>8, DequeueOutcome DEF DequeueAgain, In, QInv, ArgsInv, TakingPlaces, Taking
<1>9. ASSUME DequeueNb(t) PROVE Outcome(t)
  <2>1. arg[t].n \in Int /\ call[t] \notin Loops
    BY <1>9 DEF DequeueNb, In, Loops, QInv, CallTypes
  <2> QED
    BY <1>9, <2>1, DequeueNbOutcome DEF DequeueNb
<1>10. ASSUME DequeueTimed(t) PROVE Outcome(t)
  <2>1. CASE ValidCount(arg[t].n)
    BY <1>10, <2>1, DequeueOutcome DEF DequeueTimed, In, ValidCount, TakingPlaces, Taking
  <2>2. CASE ~ValidCount(arg[t].n)
    BY <1>2, <1>10, <2>2 DEF DequeueTimed, In, Loops
  <2> QED
    BY <2>1, <2>2
<1>11. ASSUME DequeueTimedAgain(t) PROVE Outcome(t)
  BY <1>11, DequeueOutcome DEF DequeueTimedAgain, In, QInv, ArgsInv, TakingPlaces, Taking
<1>12. ASSUME Extract(t) PROVE Outcome(t)
  BY <1>12, ExtractOutcome
<1> QED
  BY <1>1, <1>3, <1>4, <1>5, <1>6, <1>7, <1>8, <1>9, <1>10, <1>11, <1>12 DEF Body

-----------------------------------------------------------------------------
(* The invariant is inductive.                                             *)

LEMMA BodyQInv ==
  ASSUME QInv, NEW t \in Threads, Body(t)
  PROVE  QInv'
<1>1. Outcome(t)
  BY BodyOutcome
<1>2. CASE GivesUp(t)
  BY <1>2, ReturnNothingStep DEF GivesUp
<1>3. CASE WaitsForRoom(t)
  BY <1>3, WaitAtStep DEF WaitsForRoom, Loops
<1>4. CASE WaitsForItems(t)
  BY <1>4, WaitAtStep DEF WaitsForItems, Loops
<1>5. CASE Changes(t)
  BY <1>5, ChangeStep DEF Changes, ChangesTo
<1>6. CASE End(t)
  BY <1>6, EndStep
<1> QED
  BY <1>1, <1>2, <1>3, <1>4, <1>5, <1>6 DEF Outcome

LEMMA CallQInv ==
  ASSUME QInv, NEW t \in Threads, Call(t)
  PROVE  QInv'
<1>1. CASE EnterAdding(t)
  <2>1. PICK n \in Sizes :
          /\ offered + n <= MaxItems /\ offered' = offered + n
          /\ \/ Enter(t, "enqueue", n, 0)
             \/ \E i \in Indices : Enter(t, "insert", n, i)
    BY <1>1 DEF EnterAdding
  <2>2. n \in Nat /\ n \in Int /\ Indices \subseteq Int
    BY QueueAssumption
  <2>3. "enqueue" \in Places \ (Loops \cup {"none"}) /\ "insert" \in Places \ (Loops \cup {"none"})
    BY DEF Places, Adding, Loops
  <2>4. CASE Enter(t, "enqueue", n, 0)
    BY <2>1, <2>2, <2>3, <2>4, EnterStep DEF Adding
  <2>5. CASE \E i \in Indices : Enter(t, "insert", n, i)
    <3>1. PICK i \in Indices : Enter(t, "insert", n, i)
      BY <2>5
    <3>2. i \in Int
      BY <2>2
    <3> QED
      BY <2>1, <2>2, <2>3, <3>1, <3>2, EnterStep DEF Adding
  <2> QED
    BY <2>1, <2>4, <2>5
<1>2. CASE EnterTaking(t)
  <2>1. PICK n \in Counts :
          \/ \E m \in Taking \ {"extract"} : Enter(t, m, n, 0)
          \/ \E i \in Indices : Enter(t, "extract", n, i)
    BY <1>2 DEF EnterTaking
  <2>2. n \in Int /\ Indices \subseteq Int /\ UNCHANGED offered
    BY <1>2, QueueAssumption DEF EnterTaking
  <2>3. \A m \in Taking : m \in Places \ (Loops \cup {"none"}) /\ m \notin Adding
    BY DEF Places, Taking, Loops, Adding
  <2>4. \A m, i : m \in Taking /\ i \in Int /\ Enter(t, m, n, i) => QInv'
    BY <2>2, <2>3, EnterStep
  <2> QED
    BY <2>1, <2>2, <2>4 DEF Taking
<1>3. CASE EnterEnd(t)
  <2>1. "end" \in Places \ (Loops \cup {"none"}) /\ "end" \notin Adding
    BY DEF Places, Loops, Adding
  <2> QED
    BY <1>3, <2>1, EnterStep DEF EnterEnd
<1> QED
  BY <1>1, <1>2, <1>3 DEF Call

LEMMA StepQInv ==
  ASSUME QInv, NEW t \in Threads, Step(t)
  PROVE  QInv'
<1>1. CASE Call(t)
  BY <1>1, CallQInv
<1>2. CASE Body(t)
  BY <1>2, BodyQInv
<1>3. ASSUME NEW l \in Limits, SetLimit(t, l) PROVE QInv'
  <2>1. UNCHANGED <<holder, depth, mode, queue, ENDED, call, arg, expired, offered, added, taken>>
        /\ LIMIT' \in Nat
    BY <1>3, QueueAssumption DEF SetLimit, lockvars, history
  <2>2. InMonitor'
    BY <2>1 DEF QInv, InMonitor, M!TypeOK, M!HeldIsScoped
  <2> QED
    BY <2>1, <2>2, QuietStep DEF QInv, CallTypes
<1>4. CASE Expire(t)
  <2>1. InMonitor'
    BY <1>4, WakeKeepsMonitor DEF Expire, QInv
  <2> QED
    BY <1>4, <2>1, QuietStep DEF Expire, QInv, CallTypes, history
<1>5. CASE Spurious(t)
  <2>1. InMonitor'
    BY <1>5, WakeKeepsMonitor DEF Spurious, QInv
  <2> QED
    BY <1>5, <2>1, QuietStep DEF Spurious, QInv, CallTypes, history
<1>6. CASE Resume(t)
  <2>1. InMonitor'
    BY <1>6, ResumeKeepsMonitor DEF Resume, QInv
  <2> QED
    BY <1>6, <2>1, QuietStep DEF Resume, QInv, CallTypes, history
<1> QED
  BY <1>1, <1>2, <1>3, <1>4, <1>5, <1>6 DEF Step

LEMMA StutterQInv == QInv /\ UNCHANGED vars => QInv'
<1> SUFFICES ASSUME QInv, UNCHANGED vars PROVE QInv'
  OBVIOUS
<1>1. InMonitor'
  BY DEF vars, QInv, InMonitor, M!TypeOK, M!HeldIsScoped
<1> QED
  BY <1>1, QuietStep DEF vars, QInv, CallTypes

THEOREM SpecQInv == Spec => []QInv
<1>1. QInv /\ [Next]_vars => QInv'
  BY StepQInv, StutterQInv DEF Next
<1> QED
  BY InitQInv, <1>1, PTL DEF Spec

\* The variables keep their types; the queue never holds more than was offered.
THEOREM QueueTypeCorrect == Spec => []TypeOK
  BY SpecQInv, QInvTypes, PTL

\* insert(), extract() and all the rest, at any position and with any count:
\* every item is in one place and in one only.
THEOREM NoItemIsLost == Spec => []ItemsConserved
  BY SpecQInv, QInvItems, PTL

-----------------------------------------------------------------------------
(* Order, where insert() and extract() are not used.                       *)

OnlyEnds == \A t \in Threads : call[t] \notin {"insert", "extract"}

FifoInv == QInv /\ OnlyEnds /\ Fifo

LEMMA FifoStep ==
  ASSUME FifoInv, OnlyEnds', NEW t \in Threads, Step(t)
  PROVE  FifoInv'
<1>1. QInv /\ QInv' /\ Fifo
  BY StepQInv DEF FifoInv
<1>2. CASE UNCHANGED <<queue, added, taken>>
  BY <1>1, <1>2 DEF FifoInv, Fifo
<1>3. CASE Body(t)
  <2>1. Outcome(t)
    BY <1>1, <1>3, BodyOutcome
  <2>2. CASE Changes(t)
    <3>1. PICK q2, tk : \E k \in Nat : ChangesTo(t, q2, tk, k)
      BY <2>2 DEF Changes
    <3>2. PICK k \in Nat : ChangesTo(t, q2, tk, k)
      BY <3>1
    <3> DEFINE m == added
               new == Numbered(m, k)
               S == 1 .. m + k
    <3>3. /\ queue' = q2 /\ taken' = taken \o tk /\ added' = m + k
          /\ Rearranged(queue, q2, tk, m, k) /\ tk \o q2 = queue \o new
      BY <3>2 DEF ChangesTo, Change, FifoInv, OnlyEnds, InOrder
    <3>4. m \in Nat /\ queue \in Seq(1 .. m) /\ taken \in Seq(1 .. m)
      BY <1>1 DEF QInv, Conserved
    <3>5. queue \in Seq(S) /\ taken \in Seq(S)
      BY <3>4, Widen
    <3>6. q2 \in Seq(S) /\ tk \in Seq(S)
      BY <3>3 DEF Rearranged
    <3>7. new \in Seq(S) /\ Len(new) = k
      <4>1. m + k \in Nat /\ m + k <= m + k
        BY <3>4
      <4> QED
        BY <3>4, <4>1, NumberedItems
    <3>8. \A i \in 1 .. k : new[i] = m + i
      BY DEF Numbered
    <3> HIDE DEF S, new
    <3>9. (taken \o tk) \o q2 = taken \o (tk \o q2)
      BY <3>5, <3>6, ConcatAssociative
    <3>10. taken \o (queue \o new) = (taken \o queue) \o new
      BY <3>5, <3>7, ConcatAssociative
    <3>11. taken \o queue = [i \in 1 .. m |-> i]
      BY <1>1 DEF Fifo
    <3> DEFINE old == [i \in 1 .. m |-> i]
               all == [i \in 1 .. m + k |-> i]
    <3>12. /\ old \in Seq(S) /\ Len(old) = m
           /\ all \in Seq(S) /\ Len(all) = m + k
      <4>1. old \in [1 .. m -> S] /\ all \in [1 .. m + k -> S] /\ m + k \in Nat
        BY <3>4 DEF S
      <4>2. old \in Seq(S) /\ all \in Seq(S)
        BY <3>4, <4>1, SeqDef
      <4>3. DOMAIN old = 1 .. m /\ DOMAIN all = 1 .. m + k
        OBVIOUS
      <4> HIDE DEF old, all
      <4> QED
        BY <3>4, <4>1, <4>2, <4>3, LenProperties
    <3>13. \A i \in 1 .. m + k : all[i] = i
      OBVIOUS
    <3>14. \A i \in 1 .. m : old[i] = i
      OBVIOUS
    <3> HIDE DEF old, all
    <3>15. /\ old \o new \in Seq(S) /\ Len(old \o new) = m + k
           /\ \A i \in 1 .. m + k : (old \o new)[i] = IF i <= m THEN old[i] ELSE new[i - m]
      <4>1. /\ old \o new \in Seq(S) /\ Len(old \o new) = Len(old) + Len(new)
            /\ \A i \in 1 .. Len(old) + Len(new) :
                 (old \o new)[i] = IF i <= Len(old) THEN old[i] ELSE new[i - Len(old)]
        BY <3>7, <3>12, ConcatProperties
      <4> QED
        BY <3>7, <3>12, <4>1
    <3>16. \A i \in 1 .. m + k : (old \o new)[i] = all[i]
      <4> SUFFICES ASSUME NEW i \in 1 .. m + k PROVE (old \o new)[i] = i
        BY <3>13
      <4>1. CASE i <= m
        BY <3>4, <3>14, <3>15, <4>1
      <4>2. CASE ~(i <= m)
        <5>1. i - m \in 1 .. k /\ m + (i - m) = i
          BY <3>4, <4>2
        <5>2. new[i - m] = i
          BY <3>8, <5>1
        <5> QED
          BY <3>15, <4>2, <5>2
      <4> QED
        BY <4>1, <4>2
    <3>17. old \o new = all
      BY <3>12, <3>15, <3>16, SeqEqual
    <3>18. taken' \o queue' = all
      BY <3>3, <3>9, <3>10, <3>11, <3>17 DEF old
    <3>19. Fifo'
      BY <3>3, <3>18 DEF Fifo, all
    <3> QED
      BY <1>1, <3>19 DEF FifoInv
  <2> QED
    BY <1>2, <2>1, <2>2
    DEF Outcome, GivesUp, ReturnNothing, WaitsForRoom, WaitsForItems, WaitAt, End, history
<1> QED
  BY <1>2, <1>3
  DEF Step, Call, EnterAdding, EnterTaking, EnterEnd, Enter, SetLimit, Expire, Spurious,
      Resume, history

LEMMA InitFifo == Init => FifoInv
<1> SUFFICES ASSUME Init PROVE FifoInv
  OBVIOUS
<1>1. OnlyEnds
  BY DEF Init, OnlyEnds
<1>2. <<>> \o <<>> = <<>>
  BY EmptySeq, ConcatEmptySeq
<1>3. [i \in 1 .. 0 |-> i] = <<>>
  <2> DEFINE f == [i \in 1 .. 0 |-> i]
  <2>1. f \in [1 .. 0 -> Int] /\ DOMAIN f = 1 .. 0
    OBVIOUS
  <2>2. f \in Seq(Int) /\ Len(f) = 0
    BY <2>1, SeqDef, LenProperties
  <2> QED
    BY <2>2, EmptySeq
<1> QED
  BY InitQInv, <1>1, <1>2, <1>3 DEF Init, FifoInv, Fifo

\* "thread-safe FIFO queues" (Queue.pm): whoever adds, takes and waits, items
\* come off in the order in which they were put on.
THEOREM FirstInFirstOut ==
  ASSUME Methods \cap {"insert", "extract"} = {}
  PROVE  Spec => []Fifo
<1>2. FifoInv /\ [Next]_vars => FifoInv'
  <2>1. ASSUME FifoInv, NEW t \in Threads, Step(t) PROVE FifoInv'
    <3>1. OnlyEnds'
      BY <2>1
      DEF FifoInv, OnlyEnds, QInv, CallTypes, Step, Call, EnterAdding, EnterTaking, EnterEnd,
          Enter, Body, Enqueue, EnqueueAgain, EnqueueLoop, Insert, End, Dequeue, DequeueAgain,
          DequeueLoop, DequeueNb, DequeueNbOf, DequeueTimed, DequeueTimedAgain, TimedLoop,
          Extract, Take, Change, WaitAt, ReturnNothing, Return, SetLimit, Expire, Spurious, Resume
    <3> QED
      BY <2>1, <3>1, FifoStep
  <2>2. ASSUME FifoInv, UNCHANGED vars PROVE FifoInv'
    BY <2>2, StutterQInv DEF FifoInv, OnlyEnds, Fifo, vars
  <2> QED
    BY <2>1, <2>2 DEF Next
<1>3. FifoInv => Fifo
  BY DEF FifoInv
<1> QED
  BY InitFifo, <1>2, <1>3, PTL DEF Spec

-----------------------------------------------------------------------------
(* Nobody who could go on is left asleep.                                  *)

LEMMA CallEnters ==
  ASSUME NEW t \in Threads, Call(t)
  PROVE  \E m \in Adding \cup Taking \cup {"end"} :
           /\ \E n, i : Enter(t, m, n, i)
           /\ m \in Adding \cup {"end"} => t \in Producers
           /\ m \in Taking => t \in Consumers
<1>1. CASE EnterAdding(t)
  BY <1>1 DEF EnterAdding, Adding, Taking
<1>2. CASE EnterTaking(t)
  BY <1>2 DEF EnterTaking, Adding, Taking
<1>3. CASE EnterEnd(t)
  BY <1>3 DEF EnterEnd, Taking
<1> QED
  BY <1>1, <1>2, <1>3 DEF Call

\* A change is followed by a signal: whoever slept, somebody is awake.
LEMMA SignalledIsWoken ==
  ASSUME QInv, NEW t \in Threads, mode[t] = "run", M!Signal,
         \A u \in Threads \ {t} : call'[u] = call[u]
  PROVE  SomeoneAwake' \/ \A u \in Threads : mode'[u] # "waiting"
<1>1. CASE \A u \in Threads : mode[u] # "waiting"
  BY <1>1, SignalWakes DEF QInv
<1>2. CASE \E u \in Threads : mode[u] = "waiting" /\ mode'[u] = "resuming"
  <2>1. PICK u \in Threads : mode[u] = "waiting" /\ mode'[u] = "resuming"
    BY <1>2
  <2>2. call'[u] \in Loops /\ mode'[u] # "waiting"
    BY <2>1 DEF QInv, InMonitor
  <2> QED
    BY <2>2 DEF SomeoneAwake
<1> QED
  BY <1>1, <1>2, SignalWakes DEF QInv

LEMMA SignalledIsNotForgotten ==
  ASSUME SomeoneAwake \/ \A u \in Threads : mode[u] # "waiting"
  PROVE  NobodyIsForgotten
  BY DEF NobodyIsForgotten, DequeueIsWoken, EnqueueIsWoken

\* A queue without a limit, from which single items are taken.
Unlimited ==
  /\ LIMIT = 0
  /\ \A t \in Threads :
       /\ call[t] # "enqueue_wait"
       /\ call[t] \in Taking \cup {"dequeue_wait", "timed_wait"} => arg[t].n <= 1

UnlimitedInv == QInv /\ Unlimited /\ NobodyIsForgotten

LEMMA UnlimitedStep ==
  ASSUME UnlimitedInv, LIMIT' = 0, NEW t \in Threads, Step(t),
         \A u \in Threads : call'[u] \in Taking => arg'[u].n <= 1
  PROVE  UnlimitedInv'
<1> USE DEF UnlimitedInv
<1>1. QInv'
  BY StepQInv
<1>2. \A u \in Threads : /\ arg[u].n \in Int /\ call[u] \in Places
                         /\ call[u] \in {"dequeue_wait", "timed_wait"} => arg[u].n = 1
  BY DEF QInv, CallTypes, ArgsInv, Unlimited
<1>3. ASSUME UNCHANGED <<queue, LIMIT, ENDED, call, arg>>,
             \A u \in Threads : mode'[u] = "waiting" => mode[u] = "waiting",
             SomeoneAwake => SomeoneAwake'
      PROVE  UnlimitedInv'
  BY <1>1, <1>3
  DEF Unlimited, NobodyIsForgotten, DequeueIsWoken, EnqueueIsWoken, HasItems, HasRoom
<1>4. CASE Call(t)
  <2>1. PICK m \in Adding \cup Taking \cup {"end"} : \E n, i : Enter(t, m, n, i)
    BY <1>4, CallEnters
  <2>2. /\ call[t] = "none" /\ mode[t] = "run"
        /\ call'[t] = m
        /\ \A u \in Threads \ {t} : call'[u] = call[u] /\ arg'[u] = arg[u]
        /\ UNCHANGED <<mode, queue, LIMIT, ENDED>>
    BY <2>1 DEF Enter, M!Acquire, QInv, CallTypes
  <2>3. Unlimited'
    BY <2>1, <2>2 DEF Unlimited, Adding, Taking
  <2>4. \A u \in Threads : /\ HasItems(u)' /\ mode'[u] = "waiting" => HasItems(u) /\ mode[u] = "waiting"
                           /\ HasRoom(u)' /\ mode'[u] = "waiting" => HasRoom(u) /\ mode[u] = "waiting"
    BY <2>1, <2>2 DEF HasItems, HasRoom, Adding, Taking
  <2>5. SomeoneAwake => SomeoneAwake'
    BY <2>2 DEF SomeoneAwake, Loops
  <2>6. NobodyIsForgotten'
    BY <2>4, <2>5 DEF NobodyIsForgotten, DequeueIsWoken, EnqueueIsWoken
  <2> QED
    BY <1>1, <2>3, <2>6
<1>5. CASE Body(t)
  <2>1. mode[t] = "run" /\ Outcome(t)
    BY <1>5, BodyOutcome
  <2>2. ASSUME Return(t) PROVE Unlimited'
    <3>1. /\ call'[t] = "none"
          /\ \A u \in Threads \ {t} : call'[u] = call[u] /\ arg'[u] = arg[u]
      BY <2>2 DEF Return, QInv, CallTypes
    <3> QED
      BY <3>1 DEF Unlimited, Taking
  <2>3. ASSUME Return(t), M!Signal PROVE UnlimitedInv'
    <3>1. \A u \in Threads \ {t} : call'[u] = call[u]
      BY <2>3 DEF Return, QInv, CallTypes
    <3>2. NobodyIsForgotten'
      BY <2>1, <2>3, <3>1, SignalledIsWoken, SignalledIsNotForgotten DEF NobodyIsForgotten,
         DequeueIsWoken, EnqueueIsWoken
    <3> QED
      BY <1>1, <2>2, <2>3, <3>2
  <2>4. CASE GivesUp(t)
    <3>1. Return(t) /\ UNCHANGED <<mode, queue, LIMIT, ENDED>>
      BY <2>4 DEF GivesUp, ReturnNothing
    <3>2. call[t] \notin Loops
      <4>1. \A u \in Threads : call[u] \in {"dequeue_wait", "timed_wait"} => ValidCount(arg[u].n)
        BY <1>2 DEF ValidCount, Unlimited
      <4> QED
        BY <2>4, <4>1 DEF GivesUp, Loops
    <3>3. /\ call'[t] = "none"
          /\ \A u \in Threads \ {t} : call'[u] = call[u] /\ arg'[u] = arg[u]
      BY <3>1 DEF Return, QInv, CallTypes
    <3>4. \A u \in Threads : /\ HasItems(u)' => HasItems(u)
                             /\ HasRoom(u)' => HasRoom(u)
      BY <3>1, <3>3 DEF HasItems, HasRoom
    <3>5. SomeoneAwake => SomeoneAwake'
      BY <3>1, <3>2, <3>3 DEF SomeoneAwake
    <3>6. NobodyIsForgotten'
      BY <3>1, <3>4, <3>5 DEF NobodyIsForgotten, DequeueIsWoken, EnqueueIsWoken
    <3> QED
      BY <1>1, <2>2, <3>1, <3>6
  <2>5. CASE WaitsForRoom(t)
    BY <2>5 DEF WaitsForRoom, Unlimited
  <2>6. CASE WaitsForItems(t)
    <3>1. PICK p \in {"dequeue_wait", "timed_wait"} : WaitAt(t, p)
      BY <2>6 DEF WaitsForItems
    <3>2. /\ UNCHANGED <<queue, LIMIT, ENDED, arg>>
          /\ call'[t] = p
          /\ \A u \in Threads \ {t} : call'[u] = call[u]
      BY <3>1 DEF WaitAt, QInv, CallTypes
    <3>3. call[t] \in Taking \cup {"dequeue_wait", "timed_wait"} /\ arg[t].n <= 1
      BY <2>6 DEF WaitsForItems, TakingPlaces, Unlimited
    <3>4. Unlimited'
      BY <3>2, <3>3 DEF Unlimited, Taking
    <3>5. ~ENDED' /\ Len(queue') = 0
      <4>1. arg[t].n \in Int /\ arg[t].n >= 1 /\ Len(queue) < arg[t].n /\ Len(queue) \in Nat
        BY <1>2, <2>6, LenProperties DEF WaitsForItems, QInv, Conserved
      <4> QED
        BY <2>6, <3>2, <3>3, <4>1 DEF WaitsForItems
    <3>6. \A u \in Threads : call'[u] \in {"dequeue_wait", "timed_wait"} => arg'[u].n >= 1
      BY <1>1 DEF QInv, ArgsInv
    <3>7. \A u \in Threads : ~HasItems(u)' /\ ~HasRoom(u)'
      <4>1. \A u \in Threads : arg'[u].n \in Int
        BY <1>1 DEF QInv, CallTypes
      <4> QED
        BY <3>4, <3>5, <3>6, <4>1 DEF HasItems, HasRoom, Unlimited
    <3>8. NobodyIsForgotten'
      BY <3>7 DEF NobodyIsForgotten, DequeueIsWoken, EnqueueIsWoken
    <3> QED
      BY <1>1, <3>4, <3>8
  <2>7. CASE Changes(t)
    BY <2>3, <2>7 DEF Changes, ChangesTo, Change
  <2>8. CASE End(t)
    BY <2>3, <2>8 DEF End
  <2> QED
    BY <2>1, <2>4, <2>5, <2>6, <2>7, <2>8 DEF Outcome
<1>6. ASSUME NEW l \in Limits, SetLimit(t, l) PROVE UnlimitedInv'
  <2>1. UNCHANGED <<queue, LIMIT, ENDED, call, arg, mode>>
    BY <1>6 DEF SetLimit, lockvars, Unlimited
  <2> QED
    BY <1>3, <2>1 DEF SomeoneAwake
<1>7. ASSUME NEW w \in Threads, M!Wake({w}), UNCHANGED <<queue, LIMIT, ENDED, call, arg>>
      PROVE  UnlimitedInv'
  <2>1. \A u \in Threads : mode'[u] = "waiting" => mode[u] = "waiting"
    BY <1>7 DEF M!Wake, QInv, InMonitor, M!TypeOK
  <2> QED
    BY <1>3, <1>7, <2>1 DEF SomeoneAwake
<1>8. CASE Resume(t)
  <2>1. \A u \in Threads : mode'[u] = "waiting" => mode[u] = "waiting"
    BY <1>8 DEF Resume, M!Resume, QInv, InMonitor, M!TypeOK
  <2> QED
    BY <1>3, <1>8, <2>1 DEF SomeoneAwake, Resume
<1> QED
  BY <1>4, <1>5, <1>6, <1>7, <1>8 DEF Step, Expire, Spurious

\* A queue with one producer and one consumer.
AddingPlaces == Adding \cup {"enqueue_wait", "end"}

Duo(p, c) ==
  \A t \in Threads :
    /\ call[t] \in AddingPlaces => t = p
    /\ call[t] \in TakingPlaces => t = c

NobodyCouldGoOn == \A t \in Threads : mode[t] = "waiting" => ~HasRoom(t) /\ ~HasItems(t)

DuoInv(p, c) == QInv /\ Duo(p, c) /\ NobodyCouldGoOn

LEMMA DuoStep ==
  ASSUME NEW p, NEW c, DuoInv(p, c), NEW t \in Threads, Step(t),
         t \in Producers => t = p, t \in Consumers => t = c
  PROVE  DuoInv(p, c)'
<1> USE DEF DuoInv
<1>1. QInv'
  BY StepQInv
<1>2. \A u \in Threads : /\ call[u] \in Places
                         /\ mode[u] # "run" => call[u] \in Loops
                         /\ call[u] # "none" => u \in {p, c}
  BY DEF QInv, CallTypes, InMonitor, Duo, Places, Adding, Taking, Loops, AddingPlaces, TakingPlaces
<1>3. ASSUME UNCHANGED <<queue, LIMIT, ENDED, call, arg>>,
             \A u \in Threads : mode'[u] = "waiting" => mode[u] = "waiting"
      PROVE  DuoInv(p, c)'
  BY <1>1, <1>3 DEF Duo, NobodyCouldGoOn, HasItems, HasRoom
<1>4. CASE Call(t)
  <2>1. PICK m \in Adding \cup Taking \cup {"end"} :
          /\ \E n, i : Enter(t, m, n, i)
          /\ m \in Adding \cup {"end"} => t \in Producers
          /\ m \in Taking => t \in Consumers
    BY <1>4, CallEnters
  <2>2. /\ call[t] = "none" /\ mode[t] = "run"
        /\ call'[t] = m
        /\ \A u \in Threads \ {t} : call'[u] = call[u] /\ arg'[u] = arg[u]
        /\ UNCHANGED <<mode, queue, LIMIT, ENDED>>
    BY <2>1 DEF Enter, M!Acquire, QInv, CallTypes
  <2>3. Duo(p, c)'
    BY <2>1, <2>2 DEF Duo, AddingPlaces, TakingPlaces, Adding, Taking
  <2>4. NobodyCouldGoOn'
    BY <2>2 DEF NobodyCouldGoOn, HasItems, HasRoom
  <2> QED
    BY <1>1, <2>3, <2>4
<1>5. CASE Body(t)
  <2>1. mode[t] = "run" /\ call[t] # "none" /\ Outcome(t)
    BY <1>5, BodyOutcome
  <2>2. ASSUME Return(t)
        PROVE  /\ Duo(p, c)'
               /\ \A u \in Threads \ {t} : call'[u] = call[u] /\ arg'[u] = arg[u]
    <3>1. /\ call'[t] = "none"
          /\ \A u \in Threads \ {t} : call'[u] = call[u] /\ arg'[u] = arg[u]
      BY <2>2 DEF Return, QInv, CallTypes
    <3> QED
      BY <3>1 DEF Duo, AddingPlaces, TakingPlaces, Adding, Taking
  <2>3. ASSUME Return(t), M!Signal PROVE DuoInv(p, c)'
    <3>1. \A u \in Threads : mode'[u] # "waiting"
      <4>1. SUFFICES ASSUME NEW u \in Threads, mode'[u] = "waiting" PROVE FALSE
        OBVIOUS
      <4>2. mode[u] = "waiting"
        BY <2>3, <4>1, SignalWakes DEF QInv
      <4>3. PICK w \in Threads : mode[w] = "waiting" /\ mode'[w] = "resuming"
        BY <2>3, <4>2, SignalWakes DEF QInv
      <4>4. u # w /\ u # t /\ w # t
        BY <2>1, <4>1, <4>2, <4>3
      <4>5. u \in {p, c} /\ w \in {p, c} /\ t \in {p, c}
        BY <1>2, <2>1, <4>2, <4>3 DEF Loops
      <4> QED
        BY <4>4, <4>5
    <3> QED
      BY <1>1, <2>2, <2>3, <3>1 DEF NobodyCouldGoOn
  <2>4. CASE GivesUp(t)
    <3>1. Return(t) /\ UNCHANGED <<mode, queue, LIMIT, ENDED>>
      BY <2>4 DEF GivesUp, ReturnNothing
    <3>2. NobodyCouldGoOn'
      BY <2>1, <2>2, <3>1 DEF NobodyCouldGoOn, HasItems, HasRoom
    <3> QED
      BY <1>1, <2>2, <3>1, <3>2
  <2>5. ASSUME NEW place \in Loops, WaitAt(t, place), ~HasRoom(t)', ~HasItems(t)',
               place = "enqueue_wait" <=> call[t] \in AddingPlaces
        PROVE  DuoInv(p, c)'
    <3>1. /\ UNCHANGED <<queue, LIMIT, ENDED, arg>>
          /\ call'[t] = place
          /\ \A u \in Threads \ {t} : call'[u] = call[u]
          /\ \A u \in Threads \ {t} : mode'[u] = mode[u]
      BY <2>5 DEF WaitAt, M!Wait, QInv, CallTypes, InMonitor, M!TypeOK
    <3>2. call[t] \in AddingPlaces \/ call[t] \in TakingPlaces
      BY <1>2, <2>1 DEF Places, Adding, Taking, Loops, AddingPlaces, TakingPlaces
    <3>3. Duo(p, c)'
      BY <2>5, <3>1, <3>2 DEF Duo, AddingPlaces, TakingPlaces, Adding, Taking, Loops
    <3>4. NobodyCouldGoOn'
      BY <2>5, <3>1 DEF NobodyCouldGoOn, HasItems, HasRoom
    <3> QED
      BY <1>1, <3>3, <3>4
  <2>6. CASE WaitsForRoom(t)
    <3>1. /\ WaitAt(t, "enqueue_wait") /\ LIMIT # 0 /\ Len(queue) >= LIMIT
          /\ call[t] \in AddingPlaces
      BY <2>6 DEF WaitsForRoom, Pending, AddingPlaces
    <3>2. UNCHANGED <<queue, LIMIT>> /\ call'[t] = "enqueue_wait"
      BY <3>1 DEF WaitAt, QInv, CallTypes
    <3>3. Len(queue) \in Nat /\ LIMIT \in Nat
      BY LenProperties DEF QInv, CallTypes, Conserved
    <3>4. ~HasRoom(t)' /\ ~HasItems(t)'
      BY <3>1, <3>2, <3>3 DEF HasRoom, HasItems
    <3> QED
      BY <2>5, <3>1, <3>4 DEF Loops
  <2>7. CASE WaitsForItems(t)
    <3>1. PICK place \in {"dequeue_wait", "timed_wait"} : WaitAt(t, place)
      BY <2>7 DEF WaitsForItems
    <3>2. UNCHANGED <<queue, ENDED, arg>> /\ call'[t] = place
      BY <3>1 DEF WaitAt, QInv, CallTypes
    <3>3. arg[t].n \in Int /\ Len(queue) \in Nat /\ Len(queue) < arg[t].n /\ ~ENDED
      BY <2>7, LenProperties DEF WaitsForItems, QInv, CallTypes, Conserved
    <3>4. ~HasRoom(t)' /\ ~HasItems(t)'
      BY <3>2, <3>3 DEF HasRoom, HasItems
    <3>5. call[t] \notin AddingPlaces
      BY <2>7 DEF WaitsForItems, AddingPlaces, TakingPlaces, Adding, Taking
    <3> QED
      BY <2>5, <3>1, <3>4, <3>5 DEF Loops
  <2>8. CASE Changes(t)
    BY <2>3, <2>8 DEF Changes, ChangesTo, Change
  <2>9. CASE End(t)
    BY <2>3, <2>9 DEF End
  <2> QED
    BY <2>1, <2>4, <2>6, <2>7, <2>8, <2>9 DEF Outcome
<1>6. ASSUME NEW l \in Limits, SetLimit(t, l) PROVE DuoInv(p, c)'
  <2>1. /\ UNCHANGED <<queue, ENDED, call, arg, mode>>
        /\ t = p /\ call[t] = "none"
    BY <1>6 DEF SetLimit, lockvars
  <2>2. \A u \in Threads : call[u] # "enqueue_wait"
    BY <2>1 DEF Duo, AddingPlaces
  <2> QED
    BY <1>1, <2>1, <2>2 DEF Duo, NobodyCouldGoOn, HasItems, HasRoom
<1>7. ASSUME NEW w \in Threads, M!Wake({w}), UNCHANGED <<queue, LIMIT, ENDED, call, arg>>
      PROVE  DuoInv(p, c)'
  <2>1. \A u \in Threads : mode'[u] = "waiting" => mode[u] = "waiting"
    BY <1>7 DEF M!Wake, QInv, InMonitor, M!TypeOK
  <2> QED
    BY <1>3, <1>7, <2>1
<1>8. CASE Resume(t)
  <2>1. \A u \in Threads : mode'[u] = "waiting" => mode[u] = "waiting"
    BY <1>8 DEF Resume, M!Resume, QInv, InMonitor, M!TypeOK
  <2> QED
    BY <1>3, <1>8, <2>1 DEF Resume
<1> QED
  BY <1>4, <1>5, <1>6, <1>7, <1>8 DEF Step, Expire, Spurious

\* With one producer and one consumer, under any limit, also one that is
\* raised or lowered while the other waits: nobody sleeps who could go on.
THEOREM PairIsNotForgotten ==
  ASSUME NEW p, NEW c, Producers \subseteq {p}, Consumers \subseteq {c}
  PROVE  Spec => []NobodyIsForgotten
<1>1. Init => DuoInv(p, c)
  BY InitQInv
  DEF Init, M!Init, DuoInv, Duo, NobodyCouldGoOn, AddingPlaces, TakingPlaces, Adding, Taking
<1>2. DuoInv(p, c) /\ [Next]_vars => DuoInv(p, c)'
  <2>1. ASSUME DuoInv(p, c), NEW t \in Threads, Step(t) PROVE DuoInv(p, c)'
    BY <2>1, DuoStep
  <2>2. ASSUME DuoInv(p, c), UNCHANGED vars PROVE DuoInv(p, c)'
    BY <2>2, StutterQInv DEF DuoInv, Duo, NobodyCouldGoOn, HasItems, HasRoom, vars
  <2> QED
    BY <2>1, <2>2 DEF Next
<1>3. DuoInv(p, c) => NobodyIsForgotten
  BY DEF DuoInv, NobodyCouldGoOn, NobodyIsForgotten, DequeueIsWoken, EnqueueIsWoken
<1> QED
  BY <1>1, <1>2, <1>3, PTL DEF Spec

LEMMA OwnCallOnly ==
  ASSUME QInv, NEW t \in Threads, Step(t), NEW u \in Threads \ {t}
  PROVE  call'[u] = call[u] /\ arg'[u] = arg[u]
<1>1. CASE Call(t)
  <2>1. PICK m : \E n, i : Enter(t, m, n, i)
    BY <1>1, CallEnters
  <2> QED
    BY <2>1 DEF Enter, QInv, CallTypes
<1>2. CASE Body(t)
  <2>1. Return(t) \/ \E p : WaitAt(t, p)
    BY <1>2, BodyOutcome
    DEF Outcome, GivesUp, ReturnNothing, WaitsForRoom, WaitsForItems, Changes, ChangesTo,
        Change, End
  <2> QED
    BY <2>1 DEF Return, WaitAt, QInv, CallTypes
<1> QED
  BY <1>1, <1>2 DEF Step, SetLimit, Expire, Spurious, Resume

\* With any number of threads, if there is no limit and items are taken one
\* by one: each that is woken passes the signal on.
THEOREM CrowdIsNotForgotten ==
  ASSUME StartLimits \subseteq {0}, Limits \subseteq {0}, \A n \in Counts : n <= 1
  PROVE  Spec => []NobodyIsForgotten
<1>1. Init => UnlimitedInv
  BY InitQInv
  DEF Init, M!Init, UnlimitedInv, Unlimited, Taking, NobodyIsForgotten, DequeueIsWoken,
      EnqueueIsWoken
<1>2. UnlimitedInv /\ [Next]_vars => UnlimitedInv'
  <2>1. ASSUME UnlimitedInv, NEW t \in Threads, Step(t) PROVE UnlimitedInv'
    <3>1. QInv
      BY <2>1 DEF UnlimitedInv
    <3>2. LIMIT' = 0 /\ (call'[t] \in Taking => arg'[t].n <= 1)
      <4>1. CASE Call(t)
        <5>1. CASE EnterAdding(t) \/ EnterEnd(t)
          BY <2>1, <3>1, <5>1
          DEF EnterAdding, EnterEnd, Enter, Taking, UnlimitedInv, Unlimited, QInv, CallTypes
        <5>2. CASE EnterTaking(t)
          <6>1. PICK n \in Counts : \E m, i : Enter(t, m, n, i)
            BY <5>2 DEF EnterTaking
          <6> QED
            BY <2>1, <3>1, <6>1 DEF Enter, UnlimitedInv, Unlimited, QInv, CallTypes
        <5> QED
          BY <4>1, <5>1, <5>2 DEF Call
      <4>2. CASE Body(t)
        <5>1. CASE Return(t) /\ UNCHANGED LIMIT
          BY <2>1, <3>1, <5>1 DEF Return, Taking, UnlimitedInv, Unlimited, QInv, CallTypes
        <5>2. CASE \E p \in Loops : WaitAt(t, p)
          BY <2>1, <3>1, <5>2
          DEF WaitAt, Taking, Loops, UnlimitedInv, Unlimited, QInv, CallTypes
        <5> QED
          BY <3>1, <4>2, <5>1, <5>2, BodyOutcome
          DEF Outcome, GivesUp, ReturnNothing, WaitsForRoom, WaitsForItems, Changes, ChangesTo,
              Change, End, Loops
      <4>3. CASE UNCHANGED <<call, arg>> /\ LIMIT' = 0
        BY <2>1, <4>3 DEF UnlimitedInv, Unlimited
      <4>4. ASSUME NEW l \in Limits, SetLimit(t, l) PROVE UNCHANGED <<call, arg>> /\ LIMIT' = 0
        BY <4>4 DEF SetLimit
      <4>5. CASE Expire(t) \/ Spurious(t) \/ Resume(t)
        BY <2>1, <4>3, <4>5 DEF Expire, Spurious, Resume, UnlimitedInv, Unlimited
      <4> QED
        BY <2>1, <4>1, <4>2, <4>3, <4>4, <4>5 DEF Step
    <3>3. \A u \in Threads : call'[u] \in Taking => arg'[u].n <= 1
      BY <2>1, <3>1, <3>2, OwnCallOnly DEF UnlimitedInv, Unlimited
    <3> QED
      BY <2>1, <3>2, <3>3, UnlimitedStep
  <2>2. ASSUME UnlimitedInv, UNCHANGED vars PROVE UnlimitedInv'
    BY <2>2, StutterQInv
    DEF UnlimitedInv, Unlimited, NobodyIsForgotten, DequeueIsWoken, EnqueueIsWoken, HasItems,
        HasRoom, SomeoneAwake, vars
  <2> QED
    BY <2>1, <2>2 DEF Next
<1>3. UnlimitedInv => NobodyIsForgotten
  BY DEF UnlimitedInv
<1> QED
  BY <1>1, <1>2, <1>3, PTL DEF Spec

-----------------------------------------------------------------------------
(* Thread::Semaphore: it never gives out units it does not have, and       *)
(* nobody waits for units that are there.                                  *)

\* What the methods need to know of the monitor, as InMonitor of the queue.
SemInMonitor ==
  /\ SemLock!TypeOK
  /\ SemLock!HeldIsScoped
  /\ \A t \in SemThreads : sem_mode[t] # "run" => sem_depth[t] > 0

SemInv == SemInMonitor /\ SemTypeOK /\ NobodyWaitsInVain /\ NeverOverdrawn

LEMMA SemInitInv == SemInit => SemInv
  BY SemaphoreAssumption
  DEF SemInit, SemInv, SemInMonitor, SemTypeOK, NobodyWaitsInVain, NeverOverdrawn,
      SemLock!Init, SemLock!TypeOK, SemLock!HeldIsScoped

-----------------------------------------------------------------------------
(* The steps of the monitor, as they occur in the methods.                 *)

LEMMA SemAcquireStep ==
  ASSUME SemInMonitor, NEW t \in SemThreads, SemLock!Acquire(t), sem_mode' = sem_mode
  PROVE  SemInMonitor'
  BY SemaphoreAssumption DEF SemInMonitor, SemLock!Acquire, SemLock!TypeOK, SemLock!HeldIsScoped

\* The lock is released and some waiting threads, perhaps none, are told.
LEMMA SemReleaseStep ==
  ASSUME SemInMonitor, NEW t \in SemThreads, SemLock!Release(t),
         sem_mode' \in [SemThreads -> {"run", "waiting", "resuming"}],
         \A u \in SemThreads : sem_mode'[u] = "run" <=> sem_mode[u] = "run"
  PROVE  SemInMonitor'
<1>1. sem_depth[t] \in Nat \ {0} /\ t # NoHolder
  BY SemaphoreAssumption DEF SemInMonitor, SemLock!Release, SemLock!TypeOK, SemLock!HeldIsScoped
<1>2. /\ sem_depth' \in [SemThreads -> Nat]
      /\ sem_depth'[t] = sem_depth[t] - 1
      /\ \A u \in SemThreads \ {t} : sem_depth'[u] = sem_depth[u]
  BY <1>1 DEF SemInMonitor, SemLock!Release, SemLock!TypeOK
<1>3. sem_holder' \in {NoHolder, t} /\ (sem_holder' = t => sem_depth'[t] > 0 /\ sem_mode'[t] = "run")
  BY <1>1, <1>2 DEF SemLock!Release
<1>4. \A u \in SemThreads : sem_mode'[u] # "run" => sem_depth'[u] > 0
  BY <1>2 DEF SemInMonitor, SemLock!Release
<1> QED
  BY <1>1, <1>2, <1>3, <1>4 DEF SemInMonitor, SemLock!TypeOK, SemLock!HeldIsScoped

LEMMA SemWaitStep ==
  ASSUME SemInMonitor, NEW t \in SemThreads, SemLock!Wait(t)
  PROVE  SemInMonitor'
  BY SemaphoreAssumption DEF SemInMonitor, SemLock!Wait, SemLock!TypeOK, SemLock!HeldIsScoped

LEMMA SemWakeStep ==
  ASSUME SemInMonitor, NEW S, SemLock!Wake(S), UNCHANGED <<sem_holder, sem_depth>>
  PROVE  SemInMonitor'
<1>1. \A u \in SemThreads : \/ sem_mode'[u] = sem_mode[u]
                            \/ sem_mode[u] = "waiting" /\ sem_mode'[u] = "resuming"
  BY DEF SemLock!Wake, SemLock!Waiting
<1>2. sem_mode' \in [SemThreads -> {"run", "waiting", "resuming"}]
  BY <1>1 DEF SemLock!Wake, SemInMonitor, SemLock!TypeOK
<1> QED
  BY <1>1, <1>2, SemaphoreAssumption DEF SemInMonitor, SemLock!TypeOK, SemLock!HeldIsScoped

LEMMA SemResumeStep ==
  ASSUME SemInMonitor, NEW t \in SemThreads, SemLock!Resume(t)
  PROVE  SemInMonitor'
  BY SemaphoreAssumption DEF SemInMonitor, SemLock!Resume, SemLock!TypeOK, SemLock!HeldIsScoped

-----------------------------------------------------------------------------
(* The methods.                                                            *)

\* A method that returns without telling anyone, having taken what it may.
LEMMA SemReturnStep ==
  ASSUME SemInv, NEW t \in SemThreads, SemReturn(t), sem_mode[t] = "run", sem_mode' = sem_mode,
         sema' \in Int, forced' \in Nat, sema' <= sema, NeverOverdrawn'
  PROVE  SemInv'
<1> USE DEF SemInv
<1>1. SemInMonitor'
  BY SemReleaseStep DEF SemReturn, SemInMonitor, SemLock!TypeOK
<1>2. SemTypeOK'
  BY <1>1 DEF SemReturn, SemInMonitor, SemTypeOK, SemMethods
<1>3. NobodyWaitsInVain'
  BY DEF SemReturn, SemTypeOK, NobodyWaitsInVain
<1> QED
  BY <1>1, <1>2, <1>3

\* A method that finds too little and waits.
LEMMA DownWaitsStep ==
  ASSUME SemInv, NEW t \in SemThreads, SemLock!Wait(t), sema < sem_arg[t],
         UNCHANGED <<sema, sem_call, sem_arg, sem_expired, forced>>
  PROVE  SemInv'
<1> USE DEF SemInv
<1>1. SemInMonitor'
  BY SemWaitStep
<1>2. SemTypeOK'
  BY <1>1 DEF SemInMonitor, SemTypeOK
<1>3. NobodyWaitsInVain'
  BY DEF SemLock!Wait, SemInMonitor, SemLock!TypeOK, NobodyWaitsInVain
<1>4. NeverOverdrawn'
  BY DEF NeverOverdrawn
<1> QED
  BY <1>1, <1>2, <1>3, <1>4

\* A wait ends, whatever ends it; perhaps the thread runs on at once.
LEMMA WaitEndsStep ==
  ASSUME SemInv, SemInMonitor', UNCHANGED <<sema, sem_call, sem_arg, forced>>,
         sem_expired' \in [SemThreads -> BOOLEAN],
         \A u \in SemThreads : sem_mode'[u] = "waiting" => sem_mode[u] = "waiting"
  PROVE  SemInv'
<1> USE DEF SemInv
<1>1. SemTypeOK'
  BY DEF SemInMonitor, SemTypeOK
<1>2. NobodyWaitsInVain' /\ NeverOverdrawn'
  BY DEF NobodyWaitsInVain, NeverOverdrawn
<1> QED
  BY <1>1, <1>2

LEMMA UpStep ==
  ASSUME SemInv, NEW t \in SemThreads, Up(t)
  PROVE  SemInv'
<1> USE DEF SemInv, Up, SemIn
<1>1. /\ sem_mode' \in [SemThreads -> {"run", "waiting", "resuming"}]
      /\ \A u \in SemThreads : sem_mode'[u] = "run" <=> sem_mode[u] = "run"
      /\ \A u \in SemThreads :
           sem_mode'[u] = "waiting" => sem_mode[u] = "waiting" /\ sema + sem_arg[t] <= 0
  BY DEF SemLock!Broadcast, SemLock!Wake, SemLock!Waiting, SemInMonitor, SemLock!TypeOK, SemTypeOK
<1>2. SemInMonitor'
  BY <1>1, SemReleaseStep DEF SemReturn
<1>3. SemTypeOK'
  BY <1>2 DEF SemReturn, SemInMonitor, SemTypeOK, SemMethods
<1>4. NobodyWaitsInVain'
  BY <1>1 DEF SemReturn, SemInMonitor, SemTypeOK, NobodyWaitsInVain
<1>5. NeverOverdrawn'
  BY SemaphoreAssumption DEF SemTypeOK, NeverOverdrawn
<1> QED
  BY <1>2, <1>3, <1>4, <1>5

LEMMA SemNextInv == SemInv /\ [SemNext]_sem_vars => SemInv'
<1> SUFFICES ASSUME SemInv, [SemNext]_sem_vars PROVE SemInv'
  OBVIOUS
<1>0. sema \in Int /\ forced \in Nat /\ Start \in Int
      /\ \A t \in SemThreads : sem_arg[t] \in Nat \ {0}
  BY SemaphoreAssumption DEF SemInv, SemTypeOK
<1>1. ASSUME NEW t \in SemThreads, NEW m \in SemMethods, NEW n \in Args, SemEnter(t, m, n)
      PROVE  SemInv'
  <2>1. SemInMonitor'
    BY <1>1, SemAcquireStep DEF SemEnter, SemInv
  <2>2. n \in Nat \ {0}
    BY <1>1, SemaphoreAssumption DEF SemEnter, ValidArg
  <2>3. SemTypeOK'
    BY <1>1, <2>1, <2>2 DEF SemEnter, SemInv, SemInMonitor, SemTypeOK
  <2>4. NobodyWaitsInVain' /\ NeverOverdrawn'
    BY <1>1 DEF SemEnter, SemLock!Acquire, SemInv, SemTypeOK, NobodyWaitsInVain, NeverOverdrawn
  <2> QED
    BY <2>1, <2>3, <2>4 DEF SemInv
<1>2. ASSUME NEW t \in SemThreads, Down(t) PROVE SemInv'
  <2>1. CASE sema >= sem_arg[t] /\ sema' = sema - sem_arg[t] /\ SemReturn(t) /\ UNCHANGED sem_mode
    <3>1. sema' \in Int /\ forced' \in Nat /\ sema' <= sema /\ NeverOverdrawn'
      BY <1>0, <1>2, <2>1 DEF Down, NeverOverdrawn
    <3> QED
      BY <1>2, <2>1, <3>1, SemReturnStep DEF Down, SemIn
  <2>2. CASE sema < sem_arg[t] /\ SemLock!Wait(t) /\ UNCHANGED <<sema, sem_call, sem_arg, sem_expired>>
    BY <1>2, <2>2, DownWaitsStep DEF Down
  <2> QED
    BY <1>2, <2>1, <2>2 DEF Down
<1>3. ASSUME NEW t \in SemThreads, DownNb(t) PROVE SemInv'
  <2>1. sema' \in Int /\ forced' \in Nat /\ sema' <= sema /\ NeverOverdrawn'
    BY <1>0, <1>3 DEF DownNb, SemInv, NeverOverdrawn
  <2> QED
    BY <1>3, <2>1, SemReturnStep DEF DownNb, SemIn
<1>4. ASSUME NEW t \in SemThreads, DownForce(t) PROVE SemInv'
  <2>1. sema' \in Int /\ forced' \in Nat /\ sema' <= sema /\ NeverOverdrawn'
    BY <1>0, <1>4 DEF DownForce, SemInv, NeverOverdrawn
  <2> QED
    BY <1>4, <2>1, SemReturnStep DEF DownForce, SemIn
<1>5. ASSUME NEW t \in SemThreads, DownTimed(t) PROVE SemInv'
  <2>1. CASE SemReturn(t) /\ UNCHANGED <<sema, sem_mode>>
    <3>1. sema' \in Int /\ forced' \in Nat /\ sema' <= sema /\ NeverOverdrawn'
      BY <1>0, <1>5, <2>1 DEF DownTimed, SemInv, NeverOverdrawn
    <3> QED
      BY <1>5, <2>1, <3>1, SemReturnStep DEF DownTimed, SemIn
  <2>2. CASE sema >= sem_arg[t] /\ sema' = sema - sem_arg[t] /\ SemReturn(t) /\ UNCHANGED sem_mode
    <3>1. sema' \in Int /\ forced' \in Nat /\ sema' <= sema /\ NeverOverdrawn'
      BY <1>0, <1>5, <2>2 DEF DownTimed, NeverOverdrawn
    <3> QED
      BY <1>5, <2>2, <3>1, SemReturnStep DEF DownTimed, SemIn
  <2>3. CASE sema < sem_arg[t] /\ SemLock!Wait(t) /\ UNCHANGED <<sema, sem_call, sem_arg, sem_expired>>
    BY <1>5, <2>3, DownWaitsStep DEF DownTimed
  <2> QED
    BY <1>5, <2>1, <2>2, <2>3 DEF DownTimed
<1>6. ASSUME NEW t \in SemThreads, Up(t) PROVE SemInv'
  BY <1>6, UpStep
<1>7. ASSUME NEW t \in SemThreads, SemExpire(t) PROVE SemInv'
  <2>1. SemInMonitor' /\ \A u \in SemThreads : sem_mode'[u] = "waiting" => sem_mode[u] = "waiting"
    BY <1>7, SemWakeStep DEF SemExpire, SemInv, SemLock!Wake
  <2>2. sem_expired' \in [SemThreads -> BOOLEAN]
    BY <1>7 DEF SemExpire, SemInv, SemTypeOK
  <2> QED
    BY <1>7, <2>1, <2>2, WaitEndsStep DEF SemExpire
<1>8. ASSUME NEW t \in SemThreads, SemSpurious(t) PROVE SemInv'
  <2>1. SemInMonitor' /\ \A u \in SemThreads : sem_mode'[u] = "waiting" => sem_mode[u] = "waiting"
    BY <1>8, SemWakeStep DEF SemSpurious, SemInv, SemLock!Wake
  <2> QED
    BY <1>8, <2>1, WaitEndsStep DEF SemSpurious, SemInv, SemTypeOK
<1>9. ASSUME NEW t \in SemThreads, SemResume(t) PROVE SemInv'
  <2>1. SemInMonitor' /\ \A u \in SemThreads : sem_mode'[u] = "waiting" => sem_mode[u] = "waiting"
    BY <1>9, SemResumeStep DEF SemResume, SemInv, SemInMonitor, SemLock!Resume, SemLock!TypeOK
  <2> QED
    BY <1>9, <2>1, WaitEndsStep DEF SemResume, SemInv, SemTypeOK
<1>10. CASE UNCHANGED sem_vars
  BY <1>10
  DEF sem_vars, SemInv, SemInMonitor, SemTypeOK, NobodyWaitsInVain, NeverOverdrawn,
      SemLock!TypeOK, SemLock!HeldIsScoped
<1> QED
  BY <1>1, <1>2, <1>3, <1>4, <1>5, <1>6, <1>7, <1>8, <1>9, <1>10
  DEF SemNext, SemStep, SemBody

THEOREM SemSpecInv == SemSpec => []SemInv
  BY SemInitInv, SemNextInv, PTL DEF SemSpec

\* No scope is left more often than it was entered, no argument is below 1.
THEOREM SemTypeCorrect == SemSpec => []SemTypeOK
<1>1. SemInv => SemTypeOK
  BY DEF SemInv
<1> QED
  BY <1>1, SemSpecInv, PTL

\* up() wakes everybody when the count is positive and nobody when it is not:
\* nobody who could have its units is left asleep.
THEOREM NobodyForgotten == SemSpec => []NobodyWaitsInVain
<1>1. SemInv => NobodyWaitsInVain
  BY DEF SemInv
<1> QED
  BY <1>1, SemSpecInv, PTL

\* However the wake-ups and the timeouts fall, units are given out once.
THEOREM NeverBelowZero == SemSpec => []NeverOverdrawn
<1>1. SemInv => NeverOverdrawn
  BY DEF SemInv
<1> QED
  BY <1>1, SemSpecInv, PTL

-----------------------------------------------------------------------------
(* The two together, as they are checked.                                  *)

\* Whatever is used, both keep their invariants; the order is kept where only
\* the ends of the list are used.
TogetherInv ==
  /\ QInv /\ SemInv
  /\ used = "queue" => FifoInv

LEMMA SingleItemsAtTheEnds ==
  ASSUME FifoInv, NEW t \in Threads, Step(t), SingleItems(t)
  PROVE  FifoInv'
<1>1. \A u \in Threads \ {t} : call'[u] = call[u]
  BY OwnCallOnly DEF FifoInv
<1>2. OnlyEnds'
  BY <1>1 DEF FifoInv, OnlyEnds, SingleItems
<1> QED
  BY <1>2, FifoStep

LEMMA QueueRests ==
  ASSUME QInv, UNCHANGED vars
  PROVE  QInv' /\ (FifoInv => FifoInv') /\ (NobodyIsForgotten => NobodyIsForgotten')
  BY StutterQInv
  DEF vars, FifoInv, OnlyEnds, Fifo, NobodyIsForgotten, DequeueIsWoken, EnqueueIsWoken,
      HasItems, HasRoom, SomeoneAwake

LEMMA SemaphoreRests == SemInv /\ UNCHANGED sem_vars => SemInv'
  BY SemNextInv

LEMMA TogetherStep == TogetherInv /\ [MCNext]_mc_vars => TogetherInv'
<1> SUFFICES ASSUME TogetherInv, [MCNext]_mc_vars PROVE TogetherInv'
  OBVIOUS
<1>1. ASSUME used = "queue", NEW t \in Threads, Step(t), SingleItems(t),
             UNCHANGED <<used, sem_vars>>
      PROVE  TogetherInv'
  BY <1>1, SingleItemsAtTheEnds, SemaphoreRests DEF TogetherInv, FifoInv
<1>2. ASSUME used = "limited queue", NEW t \in Threads, Step(t), UNCHANGED <<used, sem_vars>>
      PROVE  TogetherInv'
  BY <1>2, StepQInv, SemaphoreRests DEF TogetherInv
<1>3. CASE SemNext /\ UNCHANGED <<used, vars>>
  BY <1>3, SemNextInv, QueueRests DEF TogetherInv
<1>4. CASE UNCHANGED mc_vars
  BY <1>4, QueueRests, SemaphoreRests DEF TogetherInv, mc_vars
<1> QED
  BY <1>1, <1>2, <1>3, <1>4 DEF MCNext

LEMMA TogetherAlways == MCSpec => []TogetherInv
<1>1. MCInit => TogetherInv
  BY InitFifo, InitQInv, SemInitInv DEF MCInit, TogetherInv
<1> QED
  BY <1>1, TogetherStep, PTL DEF MCSpec

\* TypesOK of the run, for every instance of it.
THEOREM TypesAreKept == MCSpec => []TypesOK
<1>1. TogetherInv => TypesOK
  BY QInvTypes DEF TogetherInv, SemInv, TypesOK
<1> QED
  BY <1>1, TogetherAlways, PTL

\* PlainFifo of the run, for every instance of it.
THEOREM OrderIsKept == MCSpec => []PlainFifo
<1>1. TogetherInv => PlainFifo
  BY DEF TogetherInv, FifoInv, PlainFifo
<1> QED
  BY <1>1, TogetherAlways, PTL

\* Whichever way the queue is used, nobody who could go on is left asleep: the
\* run's two cases are PairIsNotForgotten and CrowdIsNotForgotten.
WokenInv(p, c) ==
  /\ TogetherInv /\ NobodyIsForgotten
  /\ used = "queue" => UnlimitedInv
  /\ used = "limited queue" => DuoInv(p, c)

THEOREM NobodyIsForgottenWhenUsed ==
  ASSUME NEW p, NEW c, Producers \subseteq {p}, Consumers \ OtherConsumers \subseteq {c}
  PROVE  MCSpec => []NobodyIsForgotten
<1>1. MCInit => WokenInv(p, c)
  <2> SUFFICES ASSUME MCInit PROVE WokenInv(p, c)
    OBVIOUS
  <2>1. TogetherInv
    BY InitFifo, InitQInv, SemInitInv DEF MCInit, TogetherInv
  <2>2. \A t \in Threads : call[t] = "none" /\ mode[t] = "run"
    BY DEF MCInit, Init, M!Init
  <2>3. NobodyIsForgotten /\ DuoInv(p, c)
    BY <2>1, <2>2
    DEF TogetherInv, DuoInv, Duo, NobodyCouldGoOn, AddingPlaces, TakingPlaces, Adding, Taking,
        NobodyIsForgotten, DequeueIsWoken, EnqueueIsWoken
  <2>4. used = "queue" => UnlimitedInv
    BY <2>1, <2>2, <2>3 DEF TogetherInv, MCInit, Init, UnlimitedInv, Unlimited, Taking
  <2> QED
    BY <2>1, <2>3, <2>4 DEF WokenInv
<1>2. WokenInv(p, c) /\ [MCNext]_mc_vars => WokenInv(p, c)'
  <2> SUFFICES ASSUME WokenInv(p, c), [MCNext]_mc_vars PROVE WokenInv(p, c)'
    OBVIOUS
  <2>1. TogetherInv'
    BY TogetherStep DEF WokenInv
  <2>2. ASSUME used = "queue", NEW t \in Threads, Step(t), SingleItems(t), UNCHANGED used
        PROVE  WokenInv(p, c)'
    <3>1. UnlimitedInv /\ QInv /\ LIMIT' = 0
      BY <2>2 DEF WokenInv, UnlimitedInv, Unlimited, SingleItems
    <3>2. \A u \in Threads : call'[u] \in Taking => arg'[u].n <= 1
      BY <2>2, <3>1, OwnCallOnly DEF UnlimitedInv, Unlimited, SingleItems
    <3>3. UnlimitedInv'
      BY <2>2, <3>1, <3>2, UnlimitedStep
    <3> QED
      BY <2>1, <2>2, <3>3 DEF WokenInv, UnlimitedInv
  <2>3. ASSUME used = "limited queue", NEW t \in Threads \ OtherConsumers, Step(t), UNCHANGED used
        PROVE  WokenInv(p, c)'
    <3>1. DuoInv(p, c)'
      BY <2>3, DuoStep DEF WokenInv
    <3>2. NobodyIsForgotten'
      BY <3>1 DEF DuoInv, NobodyCouldGoOn, NobodyIsForgotten, DequeueIsWoken, EnqueueIsWoken
    <3> QED
      BY <2>1, <2>3, <3>1, <3>2 DEF WokenInv
  <2>4. ASSUME UNCHANGED <<used, vars>> PROVE WokenInv(p, c)'
    BY <2>1, <2>4
    DEF vars, WokenInv, TogetherInv, UnlimitedInv, Unlimited, DuoInv, Duo, NobodyCouldGoOn,
        NobodyIsForgotten, DequeueIsWoken, EnqueueIsWoken, HasItems, HasRoom, SomeoneAwake
  <2> QED
    BY <2>2, <2>3, <2>4 DEF MCNext, mc_vars
<1>3. WokenInv(p, c) => NobodyIsForgotten
  BY DEF WokenInv
<1> QED
  BY <1>1, <1>2, <1>3, PTL DEF MCSpec

=============================================================================
