------------------------------ MODULE Hash_proofs ------------------------------
(***************************************************************************)
(* Proofs about hashes, for any keys, any sizes of the table and any order *)
(* of buckets: whatever is stored, deleted, iterated over, split, locked   *)
(* and cleared, by the program or by a destructor that may run in between  *)
(* (where ~Untidy), the chains, the counters, the iterator and the entry   *)
(* kept for it fit.  Then, for the composed specification of the data      *)
(* structures, their types.                                                *)
(***************************************************************************)
EXTENDS MCData, Data_proofs, FiniteSetTheorems

-----------------------------------------------------------------------------
(* Chains.                                                                 *)

\* A chain with the entries S, each once.
ChainOf(c, S) == c \in Seq(Entry) /\ IsInjective(c) /\ ToSet(c) = S

Distinct(c) == \A i, j \in 1 .. Len(c) : c[i] = c[j] => i = j
AllIn(c, S) == \A i \in 1 .. Len(c) : c[i] \in S
AllOf(c, S) == \A e \in S : \E i \in 1 .. Len(c) : c[i] = e

LEMMA ChainIs ==
  ASSUME NEW c, NEW S
  PROVE  ChainOf(c, S) <=> c \in Seq(Entry) /\ Distinct(c) /\ AllIn(c, S) /\ AllOf(c, S)
<1> SUFFICES ASSUME c \in Seq(Entry)
             PROVE  IsInjective(c) /\ ToSet(c) = S <=> Distinct(c) /\ AllIn(c, S) /\ AllOf(c, S)
  BY DEF ChainOf
<1>1. DOMAIN c = 1 .. Len(c)
  OBVIOUS
<1>2. IsInjective(c) <=> Distinct(c)
  BY <1>1 DEF IsInjective, Distinct
<1>3. ToSet(c) = {c[i] : i \in 1 .. Len(c)}
  BY <1>1 DEF ToSet
<1>4. ToSet(c) = S <=> AllIn(c, S) /\ AllOf(c, S)
  <2>1. ASSUME AllIn(c, S), AllOf(c, S)
        PROVE  ToSet(c) = S
    BY <1>3, <2>1 DEF AllIn, AllOf
  <2>2. ASSUME ToSet(c) = S
        PROVE  AllIn(c, S) /\ AllOf(c, S)
    BY <1>3, <2>2 DEF AllIn, AllOf
  <2> QED BY <2>1, <2>2
<1> QED BY <1>2, <1>4

LEMMA EmptyChain == ChainOf(<< >>, {})
<1>1. << >> \in Seq(Entry) /\ Len(<< >>) = 0
  BY EmptySeq
<1>2. Distinct(<< >>) /\ AllIn(<< >>, {}) /\ AllOf(<< >>, {})
  BY <1>1 DEF Distinct, AllIn, AllOf
<1> QED BY <1>1, <1>2, ChainIs

LEMMA LongerChain ==
  ASSUME NEW c, NEW S, ChainOf(c, S), NEW e \in Entry, e \notin S
  PROVE  ChainOf(Append(c, e), S \cup {e})
<1>1. c \in Seq(Entry) /\ Distinct(c) /\ AllIn(c, S) /\ AllOf(c, S)
  BY ChainIs
<1>2. PICK a : a = Append(c, e)
  OBVIOUS
<1>3. PICK n \in Nat : n = Len(c)
  BY <1>1
<1>4. /\ a \in Seq(Entry) /\ Len(a) = n + 1 /\ a[n + 1] = e
      /\ \A i \in 1 .. n : a[i] = c[i]
  BY <1>1, <1>2, <1>3, AppendProperties
<1>5. \A i \in 1 .. n : a[i] \in S /\ a[i] # e
  BY <1>1, <1>3, <1>4 DEF AllIn
<1>6. Distinct(a)
  <2> SUFFICES ASSUME NEW i \in 1 .. n + 1, NEW j \in 1 .. n + 1, a[i] = a[j]
               PROVE  i = j
    BY <1>4 DEF Distinct
  <2>1. CASE i \in 1 .. n /\ j \in 1 .. n
    BY <1>1, <1>3, <1>4, <2>1 DEF Distinct
  <2>2. CASE i = n + 1 \/ j = n + 1
    BY <1>3, <1>4, <1>5, <2>2
  <2> QED BY <1>3, <2>1, <2>2
<1>7. AllIn(a, S \cup {e})
  BY <1>3, <1>4, <1>5 DEF AllIn
<1>8. AllOf(a, S \cup {e})
  <2>1. ASSUME NEW x \in S PROVE \E i \in 1 .. n + 1 : a[i] = x
    <3>1. PICK i \in 1 .. n : c[i] = x
      BY <1>1, <1>3 DEF AllOf
    <3> QED BY <1>3, <1>4, <3>1
  <2>2. \E i \in 1 .. n + 1 : a[i] = e
    BY <1>3, <1>4
  <2> QED BY <1>4, <2>1, <2>2 DEF AllOf
<1> QED BY <1>2, <1>4, <1>6, <1>7, <1>8, ChainIs

\* A function on 0 .. n that is defined by what it is at 0 and by a step.
Stepwise(p, n, c, g) == DOMAIN p = 0 .. n /\ p[0] = c /\ \A i \in 1 .. n : p[i] = g[<<p[i - 1], i>>]

LEMMA StepwiseExists ==
  ASSUME NEW T, NEW c \in T, NEW n \in Nat, NEW g \in [T \X (1 .. n) -> T]
  PROVE  \E p \in [0 .. n -> T] : Stepwise(p, n, c, g)
<1> DEFINE Part(k, p) == /\ p \in [0 .. k -> T] /\ p[0] = c
                         /\ \A i \in 1 .. k : p[i] = g[<<p[i - 1], i>>]
           Q == {k \in Nat : k <= n => \E p : Part(k, p)}
<1>1. 0 \in Q
  <2>1. Part(0, [k \in 0 .. 0 |-> c])
    OBVIOUS
  <2> QED BY <2>1
<1>2. ASSUME NEW k \in Nat, k \in Q
      PROVE  k + 1 \in Q
  <2> SUFFICES ASSUME k + 1 <= n PROVE \E p : Part(k + 1, p)
    OBVIOUS
  <2>1. PICK p : Part(k, p)
    BY <1>2
  <2>2. PICK e : e = [i \in 0 .. k + 1 |-> IF i = k + 1 THEN g[<<p[k], k + 1>>] ELSE p[i]]
    OBVIOUS
  <2>3. p[k] \in T /\ k + 1 \in 1 .. n
    BY <2>1
  <2>4. g[<<p[k], k + 1>>] \in T
    BY <2>3
  <2>5. \A i \in 0 .. k + 1 : i = k + 1 \/ (i \in 0 .. k /\ i # k + 1)
    OBVIOUS
  <2>6. e \in [0 .. k + 1 -> T]
    BY <2>1, <2>2, <2>4, <2>5
  <2>7. e[0] = c /\ e[k] = p[k] /\ e[k + 1] = g[<<p[k], k + 1>>]
    BY <2>1, <2>2
  <2>8. ASSUME NEW i \in 1 .. k + 1
        PROVE  e[i] = g[<<e[i - 1], i>>]
    <3>1. CASE i = k + 1
      BY <2>7, <3>1
    <3>2. CASE i # k + 1
      <4>1. i \in 1 .. k /\ i - 1 \in 0 .. k /\ i \in 0 .. k + 1 /\ i - 1 \in 0 .. k + 1
            /\ i - 1 # k + 1
        BY <3>2
      <4>2. e[i] = p[i] /\ e[i - 1] = p[i - 1]
        BY <2>2, <3>2, <4>1
      <4> QED BY <2>1, <4>1, <4>2
    <3> QED BY <3>1, <3>2
  <2>9. Part(k + 1, e)
    BY <2>6, <2>7, <2>8
  <2> QED BY <2>9
<1>3. n \in Q
  <2> HIDE DEF Q
  <2> QED BY <1>1, <1>2, ByInduction
<1>4. PICK p : Part(n, p)
  BY <1>3
<1> QED BY <1>4 DEF Stepwise

\* The first i elements of a chain.
UpTo(c, i) == {c[j] : j \in 1 .. i}

LEMMA OnlyIs ==
  ASSUME NEW c, NEW E, ChainOf(c, E), NEW S
  PROVE  ChainOf(Only(c, S), E \cap S)
<1>1. c \in Seq(Entry) /\ Distinct(c) /\ AllIn(c, E) /\ AllOf(c, E)
  BY ChainIs
<1>2. PICK n \in Nat : n = Len(c)
  BY <1>1
<1> DEFINE Step(p) ==
             [i \in 0 .. Len(c) |->
               IF i = 0 THEN << >>
               ELSE IF c[i] \in S THEN Append(p[i - 1], c[i]) ELSE p[i - 1]]
           P == CHOOSE p : p = Step(p)
           T == Seq(Entry)
<1>3. PICK g : g = [q \in T \X (1 .. n) |-> IF c[q[2]] \in S THEN Append(q[1], c[q[2]]) ELSE q[1]]
  OBVIOUS
<1>4. g \in [T \X (1 .. n) -> T]
  <2>1. ASSUME NEW q \in T \X (1 .. n)
        PROVE  (IF c[q[2]] \in S THEN Append(q[1], c[q[2]]) ELSE q[1]) \in T
    <3>1. q[1] \in Seq(Entry) /\ q[2] \in 1 .. n
      BY <2>1
    <3>2. c[q[2]] \in Entry
      BY <1>1, <1>2, <3>1
    <3> QED BY <3>1, <3>2
  <2> QED BY <1>3, <2>1
<1>5. PICK f1 \in [0 .. n -> T] : Stepwise(f1, n, << >>, g)
  <2>1. << >> \in T
    BY EmptySeq
  <2> HIDE DEF T
  <2> QED BY <1>4, <2>1, StepwiseExists
<1>6. f1 = Step(f1)
  <2>1. f1[0] = << >> /\ \A i \in 1 .. n : f1[i] = g[<<f1[i - 1], i>>]
    BY <1>5 DEF Stepwise
  <2>2. ASSUME NEW i \in 1 .. n
        PROVE  f1[i] = IF c[i] \in S THEN Append(f1[i - 1], c[i]) ELSE f1[i - 1]
    <3>1. f1[i - 1] \in T
      BY <1>5
    <3>2. <<f1[i - 1], i>> \in T \X (1 .. n)
      BY <3>1
    <3>3. g[<<f1[i - 1], i>>] = IF c[i] \in S THEN Append(f1[i - 1], c[i]) ELSE f1[i - 1]
      BY <1>3, <3>2
    <3> QED BY <2>1, <3>3
  <2>3. ASSUME NEW i \in 0 .. n
        PROVE  f1[i] = IF i = 0 THEN << >>
                       ELSE IF c[i] \in S THEN Append(f1[i - 1], c[i]) ELSE f1[i - 1]
    <3>1. CASE i = 0
      BY <2>1, <3>1
    <3>2. CASE i # 0
      <4>1. i \in 1 .. n /\ i > 0
        BY <3>2
      <4> QED BY <2>2, <3>2, <4>1
    <3> QED BY <3>1, <3>2
  <2>4. f1 = [i \in 0 .. n |-> f1[i]]
    BY <1>5
  <2> QED BY <1>2, <2>3, <2>4
<1>7. P = Step(P)
  <2> HIDE DEF Step
  <2> QED BY <1>6
<1>8. /\ P[0] = << >>
      /\ \A i \in 1 .. n : P[i] = IF c[i] \in S THEN Append(P[i - 1], c[i]) ELSE P[i - 1]
  <2> HIDE DEF P
  <2>1. P[0] = << >>
    BY <1>2, <1>7
  <2>2. ASSUME NEW i \in 1 .. n
        PROVE  P[i] = IF c[i] \in S THEN Append(P[i - 1], c[i]) ELSE P[i - 1]
    <3>1. i \in 0 .. Len(c) /\ i > 0 /\ i # 0
      BY <1>2
    <3>2. P[i] = IF i = 0 THEN << >>
                 ELSE IF c[i] \in S THEN Append(P[i - 1], c[i]) ELSE P[i - 1]
      BY <1>7, <3>1
    <3> QED BY <3>1, <3>2
  <2> QED BY <2>1, <2>2
<1>9. Only(c, S) = P[n]
  BY <1>2 DEF Only
<1> HIDE DEF P, Step, T
<1> DEFINE Q == {i \in Nat : i <= n => ChainOf(P[i], UpTo(c, i) \cap S)}
<1>10. 0 \in Q
  <2>1. UpTo(c, 0) \cap S = {}
    BY DEF UpTo
  <2> QED BY <1>8, <2>1, EmptyChain
<1>11. ASSUME NEW k \in Nat, k \in Q
       PROVE  k + 1 \in Q
  <2> SUFFICES ASSUME k + 1 <= n
               PROVE  ChainOf(P[k + 1], UpTo(c, k + 1) \cap S)
    OBVIOUS
  <2>1. ChainOf(P[k], UpTo(c, k) \cap S)
    BY <1>11
  <2>2. PICK m \in 1 .. n : m = k + 1 /\ m - 1 = k
    OBVIOUS
  <2>3. P[m] = IF c[m] \in S THEN Append(P[k], c[m]) ELSE P[k]
    BY <1>8, <2>2
  <2>4. UpTo(c, m) = UpTo(c, k) \cup {c[m]}
    BY <2>2 DEF UpTo
  <2>5. c[m] \notin UpTo(c, k) /\ c[m] \in Entry
    BY <1>1, <1>2, <2>2 DEF UpTo, Distinct
  <2>6. CASE c[m] \in S
    <3>1. ChainOf(Append(P[k], c[m]), (UpTo(c, k) \cap S) \cup {c[m]})
      BY <2>1, <2>5, LongerChain
    <3>2. (UpTo(c, k) \cap S) \cup {c[m]} = UpTo(c, m) \cap S
      BY <2>4, <2>6
    <3> QED BY <2>2, <2>3, <2>6, <3>1, <3>2
  <2>7. CASE c[m] \notin S
    <3>1. UpTo(c, k) \cap S = UpTo(c, m) \cap S
      BY <2>4, <2>7
    <3> QED BY <2>1, <2>2, <2>3, <2>7, <3>1
  <2> QED BY <2>6, <2>7
<1>12. n \in Q
  <2> HIDE DEF Q
  <2> QED BY <1>10, <1>11, ByInduction
<1>13. UpTo(c, n) = E
  BY <1>1, <1>2 DEF UpTo, AllIn, AllOf
<1> QED BY <1>9, <1>12, <1>13

\* A chain with one more entry somewhere in it.
LEMMA WithOneMore ==
  ASSUME NEW c, NEW S, ChainOf(c, S), NEW e \in Entry, e \notin S,
         NEW a \in Seq(Entry), Len(a) = Len(c) + 1, NEW at \in 1 .. Len(a), a[at] = e,
         \A i \in 1 .. Len(a) : i # at => a[i] = c[IF i < at THEN i ELSE i - 1]
  PROVE  ChainOf(a, S \cup {e})
<1>1. c \in Seq(Entry) /\ Distinct(c) /\ AllIn(c, S) /\ AllOf(c, S)
  BY ChainIs
<1>2. PICK n \in Nat : n = Len(c) /\ Len(a) = n + 1
  BY <1>1
<1>3. at \in 1 .. n + 1
  BY <1>2
<1>4. ASSUME NEW i \in 1 .. n + 1, i # at
      PROVE  /\ (IF i < at THEN i ELSE i - 1) \in 1 .. n
             /\ a[i] = c[IF i < at THEN i ELSE i - 1] /\ a[i] \in S /\ a[i] # e
  <2>1. (IF i < at THEN i ELSE i - 1) \in 1 .. n
    BY <1>3, <1>4
  <2>2. a[i] = c[IF i < at THEN i ELSE i - 1]
    BY <1>2, <1>4
  <2>3. c[IF i < at THEN i ELSE i - 1] \in S
    BY <1>1, <1>2, <2>1 DEF AllIn
  <2> QED BY <2>1, <2>2, <2>3
<1>5. Distinct(a)
  <2> SUFFICES ASSUME NEW i \in 1 .. n + 1, NEW j \in 1 .. n + 1, a[i] = a[j]
               PROVE  i = j
    BY <1>2 DEF Distinct
  <2>1. CASE i # at /\ j # at
    <3>1. c[IF i < at THEN i ELSE i - 1] = c[IF j < at THEN j ELSE j - 1]
      BY <1>4, <2>1
    <3>2. /\ (IF i < at THEN i ELSE i - 1) \in 1 .. n
          /\ (IF j < at THEN j ELSE j - 1) \in 1 .. n
      BY <1>4, <2>1
    <3>3. (IF i < at THEN i ELSE i - 1) = (IF j < at THEN j ELSE j - 1)
      BY <1>1, <1>2, <3>1, <3>2 DEF Distinct
    <3> QED BY <1>3, <2>1, <3>3
  <2>2. CASE i = at \/ j = at
    BY <1>3, <1>4, <2>2
  <2> QED BY <2>1, <2>2
<1>6. AllIn(a, S \cup {e})
  <2>1. ASSUME NEW i \in 1 .. n + 1 PROVE a[i] \in S \cup {e}
    <3>1. CASE i = at
      BY <3>1
    <3>2. CASE i # at
      BY <1>4, <3>2
    <3> QED BY <3>1, <3>2
  <2> QED BY <1>2, <2>1 DEF AllIn
<1>7. AllOf(a, S \cup {e})
  <2>1. ASSUME NEW x \in S PROVE \E i \in 1 .. n + 1 : a[i] = x
    <3>1. PICK k \in 1 .. n : c[k] = x
      BY <1>1, <1>2 DEF AllOf
    <3>2. PICK i \in 1 .. n + 1 : i = (IF k < at THEN k ELSE k + 1)
      BY <1>3
    <3>3. i # at /\ (IF i < at THEN i ELSE i - 1) = k
      BY <1>3, <3>2
    <3>4. a[i] = c[k]
      BY <1>4, <3>3
    <3> QED BY <3>1, <3>4
  <2>2. \E i \in 1 .. n + 1 : a[i] = e
    BY <1>3
  <2> QED BY <1>2, <2>1, <2>2 DEF AllOf
<1> QED BY <1>5, <1>6, <1>7, ChainIs

LEMMA InsertedIs ==
  ASSUME NEW c, NEW S, ChainOf(c, S), NEW e \in Entry, e \notin S, NEW a \in Inserted(c, e)
  PROVE  ChainOf(a, S \cup {e})
<1>1. c \in Seq(Entry)
  BY DEF ChainOf
<1>2. PICK n \in Nat : n = Len(c)
  BY <1>1
<1>3. CASE a = <<e>> \o c
  <2>1. PICK o : o = <<e>>
    OBVIOUS
  <2>2. o \in Seq(Entry) /\ Len(o) = 1 /\ o[1] = e
    BY <2>1
  <2>3. /\ o \o c \in Seq(Entry) /\ Len(o \o c) = Len(o) + Len(c)
        /\ \A i \in 1 .. Len(o) + Len(c) : (o \o c)[i] = IF i <= Len(o) THEN o[i] ELSE c[i - Len(o)]
    BY <1>1, <2>2, ConcatProperties
  <2>4. /\ a \in Seq(Entry) /\ Len(a) = n + 1
        /\ \A i \in 1 .. n + 1 : a[i] = IF i <= 1 THEN e ELSE c[i - 1]
    BY <1>2, <1>3, <2>1, <2>2, <2>3
  <2>5. 1 \in 1 .. Len(a) /\ a[1] = e /\ Len(a) = Len(c) + 1
    BY <1>2, <2>4
  <2>6. \A i \in 1 .. Len(a) : i # 1 => a[i] = c[IF i < 1 THEN i ELSE i - 1]
    BY <1>2, <2>4
  <2> QED BY <2>4, <2>5, <2>6, WithOneMore
<1>4. CASE c # << >> /\ a = <<c[1], e>> \o Tail(c)
  <2>1. PICK o : o = <<c[1], e>>
    OBVIOUS
  <2>2. PICK t : t = Tail(c)
    OBVIOUS
  <2>3. n >= 1 /\ c[1] \in Entry
    BY <1>1, <1>2, <1>4
  <2>4. o \in Seq(Entry) /\ Len(o) = 2 /\ o[1] = c[1] /\ o[2] = e
    BY <2>1, <2>3
  <2>5. t \in Seq(Entry) /\ Len(t) = n - 1 /\ \A i \in 1 .. n - 1 : t[i] = c[i + 1]
    BY <1>1, <1>2, <1>4, <2>2, HeadTailProperties
  <2>6. /\ o \o t \in Seq(Entry) /\ Len(o \o t) = Len(o) + Len(t)
        /\ \A i \in 1 .. Len(o) + Len(t) : (o \o t)[i] = IF i <= Len(o) THEN o[i] ELSE t[i - Len(o)]
    BY <2>4, <2>5, ConcatProperties
  <2>7. Len(o) + Len(t) = n + 1
    BY <1>2, <2>3, <2>4, <2>5
  <2>8. /\ a \in Seq(Entry) /\ Len(a) = n + 1
        /\ \A i \in 1 .. n + 1 : a[i] = IF i <= 2 THEN o[i] ELSE t[i - 2]
    BY <1>4, <2>1, <2>2, <2>4, <2>6, <2>7
  <2>9. 2 \in 1 .. Len(a) /\ a[2] = e /\ Len(a) = Len(c) + 1
    BY <1>2, <2>3, <2>4, <2>8
  <2>10. ASSUME NEW i \in 1 .. n + 1, i # 2
         PROVE  a[i] = c[IF i < 2 THEN i ELSE i - 1]
    <3>1. CASE i = 1
      BY <2>3, <2>4, <2>8, <3>1
    <3>2. CASE i # 1
      <4>1. i - 2 \in 1 .. n - 1 /\ i - 2 + 1 = i - 1 /\ ~(i <= 2) /\ ~(i < 2)
        BY <2>10, <3>2
      <4>2. a[i] = t[i - 2]
        BY <2>8, <4>1
      <4>3. t[i - 2] = c[i - 2 + 1]
        BY <2>5, <4>1
      <4> QED BY <4>1, <4>2, <4>3
    <3> QED BY <3>1, <3>2
  <2> QED BY <2>8, <2>9, <2>10, WithOneMore
<1> QED BY <1>3, <1>4 DEF Inserted

LEMMA InsertedInSeq ==
  ASSUME NEW c \in Seq(Entry), NEW e \in Entry, NEW a \in Inserted(c, e)
  PROVE  a \in Seq(Entry)
<1>1. CASE a = <<e>> \o c
  <2>1. <<e>> \in Seq(Entry)
    OBVIOUS
  <2> QED BY <1>1, <2>1, ConcatProperties
<1>2. CASE c # << >> /\ a = <<c[1], e>> \o Tail(c)
  <2>1. c[1] \in Entry /\ Tail(c) \in Seq(Entry)
    BY <1>2, HeadTailProperties
  <2>2. <<c[1], e>> \in Seq(Entry)
    BY <2>1
  <2> QED BY <1>2, <2>1, <2>2, ConcatProperties
<1> QED BY <1>1, <1>2 DEF Inserted

LEMMA RebuiltIs ==
  ASSUME NEW c, NEW E, ChainOf(c, E), NEW a \in Rebuilt(c)
  PROVE  ChainOf(a, E)
<1>1. c \in Seq(Entry) /\ Distinct(c) /\ AllIn(c, E) /\ AllOf(c, E)
  BY ChainIs
<1>2. PICK n \in Nat : n = Len(c)
  BY <1>1
<1> DEFINE Step(p) ==
             [i \in 0 .. Len(c) |->
               IF i = 0 THEN {<< >>} ELSE UNION {Inserted(x, c[i]) : x \in p[i - 1]}]
           P == CHOOSE p : p = Step(p)
           U == SUBSET Seq(Entry)
           Grown(q) == {x \in UNION {Inserted(y, c[q[2]]) : y \in q[1]} : x \in Seq(Entry)}
<1>3. PICK g : g = [q \in U \X (1 .. n) |-> Grown(q)]
  OBVIOUS
<1>4. g \in [U \X (1 .. n) -> U]
  BY <1>3
<1>5. PICK f1 \in [0 .. n -> U] : Stepwise(f1, n, {<< >>}, g)
  <2>1. {<< >>} \in U
    BY EmptySeq
  <2> HIDE DEF U
  <2> QED BY <1>4, <2>1, StepwiseExists
<1>6. \A i \in 1 .. n : c[i] \in Entry
  BY <1>1, <1>2
<1>7. f1[0] = {<< >>} /\ \A i \in 1 .. n : f1[i] = UNION {Inserted(y, c[i]) : y \in f1[i - 1]}
  <2>1. f1[0] = {<< >>} /\ \A i \in 1 .. n : f1[i] = g[<<f1[i - 1], i>>]
    BY <1>5 DEF Stepwise
  <2>2. ASSUME NEW i \in 1 .. n
        PROVE  f1[i] = UNION {Inserted(y, c[i]) : y \in f1[i - 1]}
    <3>1. f1[i - 1] \in U
      BY <1>5
    <3>2. <<f1[i - 1], i>> \in U \X (1 .. n)
      BY <3>1
    <3>a. PICK q \in U \X (1 .. n) : q = <<f1[i - 1], i>>
      BY <3>2
    <3>b. f1[i] = Grown(q) /\ q[1] = f1[i - 1] /\ q[2] = i
      <4> HIDE DEF U, Grown
      <4>1. f1[i] = g[q]
        BY <2>1, <3>a
      <4>2. g[q] = Grown(q)
        BY <1>3, <3>a
      <4> QED BY <3>a, <4>1, <4>2
    <3>3. f1[i] = {x \in UNION {Inserted(y, c[i]) : y \in f1[i - 1]} : x \in Seq(Entry)}
      BY <3>b
    <3>4. ASSUME NEW y \in f1[i - 1], NEW x \in Inserted(y, c[i])
          PROVE  x \in Seq(Entry)
      BY <1>6, <3>1, InsertedInSeq
    <3> QED BY <3>3, <3>4
  <2> QED BY <2>1, <2>2
<1>8. f1 = Step(f1)
  <2>1. ASSUME NEW i \in 0 .. n
        PROVE  f1[i] = IF i = 0 THEN {<< >>} ELSE UNION {Inserted(x, c[i]) : x \in f1[i - 1]}
    <3>1. CASE i = 0
      BY <1>7, <3>1
    <3>2. CASE i # 0
      <4>1. i \in 1 .. n
        BY <3>2
      <4> QED BY <1>7, <3>2, <4>1
    <3> QED BY <3>1, <3>2
  <2>2. f1 = [i \in 0 .. n |-> f1[i]]
    BY <1>5
  <2> QED BY <1>2, <2>1, <2>2
<1>9. P = Step(P)
  <2> HIDE DEF Step
  <2> QED BY <1>8
<1>10. P[0] = {<< >>} /\ \A i \in 1 .. n : P[i] = UNION {Inserted(x, c[i]) : x \in P[i - 1]}
  <2> HIDE DEF P
  <2>1. P[0] = {<< >>}
    BY <1>2, <1>9
  <2>2. ASSUME NEW i \in 1 .. n
        PROVE  P[i] = UNION {Inserted(x, c[i]) : x \in P[i - 1]}
    <3>1. i \in 0 .. Len(c) /\ i # 0
      BY <1>2
    <3>2. P[i] = IF i = 0 THEN {<< >>} ELSE UNION {Inserted(x, c[i]) : x \in P[i - 1]}
      BY <1>9, <3>1
    <3> QED BY <3>1, <3>2
  <2> QED BY <2>1, <2>2
<1>11. Rebuilt(c) = P[n]
  BY <1>2 DEF Rebuilt
<1> HIDE DEF P, Step
<1> DEFINE Q == {i \in Nat : i <= n => \A x \in P[i] : ChainOf(x, UpTo(c, i))}
<1>12. 0 \in Q
  <2>1. UpTo(c, 0) = {}
    BY DEF UpTo
  <2> QED BY <1>10, <2>1, EmptyChain
<1>13. ASSUME NEW k \in Nat, k \in Q
       PROVE  k + 1 \in Q
  <2> SUFFICES ASSUME k + 1 <= n, NEW x \in P[k + 1]
               PROVE  ChainOf(x, UpTo(c, k + 1))
    OBVIOUS
  <2>1. \A y \in P[k] : ChainOf(y, UpTo(c, k))
    BY <1>13
  <2>2. PICK m \in 1 .. n : m = k + 1 /\ m - 1 = k
    OBVIOUS
  <2>3. PICK y \in P[k] : x \in Inserted(y, c[m])
    BY <1>10, <2>2
  <2>4. UpTo(c, m) = UpTo(c, k) \cup {c[m]}
    BY <2>2 DEF UpTo
  <2>5. c[m] \notin UpTo(c, k) /\ c[m] \in Entry
    BY <1>1, <1>2, <2>2 DEF UpTo, Distinct
  <2>6. ChainOf(y, UpTo(c, k))
    BY <2>1, <2>3
  <2>7. ChainOf(x, UpTo(c, k) \cup {c[m]})
    BY <2>3, <2>5, <2>6, InsertedIs
  <2> QED BY <2>2, <2>4, <2>7
<1>14. n \in Q
  <2> HIDE DEF Q
  <2> QED BY <1>12, <1>13, ByInduction
<1>15. UpTo(c, n) = E
  BY <1>1, <1>2 DEF UpTo, AllIn, AllOf
<1> QED BY <1>11, <1>14, <1>15

-----------------------------------------------------------------------------
(* Tables.                                                                 *)

InBucket(L, n, b) == {e \in L : e[1] % n = b}

\* A table with n buckets for the entries L, each in the bucket of its key.
TableOf(array, n, L) ==
  /\ n \in Nat /\ n > 0 /\ L \subseteq Entry
  /\ array = [b \in 0 .. n - 1 |-> array[b]]
  /\ \A b \in 0 .. n - 1 : ChainOf(array[b], InBucket(L, n, b))

LinkedIn(array) == UNION {ToSet(array[b]) : b \in DOMAIN array}

LEMMA KeyIsNat == \A e \in Entry : e[1] \in Nat
BY HashAssumption DEF Entry

LEMMA RestIsBucket ==
  ASSUME NEW x \in Nat, NEW n \in Nat, n > 0
  PROVE  (x % n) \in 0 .. n - 1
OBVIOUS

LEMMA TableIs ==
  ASSUME NEW array, NEW n, NEW L, TableOf(array, n, L)
  PROVE  /\ n \in Nat /\ n > 0 /\ L \subseteq Entry
         /\ DOMAIN array = 0 .. n - 1 /\ Cardinality(DOMAIN array) = n
         /\ array \in [0 .. n - 1 -> Seq(Entry)] /\ LinkedIn(array) = L
<1>1. /\ n \in Nat /\ n > 0 /\ L \subseteq Entry /\ array = [b \in 0 .. n - 1 |-> array[b]]
      /\ \A b \in 0 .. n - 1 : ChainOf(array[b], InBucket(L, n, b))
  BY DEF TableOf
<1>2. DOMAIN array = 0 .. n - 1
  BY <1>1
<1>3. Cardinality(0 .. n - 1) = n
  <2>1. PICK last \in Int : last = n - 1 /\ ~(0 > last) /\ last - 0 + 1 = n
    BY <1>1
  <2>2. Cardinality(0 .. last) = IF 0 > last THEN 0 ELSE last - 0 + 1
    BY <2>1, FS_Interval
  <2> QED BY <2>1, <2>2
<1>4. \A b \in 0 .. n - 1 : array[b] \in Seq(Entry) /\ ToSet(array[b]) = InBucket(L, n, b)
  BY <1>1 DEF ChainOf
<1>5. array \in [0 .. n - 1 -> Seq(Entry)]
  BY <1>1, <1>4
<1>6. ASSUME NEW e \in L
      PROVE  e \in LinkedIn(array)
  <2>1. e[1] % n \in 0 .. n - 1
    BY <1>1, KeyIsNat, RestIsBucket
  <2>2. e \in ToSet(array[e[1] % n])
    BY <1>4, <2>1 DEF InBucket
  <2> QED BY <1>2, <2>1, <2>2 DEF LinkedIn
<1>7. ASSUME NEW e \in LinkedIn(array)
      PROVE  e \in L
  BY <1>2, <1>4 DEF LinkedIn, InBucket
<1> QED BY <1>1, <1>2, <1>3, <1>5, <1>6, <1>7

LEMMA EmptyTable ==
  ASSUME NEW n \in Nat, n > 0
  PROVE  TableOf([b \in 0 .. n - 1 |-> << >>], n, {})
<1>1. PICK t : t = [b \in 0 .. n - 1 |-> << >>]
  OBVIOUS
<1>2. t = [b \in 0 .. n - 1 |-> t[b]] /\ \A b \in 0 .. n - 1 : t[b] = << >>
  BY <1>1
<1>3. \A b \in 0 .. n - 1 : InBucket({}, n, b) = {}
  BY DEF InBucket
<1>4. \A b \in 0 .. n - 1 : ChainOf(t[b], InBucket({}, n, b))
  BY <1>2, <1>3, EmptyChain
<1>5. TableOf(t, n, {})
  BY <1>2, <1>4 DEF TableOf
<1> QED BY <1>1, <1>5

LEMMA WithoutIs ==
  ASSUME NEW array, NEW n, NEW L, TableOf(array, n, L), NEW S
  PROVE  TableOf(Without(array, S), n, L \ S)
<1>1. /\ n \in Nat /\ n > 0 /\ L \subseteq Entry /\ DOMAIN array = 0 .. n - 1
      /\ \A b \in 0 .. n - 1 : ChainOf(array[b], InBucket(L, n, b))
  BY TableIs DEF TableOf
<1>2. PICK t : t = [b \in 0 .. n - 1 |-> Only(array[b], Entry \ S)]
  OBVIOUS
<1>3. Without(array, S) = t
  BY <1>1, <1>2 DEF Without
<1>4. t = [b \in 0 .. n - 1 |-> t[b]] /\ \A b \in 0 .. n - 1 : t[b] = Only(array[b], Entry \ S)
  BY <1>2
<1>5. ASSUME NEW b \in 0 .. n - 1
      PROVE  ChainOf(t[b], InBucket(L \ S, n, b))
  <2>1. ChainOf(Only(array[b], Entry \ S), InBucket(L, n, b) \cap (Entry \ S))
    BY <1>1, OnlyIs
  <2>2. InBucket(L, n, b) \cap (Entry \ S) = InBucket(L \ S, n, b)
    BY <1>1 DEF InBucket
  <2> QED BY <1>4, <2>1, <2>2
<1> QED BY <1>1, <1>3, <1>4, <1>5 DEF TableOf

LEMMA OneMoreIs ==
  ASSUME NEW array, NEW n, NEW L, TableOf(array, n, L), NEW e \in Entry, e \notin L,
         NEW b, b = e[1] % n, NEW chain \in Inserted(array[b], e)
  PROVE  TableOf([array EXCEPT ![b] = chain], n, L \cup {e})
<1>1. /\ n \in Nat /\ n > 0 /\ L \subseteq Entry /\ DOMAIN array = 0 .. n - 1
      /\ array = [x \in 0 .. n - 1 |-> array[x]]
      /\ \A x \in 0 .. n - 1 : ChainOf(array[x], InBucket(L, n, x))
  BY TableIs DEF TableOf
<1>2. b \in 0 .. n - 1
  BY <1>1, KeyIsNat, RestIsBucket
<1>3. PICK t : t = [array EXCEPT ![b] = chain]
  OBVIOUS
<1>4. /\ t = [x \in 0 .. n - 1 |-> t[x]] /\ t[b] = chain
      /\ \A x \in 0 .. n - 1 : x # b => t[x] = array[x]
  BY <1>1, <1>2, <1>3
<1>5. ASSUME NEW x \in 0 .. n - 1
      PROVE  ChainOf(t[x], InBucket(L \cup {e}, n, x))
  <2>1. CASE x = b
    <3>1. e \notin InBucket(L, n, b)
      BY DEF InBucket
    <3>2. ChainOf(chain, InBucket(L, n, b) \cup {e})
      BY <1>1, <1>2, <3>1, InsertedIs
    <3>3. InBucket(L, n, b) \cup {e} = InBucket(L \cup {e}, n, b)
      BY DEF InBucket
    <3> QED BY <1>4, <2>1, <3>2, <3>3
  <2>2. CASE x # b
    <3>1. InBucket(L, n, x) = InBucket(L \cup {e}, n, x)
      BY <2>2 DEF InBucket
    <3> QED BY <1>1, <1>4, <2>2, <3>1
  <2> QED BY <2>1, <2>2
<1>6. L \cup {e} \subseteq Entry
  BY <1>1
<1> QED BY <1>1, <1>3, <1>4, <1>5, <1>6 DEF TableOf

LEMMA RestOfRest ==
  ASSUME NEW x \in Nat, NEW m \in Nat, m > 0
  PROVE  (x % (2 * m)) % m = x % m
<1>1. PICK n \in Nat : n = 2 * m /\ n > 0
  OBVIOUS
<1>2. PICK q, r \in Int : r = (x % n) /\ x = n * q + r
  BY <1>1, Division
<1>3. PICK a, b \in Int : b = (r % m) /\ 0 <= b /\ b < m /\ r = m * a + b
  <2>1. r \div m \in Int /\ (r % m) \in Int /\ 0 <= (r % m) /\ (r % m) < m
        /\ r = m * (r \div m) + (r % m)
    <3>1. r \in Int /\ m \in Int /\ m > 0
      BY <1>2
    <3> QED BY <3>1, Division
  <2> QED BY <2>1
<1>4. PICK c \in Int : c = 2 * q + a
  BY <1>2, <1>3
<1>5. x = m * c + b
  <2>1. m * c = m * (2 * q) + m * a
    BY <1>2, <1>3, <1>4
  <2>2. m * (2 * q) = n * q
    BY <1>1, <1>2
  <2> QED BY <1>2, <1>3, <2>1, <2>2
<1>6. (m * c + b) % m = b
  BY <1>3, <1>4, Quotient
<1> QED BY <1>1, <1>2, <1>3, <1>5, <1>6

LEMMA SplitIs ==
  ASSUME NEW array, NEW m, NEW L, TableOf(array, m, L), NEW t \in HSplit(array, 2 * m)
  PROVE  TableOf(t, 2 * m, L)
<1>1. /\ m \in Nat /\ m > 0 /\ L \subseteq Entry /\ Cardinality(DOMAIN array) = m
      /\ \A b \in 0 .. m - 1 : ChainOf(array[b], InBucket(L, m, b))
  BY TableIs DEF TableOf
<1>2. PICK n \in Nat : n = 2 * m /\ n > 0
  BY <1>1
<1> DEFINE old == Cardinality(DOMAIN array)
           To(b) == Only(array[b % old], {e \in Entry : e[1] % n = b})
           May(b) == IF b < old THEN {To(b)} ELSE Rebuilt(To(b))
<1>3. /\ t \in [0 .. n - 1 -> UNION {May(b) : b \in 0 .. n - 1}]
      /\ \A b \in 0 .. n - 1 : t[b] \in May(b)
  <2>1. t \in HSplit(array, n)
    BY <1>2
  <2>2. HSplit(array, n) = {h \in [0 .. n - 1 -> UNION {May(b) : b \in 0 .. n - 1}] :
                              \A b \in 0 .. n - 1 : h[b] \in May(b)}
    BY DEF HSplit, BucketOf
  <2> HIDE DEF May
  <2> QED BY <2>1, <2>2
<1>4. t = [b \in 0 .. n - 1 |-> t[b]]
  BY <1>3
<1>5. ASSUME NEW b \in 0 .. n - 1
      PROVE  ChainOf(t[b], InBucket(L, n, b))
  <2>1. b % m \in 0 .. m - 1
    BY <1>1, RestIsBucket
  <2>2. ChainOf(To(b), InBucket(L, m, b % m) \cap {e \in Entry : e[1] % n = b})
    <3>1. ChainOf(array[b % m], InBucket(L, m, b % m))
      BY <1>1, <2>1
    <3>2. To(b) = Only(array[b % m], {e \in Entry : e[1] % n = b})
      BY <1>1
    <3> QED BY <3>1, <3>2, OnlyIs
  <2>3. InBucket(L, m, b % m) \cap {e \in Entry : e[1] % n = b} = InBucket(L, n, b)
    <3>1. ASSUME NEW e \in L, e[1] % n = b
          PROVE  e[1] % m = b % m
      <4>1. e[1] \in Nat
        BY <1>1, KeyIsNat
      <4> QED BY <1>1, <1>2, <3>1, <4>1, RestOfRest
    <3> QED BY <1>1, <3>1 DEF InBucket
  <2>4. ChainOf(To(b), InBucket(L, n, b))
    BY <2>2, <2>3
  <2>5. t[b] = To(b) \/ t[b] \in Rebuilt(To(b))
    BY <1>3
  <2> HIDE DEF To
  <2> QED BY <2>4, <2>5, RebuiltIs
<1> QED BY <1>1, <1>2, <1>4, <1>5 DEF TableOf

\* The first entry of a chain goes.
LEMMA HeadGone ==
  ASSUME NEW array, NEW n, NEW L, TableOf(array, n, L), NEW b \in 0 .. n - 1, array[b] # << >>,
         NEW t, t = [array EXCEPT ![b] = Tail(@)]
  PROVE  array[b][1] \in L /\ TableOf(t, n, L \ {array[b][1]})
<1>1. /\ n \in Nat /\ n > 0 /\ L \subseteq Entry /\ DOMAIN array = 0 .. n - 1
      /\ array = [x \in 0 .. n - 1 |-> array[x]]
      /\ \A x \in 0 .. n - 1 : ChainOf(array[x], InBucket(L, n, x))
  BY TableIs DEF TableOf
<1>2. PICK c : c = array[b]
  OBVIOUS
<1>3. PICK S : S = InBucket(L, n, b)
  OBVIOUS
<1>4. c \in Seq(Entry) /\ Distinct(c) /\ AllIn(c, S) /\ AllOf(c, S) /\ c # << >>
  BY <1>1, <1>2, <1>3, ChainIs
<1>5. PICK l \in Nat : l = Len(c) /\ l >= 1
  BY <1>4
<1>6. PICK e : e = c[1]
  OBVIOUS
<1>7. e \in S
  BY <1>4, <1>5, <1>6 DEF AllIn
<1>8. PICK r : r = Tail(c)
  OBVIOUS
<1>9. r \in Seq(Entry) /\ Len(r) = l - 1 /\ \A i \in 1 .. l - 1 : r[i] = c[i + 1]
  BY <1>4, <1>5, <1>8, HeadTailProperties
<1>10. \A i \in 1 .. l - 1 : i + 1 \in 1 .. l /\ i + 1 # 1
  BY <1>5
<1>11. ChainOf(r, S \ {e})
  <2>1. Distinct(r)
    <3> SUFFICES ASSUME NEW i \in 1 .. l - 1, NEW j \in 1 .. l - 1, r[i] = r[j]
                 PROVE  i = j
      BY <1>9 DEF Distinct
    <3>1. c[i + 1] = c[j + 1]
      BY <1>9
    <3>2. i + 1 = j + 1
      BY <1>4, <1>5, <1>10, <3>1 DEF Distinct
    <3> QED BY <3>2
  <2>2. AllIn(r, S \ {e})
    <3>1. ASSUME NEW i \in 1 .. l - 1
          PROVE  r[i] \in S /\ r[i] # e
      <4>1. r[i] = c[i + 1] /\ i + 1 \in 1 .. l /\ i + 1 # 1
        BY <1>9, <1>10
      <4>2. c[i + 1] \in S
        BY <1>4, <1>5, <4>1 DEF AllIn
      <4>3. c[i + 1] # c[1]
        BY <1>4, <1>5, <4>1 DEF Distinct
      <4> QED BY <1>6, <4>1, <4>2, <4>3
    <3> QED BY <1>9, <3>1 DEF AllIn
  <2>3. AllOf(r, S \ {e})
    <3>1. ASSUME NEW x \in S \ {e}
          PROVE  \E i \in 1 .. l - 1 : r[i] = x
      <4>1. PICK i \in 1 .. l : c[i] = x
        BY <1>4, <1>5 DEF AllOf
      <4>2. i # 1
        BY <1>6, <3>1, <4>1
      <4>3. i - 1 \in 1 .. l - 1 /\ i - 1 + 1 = i
        BY <4>2
      <4>4. r[i - 1] = c[i - 1 + 1]
        BY <1>9, <4>3
      <4> QED BY <4>1, <4>3, <4>4
    <3> QED BY <1>9, <3>1 DEF AllOf
  <2> QED BY <1>9, <2>1, <2>2, <2>3, ChainIs
<1>12. /\ t = [x \in 0 .. n - 1 |-> t[x]] /\ t[b] = r
       /\ \A x \in 0 .. n - 1 : x # b => t[x] = array[x]
  BY <1>1, <1>2, <1>8
<1>13. ASSUME NEW x \in 0 .. n - 1
       PROVE  ChainOf(t[x], InBucket(L \ {e}, n, x))
  <2>1. CASE x = b
    <3>1. S \ {e} = InBucket(L \ {e}, n, x)
      BY <1>3, <2>1 DEF InBucket
    <3> QED BY <1>11, <1>12, <2>1, <3>1
  <2>2. CASE x # b
    <3>1. InBucket(L, n, x) = InBucket(L \ {e}, n, x)
      BY <1>3, <1>7, <2>2 DEF InBucket
    <3> QED BY <1>1, <1>12, <2>2, <3>1
  <2> QED BY <2>1, <2>2
<1>14. e \in L
  BY <1>3, <1>7 DEF InBucket
<1>15. TableOf(t, n, L \ {e})
  BY <1>1, <1>12, <1>13 DEF TableOf
<1> QED BY <1>2, <1>6, <1>14, <1>15

LEMMA FromIs ==
  ASSUME NEW array, NEW n, NEW L, TableOf(array, n, L), NEW e \in L
  PROVE  From(array, e) \in Seq(Entry) /\ Len(From(array, e)) >= 1 /\ AllIn(From(array, e), L)
<1>1. /\ n \in Nat /\ n > 0 /\ L \subseteq Entry /\ DOMAIN array = 0 .. n - 1
      /\ LinkedIn(array) = L
      /\ \A x \in 0 .. n - 1 : ChainOf(array[x], InBucket(L, n, x))
  BY TableIs DEF TableOf
<1>2. \E x \in DOMAIN array : e \in ToSet(array[x])
  BY <1>1 DEF LinkedIn
<1>3. PICK b : b = CHOOSE x \in DOMAIN array : e \in ToSet(array[x])
  OBVIOUS
<1>4. b \in 0 .. n - 1 /\ e \in ToSet(array[b])
  BY <1>1, <1>2, <1>3
<1>5. PICK c : c = array[b]
  OBVIOUS
<1>6. c \in Seq(Entry) /\ AllIn(c, L)
  <2>1. c \in Seq(Entry) /\ AllIn(c, InBucket(L, n, b))
    BY <1>1, <1>4, <1>5, ChainIs
  <2> QED BY <2>1 DEF AllIn, InBucket
<1>7. \E i \in DOMAIN c : c[i] = e
  BY <1>4, <1>5 DEF ToSet
<1>8. PICK k : k = CHOOSE i \in DOMAIN c : c[i] = e
  OBVIOUS
<1>9. k \in DOMAIN c
  BY <1>7, <1>8
<1>10. PICK l \in Nat : l = Len(c)
  BY <1>6
<1>11. k \in 1 .. l
  BY <1>6, <1>9, <1>10
<1>12. From(array, e) = SubSeq(c, k, l)
  BY <1>3, <1>5, <1>8, <1>10 DEF From
<1>13. \A i \in k .. l : c[i] \in Entry /\ c[i] \in L
  BY <1>6, <1>10, <1>11 DEF AllIn
<1>14. /\ SubSeq(c, k, l) \in Seq(Entry)
       /\ Len(SubSeq(c, k, l)) = IF k <= l THEN l - k + 1 ELSE 0
       /\ \A i \in 1 .. l - k + 1 : SubSeq(c, k, l)[i] = c[k + i - 1]
  <2>1. \A i \in k .. l : c[i] \in Entry
    BY <1>13
  <2>2. k \in Int /\ l \in Int
    BY <1>10, <1>11
  <2> QED BY <2>1, <2>2, SubSeqProperties
<1>15. Len(SubSeq(c, k, l)) = l - k + 1 /\ l - k + 1 >= 1
  BY <1>11, <1>14
<1>16. ASSUME NEW i \in 1 .. l - k + 1
       PROVE  SubSeq(c, k, l)[i] \in L
  <2>1. k + i - 1 \in k .. l
    BY <1>11
  <2> QED BY <1>13, <1>14, <2>1
<1> QED BY <1>12, <1>14, <1>15, <1>16 DEF AllIn

LEMMA FirstOfIs ==
  ASSUME NEW array, NEW n, NEW L, TableOf(array, n, L), NEW e \in L \cup {NULL}, NEW S
  PROVE  FirstOf(array, e, S) \in (L \ S) \cup {NULL}
<1> DEFINE chain == From(array, e)
           left == {i \in DOMAIN chain : chain[i] \notin S}
<1>1. CASE e = NULL \/ left = {}
  BY <1>1 DEF FirstOf
<1>2. CASE e # NULL /\ left # {}
  <2>1. chain \in Seq(Entry) /\ AllIn(chain, L)
    BY <1>2, FromIs
  <2>2. DOMAIN chain = 1 .. Len(chain)
    BY <2>1
  <2>3. left \subseteq Nat
    BY <2>2
  <2> HIDE DEF chain
  <2>4. PICK k \in left : \A m \in left : ~(m < k)
    <3> HIDE DEF left
    <3> QED BY <1>2, <2>3, LeastOf
  <2>5. \A m \in left : k <= m
    BY <2>3, <2>4
  <2>6. Min(left) \in left
    <3> HIDE DEF left
    <3> QED BY <2>4, <2>5 DEF Min
  <2>7. chain[Min(left)] \in L \ S
    BY <2>1, <2>2, <2>6 DEF AllIn
  <2> USE DEF chain
  <2>8. FirstOf(array, e, S) = chain[Min(left)]
    BY <1>2 DEF FirstOf
  <2> QED BY <2>7, <2>8
<1> QED BY <1>1, <1>2

LEMMA HeNEXTIs ==
  ASSUME NEW array, NEW n, NEW L, TableOf(array, n, L), lazynext \in L \cup {NULL}, NEW e
  PROVE  HeNEXT(array, e) \in L \cup {NULL}
<1>1. UNION {ToSet(array[b]) : b \in DOMAIN array} = L
  BY TableIs DEF LinkedIn
<1>2. CASE e \notin L
  BY <1>1, <1>2 DEF HeNEXT
<1>3. CASE e \in L
  <2>1. PICK c : c = From(array, e)
    OBVIOUS
  <2>2. c \in Seq(Entry) /\ Len(c) >= 1 /\ AllIn(c, L)
    BY <1>3, <2>1, FromIs
  <2>3. CASE Len(c) = 1
    BY <1>1, <1>3, <2>1, <2>3 DEF HeNEXT
  <2>4. CASE Len(c) # 1
    <3>1. HeNEXT(array, e) = c[2]
      BY <1>1, <1>3, <2>1, <2>4 DEF HeNEXT
    <3>2. 2 \in 1 .. Len(c)
      BY <2>2, <2>4
    <3> QED BY <2>2, <3>1, <3>2 DEF AllIn
  <2> QED BY <2>3, <2>4
<1> QED BY <1>2, <1>3


-----------------------------------------------------------------------------
(* Numbers of buckets.                                                     *)

Power == [i \in 0 .. 30 |-> 2^i]
Sizes == {Power[i] : i \in 0 .. 30}

\* The powers of two, by what Doublings shows of them.
Doubling(p) == p[0] = 1 /\ \A i \in 1 .. 30 : p[i] = p[i - 1] * 2
Positive(p) == \A i \in 0 .. 30 : p[i] \in Nat /\ p[i] > 0
TurnsSumsIntoProducts(p) == \A i, j \in 0 .. 30 : i + j <= 30 => p[i + j] = p[i] * p[j]

LEMMA DoublingIs ==
  ASSUME NEW p, Doubling(p)
  PROVE  Positive(p) /\ TurnsSumsIntoProducts(p)
<1>1. PICK n \in Nat : n = 30
  OBVIOUS
<1>2. p[0] = 1 /\ \A i \in 1 .. n : p[i] = p[i - 1] * 2
  BY <1>1 DEF Doubling
<1>3. /\ \A i \in 0 .. n : p[i] \in Nat /\ p[i] > 0
      /\ \A i, j \in 0 .. n : i + j <= n => p[i + j] = p[i] * p[j]
  BY <1>2, Doublings
<1> QED BY <1>1, <1>3 DEF Positive, TurnsSumsIntoProducts

LEMMA SizePowersAre == Doubling(Power) /\ Positive(Power) /\ TurnsSumsIntoProducts(Power)
<1>1. Power[0] = 1
  BY PowersAssumption DEF Power
<1>2. ASSUME NEW i \in 1 .. 30
      PROVE  Power[i] = Power[i - 1] * 2
  <2>1. PICK k \in 0 .. 30 : k = i - 1
    OBVIOUS
  <2>2. Power[i] = 2^i /\ Power[k] = 2^k
    BY DEF Power
  <2>3. 2^i = 2^(i - 1) * 2
    BY PowersAssumption
  <2> QED BY <2>1, <2>2, <2>3
<1>3. Doubling(Power)
  BY <1>1, <1>2 DEF Doubling
<1> QED BY <1>3, DoublingIs

LEMMA SizesAre == Sizes = {2^i : i \in 0 .. 30}
BY DEF Sizes, Power

LEMMA PowerIsPositive ==
  ASSUME NEW i \in 0 .. 30
  PROVE  Power[i] \in Nat /\ Power[i] > 0
BY SizePowersAre DEF Positive

LEMMA SizeIsPositive ==
  ASSUME NEW n \in Sizes
  PROVE  n \in Nat /\ n > 0
<1>1. PICK i \in 0 .. 30 : n = Power[i]
  BY DEF Sizes
<1> QED BY <1>1, PowerIsPositive

LEMMA NoSmaller ==
  ASSUME NEW i \in 0 .. 30, NEW j \in 0 .. 30, i <= j
  PROVE  Power[i] <= Power[j]
<1>1. PICK k \in 0 .. 30 : k = j - i /\ i + k = j
  OBVIOUS
<1>2. PICK x \in Nat : x = Power[i]
  BY PowerIsPositive
<1>3. PICK y \in Nat : y = Power[k] /\ y >= 1
  BY PowerIsPositive
<1>4. Power[i + k] = Power[i] * Power[k]
  BY <1>1, SizePowersAre DEF TurnsSumsIntoProducts
<1>5. x * y >= x
  BY <1>2, <1>3
<1> QED BY <1>1, <1>2, <1>3, <1>4, <1>5

\* A table that is not of the greatest size may be doubled.
LEMMA TwiceTheSize ==
  ASSUME NEW n \in Sizes, NEW max \in Sizes, n < max
  PROVE  2 * n \in Sizes /\ 2 * n <= max
<1>1. PICK i \in 0 .. 30 : n = Power[i]
  BY DEF Sizes
<1>2. PICK j \in 0 .. 30 : max = Power[j]
  BY DEF Sizes
<1>3. n \in Nat /\ max \in Nat
  BY SizeIsPositive
<1>4. i < j
  <2>1. CASE j <= i
    BY <1>1, <1>2, <1>3, <2>1, NoSmaller
  <2> QED BY <2>1
<1>5. PICK k \in 1 .. 30 : k = i + 1 /\ k - 1 = i /\ k <= j
  BY <1>4
<1>6. Power[k] = 2 * n
  <2>1. Power[k] = Power[k - 1] * 2
    BY <1>5, SizePowersAre DEF Doubling
  <2> QED BY <1>1, <1>3, <1>5, <2>1
<1>7. Power[k] <= Power[j]
  BY <1>5, NoSmaller
<1> QED BY <1>2, <1>5, <1>6, <1>7 DEF Sizes

LEMMA XorIsNat ==
  ASSUME NEW x \in Nat, NEW y \in Nat
  PROVE  Xor(x, y) \in Nat
<1> DEFINE bits == CHOOSE i \in 0 .. 30 : 2^i = MaxBuckets
           SumOfBits(i) == 2^(i - 1) * ((x \div 2^(i - 1) + y \div 2^(i - 1)) % 2)
           Step(p) == [i \in 0 .. bits |-> IF i = 0 THEN 0 ELSE p[i - 1] + SumOfBits(i)]
           P == CHOOSE p : p = Step(p)
<1>1. bits \in 0 .. 30
  BY HashAssumption
<1>2. PICK n \in Nat : n = bits /\ n <= 30
  BY <1>1
<1>3. ASSUME NEW i \in 1 .. n
      PROVE  SumOfBits(i) \in Nat
  <2>1. PICK k \in 0 .. 30 : k = i - 1
    BY <1>2
  <2>2. Power[k] = 2^k
    BY DEF Power
  <2>3. PICK m \in Nat : m = 2^(i - 1) /\ m > 0
    BY <2>1, <2>2, PowerIsPositive
  <2>4. x \div m \in Nat /\ y \div m \in Nat
    BY <2>3
  <2>5. (x \div m + y \div m) % 2 \in Nat
    BY <2>4
  <2>6. m * ((x \div m + y \div m) % 2) \in Nat
    BY <2>3, <2>5
  <2> QED BY <2>3, <2>6
<1>4. PICK d : d = [i \in 1 .. n |-> SumOfBits(i)]
  OBVIOUS
<1>5. \A i \in 1 .. n : d[i] = SumOfBits(i) /\ d[i] \in Nat
  <2> HIDE DEF SumOfBits
  <2> QED BY <1>3, <1>4
<1>6. PICK g : g = [q \in Nat \X (1 .. n) |-> q[1] + d[q[2]]]
  OBVIOUS
<1>7. g \in [Nat \X (1 .. n) -> Nat]
  <2> HIDE DEF SumOfBits
  <2>1. \A q \in Nat \X (1 .. n) : q[1] + d[q[2]] \in Nat
    BY <1>5
  <2> QED BY <1>6, <2>1
<1> HIDE DEF SumOfBits
<1>8. PICK p1 \in [0 .. n -> Nat] : Stepwise(p1, n, 0, g)
  BY <1>7, StepwiseExists
<1>9. p1[0] = 0 /\ \A i \in 1 .. n : p1[i] = p1[i - 1] + SumOfBits(i)
  <2>1. p1[0] = 0 /\ \A i \in 1 .. n : p1[i] = g[<<p1[i - 1], i>>]
    BY <1>8 DEF Stepwise
  <2>2. ASSUME NEW i \in 1 .. n
        PROVE  p1[i] = p1[i - 1] + SumOfBits(i)
    <3>1. p1[i - 1] \in Nat
      BY <1>8
    <3>2. <<p1[i - 1], i>> \in Nat \X (1 .. n)
      BY <3>1
    <3>3. PICK q \in Nat \X (1 .. n) : q = <<p1[i - 1], i>>
      BY <3>2
    <3>4. p1[i] = g[q]
      BY <2>1, <3>3
    <3>5. g[q] = q[1] + d[q[2]] /\ q[1] = p1[i - 1] /\ q[2] = i
      BY <1>6, <3>3
    <3> QED BY <1>5, <3>4, <3>5
  <2> QED BY <2>1, <2>2
<1>10. p1 = Step(p1)
  <2>1. ASSUME NEW i \in 0 .. n
        PROVE  p1[i] = IF i = 0 THEN 0 ELSE p1[i - 1] + SumOfBits(i)
    <3>1. CASE i = 0
      BY <1>9, <3>1
    <3>2. CASE i # 0
      <4>1. i \in 1 .. n
        BY <3>2
      <4> QED BY <1>9, <3>2, <4>1
    <3> QED BY <3>1, <3>2
  <2>2. p1 = [i \in 0 .. n |-> p1[i]]
    BY <1>8
  <2> QED BY <1>2, <2>1, <2>2
<1>11. P = Step(P)
  <2> HIDE DEF Step
  <2> QED BY <1>10
<1>12. P[0] = 0 /\ \A i \in 1 .. n : P[i] = P[i - 1] + SumOfBits(i)
  <2> HIDE DEF P
  <2>1. P[0] = 0
    BY <1>2, <1>11
  <2>2. ASSUME NEW i \in 1 .. n
        PROVE  P[i] = P[i - 1] + SumOfBits(i)
    <3>1. i \in 0 .. bits /\ i # 0
      BY <1>2
    <3>2. P[i] = IF i = 0 THEN 0 ELSE P[i - 1] + SumOfBits(i)
      BY <1>11, <3>1
    <3> QED BY <3>1, <3>2
  <2> QED BY <2>1, <2>2
<1>13. Xor(x, y) = P[n]
  BY <1>2 DEF Xor, SumOfBits
<1> HIDE DEF P, Step
<1> DEFINE Q == {i \in Nat : i <= n => P[i] \in Nat}
<1>14. 0 \in Q
  BY <1>12
<1>15. ASSUME NEW k \in Nat, k \in Q
       PROVE  k + 1 \in Q
  <2> SUFFICES ASSUME k + 1 <= n
               PROVE  P[k + 1] \in Nat
    OBVIOUS
  <2>1. PICK m \in 1 .. n : m = k + 1 /\ m - 1 = k
    OBVIOUS
  <2>2. P[k] \in Nat
    BY <1>15
  <2>3. P[m] = P[m - 1] + SumOfBits(m) /\ SumOfBits(m) \in Nat
    BY <1>3, <1>12
  <2> QED BY <2>1, <2>2, <2>3
<1>16. n \in Q
  <2> HIDE DEF Q
  <2> QED BY <1>14, <1>15, ByInduction
<1> QED BY <1>13, <1>16

-----------------------------------------------------------------------------
(* Entries and their counters.                                             *)

Alone(L) == \A e, f1 \in L : e[1] = f1[1] => e = f1

\* The entries L, of which P are placeholders, and the two counters.  While
\* the hash is being emptied the counter of placeholders stays behind.
Entries(L, P, keys, slots, current) ==
  /\ L \subseteq Entry /\ IsFiniteSet(L) /\ Alone(L)
  /\ P \subseteq L
  /\ keys = Cardinality(L)
  /\ slots \in Nat /\ Cardinality(P) <= slots
  /\ current => slots = Cardinality(P)

LEMMA Countable ==
  ASSUME NEW L, IsFiniteSet(L), NEW P, P \subseteq L
  PROVE  /\ IsFiniteSet(P) /\ IsFiniteSet(L \ P)
         /\ Cardinality(L) \in Nat /\ Cardinality(P) \in Nat
         /\ Cardinality(P) <= Cardinality(L)
         /\ Cardinality(L \ P) = Cardinality(L) - Cardinality(P)
<1>1. IsFiniteSet(P) /\ Cardinality(P) <= Cardinality(L)
  BY FS_Subset
<1>2. IsFiniteSet(L \ P) /\ Cardinality(L \ P) = Cardinality(L) - Cardinality(L \cap P)
  BY FS_Difference
<1>3. L \cap P = P
  OBVIOUS
<1>4. Cardinality(L) \in Nat /\ Cardinality(P) \in Nat
  BY <1>1, FS_CardinalityType
<1> QED BY <1>1, <1>2, <1>3, <1>4

LEMMA OneLess ==
  ASSUME NEW L, IsFiniteSet(L), NEW e \in L
  PROVE  IsFiniteSet(L \ {e}) /\ Cardinality(L \ {e}) = Cardinality(L) - 1 /\ Cardinality(L) > 0
<1>1. Cardinality({e}) = 1
  BY FS_Singleton
<1>2. {e} \subseteq L
  OBVIOUS
<1> QED BY <1>1, <1>2, Countable

LEMMA OneMoreOf ==
  ASSUME NEW L, IsFiniteSet(L), NEW e, e \notin L
  PROVE  IsFiniteSet(L \cup {e}) /\ Cardinality(L \cup {e}) = Cardinality(L) + 1
BY FS_AddElement

\* The placeholder e gets a value.
LEMMA ValueAgain ==
  ASSUME NEW L, NEW P, NEW keys, NEW slots, Entries(L, P, keys, slots, TRUE), NEW e \in P
  PROVE  Entries(L, P \ {e}, keys, slots - 1, TRUE)
<1>1. /\ L \subseteq Entry /\ IsFiniteSet(L) /\ Alone(L) /\ P \subseteq L /\ keys = Cardinality(L)
      /\ slots \in Nat /\ slots = Cardinality(P)
  BY DEF Entries
<1>2. IsFiniteSet(P)
  BY <1>1, Countable
<1>3. Cardinality(P \ {e}) = slots - 1 /\ slots > 0
  BY <1>1, <1>2, OneLess
<1>4. slots - 1 \in Nat /\ slots - 1 <= slots - 1
  BY <1>1, <1>3
<1>5. P \ {e} \subseteq L
  BY <1>1
<1> QED BY <1>1, <1>3, <1>4, <1>5 DEF Entries

\* An entry of L becomes a placeholder.
LEMMA ValueGone ==
  ASSUME NEW L, NEW P, NEW keys, NEW slots, Entries(L, P, keys, slots, TRUE), NEW e \in L \ P
  PROVE  Entries(L, P \cup {e}, keys, slots + 1, TRUE)
<1>1. /\ L \subseteq Entry /\ IsFiniteSet(L) /\ Alone(L) /\ P \subseteq L /\ keys = Cardinality(L)
      /\ slots \in Nat /\ slots = Cardinality(P)
  BY DEF Entries
<1>2. IsFiniteSet(P)
  BY <1>1, Countable
<1>3. Cardinality(P \cup {e}) = slots + 1
  BY <1>1, <1>2, OneMoreOf
<1>4. slots + 1 \in Nat /\ slots + 1 <= slots + 1
  BY <1>1
<1>5. P \cup {e} \subseteq L
  BY <1>1
<1> QED BY <1>1, <1>3, <1>4, <1>5 DEF Entries

LEMMA NewEntry ==
  ASSUME NEW L, NEW P, NEW keys, NEW slots, Entries(L, P, keys, slots, TRUE),
         NEW e \in Entry, e[1] \notin {x[1] : x \in L}
  PROVE  Entries(L \cup {e}, P, keys + 1, slots, TRUE)
<1>1. /\ L \subseteq Entry /\ IsFiniteSet(L) /\ Alone(L) /\ P \subseteq L /\ keys = Cardinality(L)
      /\ slots \in Nat /\ Cardinality(P) <= slots /\ slots = Cardinality(P)
  BY DEF Entries
<1>2. \A x \in L : x[1] # e[1]
  OBVIOUS
<1>3. e \notin L
  BY <1>2
<1>4. IsFiniteSet(L \cup {e}) /\ Cardinality(L \cup {e}) = keys + 1
  BY <1>1, <1>3, OneMoreOf
<1>5. Alone(L \cup {e})
  BY <1>1, <1>2 DEF Alone
<1>6. L \cup {e} \subseteq Entry /\ P \subseteq L \cup {e}
  BY <1>1
<1> QED BY <1>1, <1>4, <1>5, <1>6 DEF Entries

\* All placeholders go.
LEMMA Purged ==
  ASSUME NEW L, NEW P, NEW keys, NEW slots, Entries(L, P, keys, slots, TRUE)
  PROVE  Entries(L \ P, {}, keys - slots, 0, TRUE) /\ keys - slots \in Nat
<1>1. /\ L \subseteq Entry /\ IsFiniteSet(L) /\ Alone(L) /\ P \subseteq L /\ keys = Cardinality(L)
      /\ slots = Cardinality(P)
  BY DEF Entries
<1>2. /\ IsFiniteSet(L \ P) /\ Cardinality(L \ P) = keys - slots
  BY <1>1, Countable
<1>3. Cardinality({}) = 0 /\ Cardinality(L \ P) \in Nat
  BY <1>2, FS_EmptySet, FS_CardinalityType
<1>4. Alone(L \ P) /\ L \ P \subseteq Entry
  BY <1>1 DEF Alone
<1> QED BY <1>2, <1>3, <1>4 DEF Entries

\* An entry that has a value goes.
LEMMA EntryGone ==
  ASSUME NEW L, NEW P, NEW keys, NEW slots, Entries(L, P, keys, slots, TRUE), NEW e \in L \ P
  PROVE  Entries(L \ {e}, P \ {e}, keys - 1, slots, TRUE)
<1>1. /\ L \subseteq Entry /\ IsFiniteSet(L) /\ Alone(L) /\ P \subseteq L /\ keys = Cardinality(L)
      /\ slots \in Nat /\ Cardinality(P) <= slots /\ slots = Cardinality(P)
  BY DEF Entries
<1>2. IsFiniteSet(L \ {e}) /\ Cardinality(L \ {e}) = keys - 1
  BY <1>1, OneLess
<1>3. P \ {e} = P
  OBVIOUS
<1>4. Alone(L \ {e}) /\ L \ {e} \subseteq Entry /\ P \subseteq L \ {e}
  BY <1>1 DEF Alone
<1> QED BY <1>1, <1>2, <1>3, <1>4 DEF Entries

\* While the hash is being emptied any entry goes.
LEMMA AnyEntryGone ==
  ASSUME NEW L, NEW P, NEW keys, NEW slots, NEW current, Entries(L, P, keys, slots, current),
         NEW e \in L
  PROVE  Entries(L \ {e}, P \ {e}, keys - 1, slots, FALSE)
<1>1. /\ L \subseteq Entry /\ IsFiniteSet(L) /\ Alone(L) /\ P \subseteq L /\ keys = Cardinality(L)
      /\ slots \in Nat /\ Cardinality(P) <= slots
  BY DEF Entries
<1>2. IsFiniteSet(L \ {e}) /\ Cardinality(L \ {e}) = keys - 1
  BY <1>1, OneLess
<1>3. IsFiniteSet(P) /\ P \ {e} \subseteq P
  BY <1>1, Countable
<1>4. Cardinality(P \ {e}) \in Nat /\ Cardinality(P) \in Nat /\ Cardinality(P \ {e}) <= Cardinality(P)
  BY <1>3, Countable
<1>5. Cardinality(P \ {e}) <= slots
  BY <1>1, <1>4
<1>6. Alone(L \ {e}) /\ L \ {e} \subseteq Entry /\ P \ {e} \subseteq L \ {e}
  BY <1>1 DEF Alone
<1> QED BY <1>1, <1>2, <1>5, <1>6 DEF Entries

LEMMA NoEntries == Entries({}, {}, 0, 0, TRUE)
<1>1. IsFiniteSet({}) /\ Cardinality({}) = 0
  BY FS_EmptySet
<1> QED BY <1>1 DEF Entries, Alone

\* A counter that is current may as well not be.
LEMMA MayBeBehind ==
  ASSUME NEW L, NEW P, NEW keys, NEW slots, Entries(L, P, keys, slots, TRUE), NEW current
  PROVE  Entries(L, P, keys, slots, current)
BY DEF Entries

-----------------------------------------------------------------------------
(* The iterator, and what is kept for it.                                  *)

\* The iterator's entry e is among the entries L of the table or, when and only
\* when the flag is up, beside them; all are the entries there are.  Only an
\* entry that is beside the table has its own next.
Pointers(L, all, e, lazy, next) ==
  /\ e \in Entry \cup {NULL}
  /\ lazy \in BOOLEAN
  /\ lazy <=> e # NULL /\ e \notin L
  /\ all = L \cup (IF lazy THEN {e} ELSE {})
  /\ next \in L \cup {NULL}
  /\ ~lazy => next = NULL

LEMMA NullIsNoEntry == NULL \notin Entry
BY HashAssumption DEF Entry

LEMMA IteratorAtStart ==
  ASSUME NEW L, L \subseteq Entry
  PROVE  Pointers(L, L, NULL, FALSE, NULL)
BY DEF Pointers

\* What there is when the iterator has freed what it kept.
LEMMA KeptIsFreed ==
  ASSUME NEW L, Pointers(L, allocated, xhv_eiter, HvLAZYDEL, lazynext)
  PROVE  allocated \ Kept = L
<1>1. /\ HvLAZYDEL \in BOOLEAN /\ (HvLAZYDEL <=> xhv_eiter # NULL /\ xhv_eiter \notin L)
      /\ allocated = L \cup (IF HvLAZYDEL THEN {xhv_eiter} ELSE {})
  BY DEF Pointers
<1>2. CASE HvLAZYDEL
  <2>1. Kept = {xhv_eiter} /\ xhv_eiter \notin L /\ allocated = L \cup {xhv_eiter}
    BY <1>1, <1>2 DEF Kept
  <2> QED BY <2>1
<1>3. CASE ~HvLAZYDEL
  <2>1. Kept = {} /\ allocated = L
    BY <1>1, <1>3 DEF Kept
  <2> QED BY <2>1
<1> QED BY <1>2, <1>3

LEMMA ResetIs ==
  ASSUME NEW L, L \subseteq Entry, Pointers(L, allocated, xhv_eiter, HvLAZYDEL, lazynext),
         NEW S, ResetIterator(S)
  PROVE  /\ Pointers(L \ S, allocated', xhv_eiter', HvLAZYDEL', lazynext')
         /\ xhv_riter' = -1 /\ owed' = {} /\ spoiled' = FALSE /\ HvLAZYDEL' = FALSE
<1>1. /\ allocated' = allocated \ (S \cup Kept) /\ HvLAZYDEL' = FALSE /\ lazynext' = NULL
      /\ xhv_riter' = -1 /\ xhv_eiter' = NULL /\ owed' = {} /\ spoiled' = FALSE
  BY DEF ResetIterator
<1>2. allocated' = L \ S
  <2>1. allocated \ (S \cup Kept) = (allocated \ Kept) \ S
    OBVIOUS
  <2> QED BY <1>1, <2>1, KeptIsFreed
<1>3. Pointers(L \ S, L \ S, NULL, FALSE, NULL)
  BY IteratorAtStart
<1> QED BY <1>1, <1>2, <1>3

\* S leaves a table that, with the new entries, has the entries L1.
LEMMA FreeOrDeferIs ==
  ASSUME NEW L, NEW new, new \subseteq Entry, new \cap allocated = {},
         Pointers(L, allocated, xhv_eiter, HvLAZYDEL, lazynext),
         NEW array, NEW n, TableOf(array, n, L \cup new),
         NEW S, S \subseteq L, FreeOrDefer(array, S, new), xhv_eiter' = xhv_eiter
  PROVE  Pointers((L \cup new) \ S, allocated', xhv_eiter', HvLAZYDEL', lazynext')
<1>1. /\ xhv_eiter \in Entry \cup {NULL} /\ HvLAZYDEL \in BOOLEAN
      /\ (HvLAZYDEL <=> xhv_eiter # NULL /\ xhv_eiter \notin L)
      /\ allocated = L \cup (IF HvLAZYDEL THEN {xhv_eiter} ELSE {})
      /\ lazynext \in L \cup {NULL} /\ (~HvLAZYDEL => lazynext = NULL)
  BY DEF Pointers
<1>2. /\ allocated' = (allocated \cup new) \ (S \ {xhv_eiter})
      /\ HvLAZYDEL' = (HvLAZYDEL \/ xhv_eiter \in S)
  BY DEF FreeOrDefer, Deferred
<1>3. L \cup new \subseteq Entry
  BY TableIs
<1>4. NULL \notin S /\ NULL \notin new
  BY <1>3, NullIsNoEntry
<1>5. xhv_eiter \notin new
  <2>1. CASE HvLAZYDEL
    BY <1>1, <2>1
  <2>2. CASE ~HvLAZYDEL
    BY <1>1, <1>4, <2>2
  <2> QED BY <1>1, <2>1, <2>2
<1>6. HvLAZYDEL' \in BOOLEAN
      /\ (HvLAZYDEL' <=> xhv_eiter # NULL /\ xhv_eiter \notin (L \cup new) \ S)
  <2>1. CASE xhv_eiter \in S
    BY <1>1, <1>2, <1>4, <2>1
  <2>2. CASE xhv_eiter \notin S
    BY <1>1, <1>2, <1>5, <2>2
  <2> QED BY <2>1, <2>2
<1>7. allocated' = ((L \cup new) \ S) \cup (IF HvLAZYDEL' THEN {xhv_eiter} ELSE {})
  <2>1. CASE xhv_eiter \in S
    <3>1. ~HvLAZYDEL /\ allocated = L /\ HvLAZYDEL'
      BY <1>1, <1>2, <2>1
    <3>2. allocated' = (L \cup new) \ (S \ {xhv_eiter})
      BY <1>2, <3>1
    <3>3. (L \cup new) \ (S \ {xhv_eiter}) = ((L \cup new) \ S) \cup {xhv_eiter}
      BY <2>1
    <3> QED BY <3>1, <3>2, <3>3
  <2>2. CASE xhv_eiter \notin S /\ HvLAZYDEL
    <3>1. allocated = L \cup {xhv_eiter} /\ HvLAZYDEL'
      BY <1>1, <1>2, <2>2
    <3>2. allocated' = (L \cup {xhv_eiter} \cup new) \ (S \ {xhv_eiter})
      BY <1>2, <3>1
    <3>3. (L \cup {xhv_eiter} \cup new) \ (S \ {xhv_eiter}) = ((L \cup new) \ S) \cup {xhv_eiter}
      BY <2>2
    <3> QED BY <3>1, <3>2, <3>3
  <2>3. CASE xhv_eiter \notin S /\ ~HvLAZYDEL
    <3>1. allocated = L /\ ~HvLAZYDEL'
      BY <1>1, <1>2, <2>3
    <3>2. allocated' = (L \cup new) \ S
      BY <1>2, <2>3, <3>1
    <3> QED BY <3>1, <3>2
  <2> QED BY <1>1, <2>1, <2>2, <2>3
<1>8. lazynext' \in ((L \cup new) \ S) \cup {NULL}
  <2>1. lazynext \in L \cup new \cup {NULL}
    BY <1>1
  <2>2. HeNEXT(array, xhv_eiter) \in L \cup new \cup {NULL}
    BY <2>1, HeNEXTIs
  <2>3. CASE xhv_eiter \in S
    <3>1. lazynext' = FirstOf(array, HeNEXT(array, xhv_eiter), S)
      BY <2>3 DEF FreeOrDefer
    <3> QED BY <2>2, <3>1, FirstOfIs
  <2>4. CASE xhv_eiter \notin S
    <3>1. lazynext' = FirstOf(array, lazynext, S)
      BY <2>4 DEF FreeOrDefer
    <3> QED BY <2>1, <3>1, FirstOfIs
  <2> QED BY <2>3, <2>4
<1>9. ASSUME ~HvLAZYDEL'
      PROVE  lazynext' = NULL
  <2>1. ~HvLAZYDEL /\ xhv_eiter \notin S /\ lazynext = NULL
    BY <1>1, <1>2, <1>9
  <2>2. lazynext' = FirstOf(array, NULL, S)
    BY <2>1 DEF FreeOrDefer
  <2> QED BY <2>2 DEF FirstOf
<1> QED BY <1>1, <1>6, <1>7, <1>8, <1>9 DEF Pointers

\* When an entry is freed the iterator is put back to the start, but for one that
\* is at no entry.
LEMMA ResetIfAtIs ==
  ASSUME NEW L, L \subseteq Entry, Pointers(L, allocated, xhv_eiter, HvLAZYDEL, lazynext),
         NEW e, ResetIfAt(e), owed \subseteq Key, spoiled \in BOOLEAN
  PROVE  /\ Pointers(L \ {e}, allocated', xhv_eiter', HvLAZYDEL', lazynext')
         /\ HvLAZYDEL' = FALSE /\ xhv_riter' \in {-1, xhv_riter}
         /\ owed' \subseteq Key /\ spoiled' \in BOOLEAN
<1>1. CASE xhv_eiter # NULL
  <2>1. ResetIterator({e})
    BY <1>1 DEF ResetIfAt
  <2> QED BY <2>1, ResetIs
<1>2. CASE xhv_eiter = NULL
  <2>1. /\ allocated' = allocated \ {e} /\ owed' = owed \ {e[1]} /\ spoiled' = spoiled
        /\ xhv_riter' = xhv_riter /\ xhv_eiter' = NULL /\ HvLAZYDEL' = HvLAZYDEL
        /\ lazynext' = lazynext
    BY <1>2 DEF ResetIfAt, iterator
  <2>2. HvLAZYDEL = FALSE /\ lazynext = NULL /\ allocated = L
    BY <1>2 DEF Pointers
  <2>3. Pointers(L \ {e}, L \ {e}, NULL, FALSE, NULL)
    BY IteratorAtStart
  <2> QED BY <2>1, <2>2, <2>3
<1> QED BY <1>1, <1>2

-----------------------------------------------------------------------------
(* The calls that empty the hash.                                          *)

Frames ==
  [how : {"clear", "undef", "restricted"}, index : 0 .. MaxBuckets - 1, value : BOOLEAN,
   entry : Entry \cup {NULL}, max : 0 .. MaxBuckets - 1]

\* None of the calls s is at an entry of a restricted hash.
NoneHeld(s) == \A i \in 1 .. Len(s) : s[i].how # "restricted"

\* A call on a restricted hash is the last one, and is at an entry that has a
\* value.  The others have their index in the array, unless the hash is empty.
Stack(s, n, L, P, keys, ro) ==
  /\ s \in Seq(Frames)
  /\ \A i \in 1 .. Len(s) :
       s[i].how = "restricted" =>
         i = Len(s) /\ ro /\ s[i].entry \in L \ P /\ s[i].max \in 0 .. n - 1
  /\ \A i \in 1 .. Len(s) : s[i].how # "restricted" => keys = 0 \/ s[i].index \in 0 .. n - 1

LEMMA MaxBucketsIs == MaxBuckets \in Nat /\ MaxBuckets > 0 /\ MaxBuckets \in Sizes
BY HashAssumption, SizesAre, SizeIsPositive

LEMMA NoStack ==
  ASSUME NEW n, NEW L, NEW P, NEW keys, NEW ro
  PROVE  Stack(<< >>, n, L, P, keys, ro)
<1>1. << >> \in Seq(Frames) /\ Len(<< >>) = 0
  BY EmptySeq
<1> QED BY <1>1 DEF Stack

\* Nothing is held, and either no index matters or all are in the array.
LEMMA StackFits ==
  ASSUME NEW s \in Seq(Frames), NoneHeld(s), NEW n, NEW L, NEW P, NEW keys, NEW ro,
         keys = 0 \/ \A i \in 1 .. Len(s) : s[i].index \in 0 .. n - 1
  PROVE  Stack(s, n, L, P, keys, ro)
BY DEF Stack, NoneHeld

\* The hash changes, and what is held stays.
LEMMA StackStays ==
  ASSUME NEW s, NEW n \in Nat, NEW L, NEW P, NEW keys, NEW ro, Stack(s, n, L, P, keys, ro),
         NEW m \in Nat, n <= m, NEW L1, NEW P1, NEW more, keys = 0 => more = 0,
         \A i \in 1 .. Len(s) : s[i].how = "restricted" => s[i].entry \in L1 \ P1
  PROVE  Stack(s, m, L1, P1, more, ro)
<1>1. 0 .. n - 1 \subseteq 0 .. m - 1
  OBVIOUS
<1> QED BY <1>1 DEF Stack

\* Where a hash is not restricted, nothing is held.
LEMMA NoneIsHeld ==
  ASSUME NEW s, NEW n, NEW L, NEW P, NEW keys, Stack(s, n, L, P, keys, FALSE)
  PROVE  NoneHeld(s)
BY DEF Stack, NoneHeld

LEMMA HeldIs ==
  ASSUME NEW n, NEW L, Stack(emptying, n, L, placeholder, xhv_keys, READONLY)
  PROVE  /\ \A i \in 1 .. Len(emptying) :
              emptying[i].how = "restricted" => emptying[i].entry \in BeingCleared
         /\ BeingCleared = {} => NoneHeld(emptying)
<1>1. DOMAIN emptying = 1 .. Len(emptying)
  BY DEF Stack
<1>2. \A i \in 1 .. Len(emptying) :
        emptying[i].how = "restricted" => emptying[i].entry \in BeingCleared
  BY <1>1 DEF BeingCleared
<1> QED BY <1>2 DEF NoneHeld

\* The calls below the last.
LEMMA FrontIs ==
  ASSUME NEW s \in Seq(Frames), s # << >>
  PROVE  /\ Front(s) \in Seq(Frames) /\ Len(Front(s)) = Len(s) - 1 /\ Len(s) \in 1 .. Len(s)
         /\ \A i \in 1 .. Len(s) - 1 : Front(s)[i] = s[i]
         /\ Last(s) = s[Len(s)] /\ Last(s) \in Frames
<1>1. PICK l \in Nat : l = Len(s) /\ l >= 1
  OBVIOUS
<1>2. PICK k \in Int : k = l - 1 /\ k >= 0
  BY <1>1
<1>3. \A i \in 1 .. k : s[i] \in Frames
  <2> HIDE DEF Frames
  <2> QED BY <1>1, <1>2
<1>4. /\ SubSeq(s, 1, k) \in Seq(Frames)
      /\ Len(SubSeq(s, 1, k)) = IF 1 <= k THEN k - 1 + 1 ELSE 0
      /\ \A i \in 1 .. k - 1 + 1 : SubSeq(s, 1, k)[i] = s[1 + i - 1]
  BY <1>3, SubSeqProperties
<1>5. Front(s) = SubSeq(s, 1, k)
  BY <1>1, <1>2 DEF Front
<1>6. Len(Front(s)) = l - 1 /\ \A i \in 1 .. l - 1 : Front(s)[i] = s[i]
  BY <1>2, <1>4, <1>5
<1>7. s[l] \in Frames
  BY <1>1
<1> QED BY <1>1, <1>4, <1>5, <1>6, <1>7 DEF Last

\* When the last call is done with a value the others hold nothing.
LEMMA StackBelow ==
  ASSUME NEW s, NEW n, NEW L, NEW P, NEW keys, NEW ro, Stack(s, n, L, P, keys, ro), s # << >>
  PROVE  /\ Front(s) \in Seq(Frames) /\ NoneHeld(Front(s))
         /\ \A i \in 1 .. Len(Front(s)) : keys = 0 \/ Front(s)[i].index \in 0 .. n - 1
<1>1. s \in Seq(Frames)
  BY DEF Stack
<1>2. PICK l \in Nat : l = Len(s) /\ l >= 1
  BY <1>1
<1>3. PICK r : r = Front(s)
  OBVIOUS
<1>4. r \in Seq(Frames) /\ Len(r) = l - 1 /\ \A i \in 1 .. l - 1 : r[i] = s[i]
  BY <1>1, <1>2, <1>3, FrontIs
<1>5. \A i \in 1 .. l - 1 : i \in 1 .. l /\ i # l
  OBVIOUS
<1>6. \A i \in 1 .. l - 1 : s[i].how # "restricted"
  BY <1>2, <1>5 DEF Stack
<1>7. NoneHeld(r)
  BY <1>4, <1>6 DEF NoneHeld
<1>8. \A i \in 1 .. Len(r) : keys = 0 \/ r[i].index \in 0 .. n - 1
  BY <1>2, <1>4, <1>5, <1>6 DEF Stack
<1> QED BY <1>3, <1>4, <1>7, <1>8

\* A call goes on, or is made: the others hold nothing.
LEMMA StackAppend ==
  ASSUME NEW s \in Seq(Frames), NoneHeld(s), NEW n, NEW L, NEW P, NEW keys, NEW ro,
         \A i \in 1 .. Len(s) : keys = 0 \/ s[i].index \in 0 .. n - 1,
         NEW top \in Frames,
         IF top.how = "restricted" THEN ro /\ top.entry \in L \ P /\ top.max \in 0 .. n - 1
                                   ELSE top.index \in 0 .. n - 1
  PROVE  /\ Stack(Append(s, top), n, L, P, keys, ro)
         /\ Append(s, top) # << >> /\ Last(Append(s, top)) = top
<1>1. PICK l \in Nat : l = Len(s)
  OBVIOUS
<1>2. PICK r : r = Append(s, top)
  OBVIOUS
<1>3. /\ r \in Seq(Frames) /\ r # << >> /\ Len(r) = l + 1 /\ r[l + 1] = top
      /\ \A i \in 1 .. l : r[i] = s[i]
  BY <1>1, <1>2, AppendProperties
<1>4. \A i \in 1 .. l + 1 : i = l + 1 \/ i \in 1 .. l
  OBVIOUS
<1>5. ASSUME NEW i \in 1 .. l + 1, r[i].how = "restricted"
      PROVE  i = l + 1 /\ ro /\ r[i].entry \in L \ P /\ r[i].max \in 0 .. n - 1
  <2>1. CASE i = l + 1
    BY <1>3, <1>5, <2>1
  <2>2. CASE i \in 1 .. l
    BY <1>1, <1>3, <1>5, <2>2 DEF NoneHeld
  <2> QED BY <1>4, <2>1, <2>2
<1>6. ASSUME NEW i \in 1 .. l + 1, r[i].how # "restricted"
      PROVE  keys = 0 \/ r[i].index \in 0 .. n - 1
  <2>1. CASE i = l + 1
    BY <1>3, <1>6, <2>1
  <2>2. CASE i \in 1 .. l
    BY <1>1, <1>3, <2>2
  <2> QED BY <1>4, <2>1, <2>2
<1>7. Last(r) = top
  BY <1>3 DEF Last
<1> QED BY <1>2, <1>3, <1>5, <1>6, <1>7 DEF Stack

-----------------------------------------------------------------------------
(* The invariant.                                                          *)

\* The counter of placeholders is not behind.
Current == emptying = << >> \/ Clearing

\* A table of n buckets for the entries L.
Sound(n, L) ==
  /\ TableOf(HvARRAY, n, L)
  /\ Entries(L, placeholder, xhv_keys, HvPLACEHOLDERS, Current)
  /\ Pointers(L, allocated, xhv_eiter, HvLAZYDEL, lazynext)
  /\ Stack(emptying, n, L, placeholder, xhv_keys, READONLY)
  /\ xhv_riter \in -1 .. MaxBuckets - 1
  /\ xhv_rand \in Rands
  /\ READONLY \in BOOLEAN
  /\ READONLY => ~HvLAZYDEL
  /\ owed \subseteq Key
  /\ spoiled \in BOOLEAN

TableSizes == {n \in Sizes : n <= MaxBuckets}

HashInv == \E n \in TableSizes, L \in SUBSET Entry : Sound(n, L)

LEMMA SoundIs ==
  ASSUME NEW n, NEW L, Sound(n, L)
  PROVE  /\ n \in Nat /\ n > 0 /\ L \subseteq Entry
         /\ DOMAIN HvARRAY = 0 .. n - 1 /\ HvMAX + 1 = n /\ HvMAX = n - 1 /\ Linked = L
<1>1. TableOf(HvARRAY, n, L)
  BY DEF Sound
<1>2. /\ n \in Nat /\ n > 0 /\ L \subseteq Entry
      /\ DOMAIN HvARRAY = 0 .. n - 1 /\ Cardinality(DOMAIN HvARRAY) = n /\ LinkedIn(HvARRAY) = L
  BY <1>1, TableIs
<1>3. HvMAX + 1 = n /\ HvMAX = n - 1
  BY <1>2 DEF HvMAX
<1>4. Linked = L
  BY <1>2 DEF Linked, LinkedIn
<1> QED BY <1>2, <1>3, <1>4

LEMMA StillSound ==
  ASSUME NEW n \in TableSizes, NEW L \in SUBSET Entry, Sound(n, L)'
  PROVE  HashInv'
BY DEF HashInv

LEMMA InvIsSound == HashInv => HashIsSound
<1> SUFFICES ASSUME NEW n \in TableSizes, NEW L \in SUBSET Entry, Sound(n, L)
             PROVE  HashIsSound
  BY DEF HashInv
<1>1. /\ n \in Nat /\ n > 0 /\ DOMAIN HvARRAY = 0 .. n - 1 /\ HvMAX + 1 = n /\ Linked = L
  BY SoundIs
<1>2. Pointers(L, allocated, xhv_eiter, HvLAZYDEL, lazynext)
  BY DEF Sound
<1>3. NothingDangles
  BY <1>1, <1>2 DEF NothingDangles, Pointers
<1>4. LazyDelIsTheIterator
  BY <1>1, <1>2 DEF LazyDelIsTheIterator, Pointers
<1>5. Entries(L, placeholder, xhv_keys, HvPLACEHOLDERS, Current)
  BY DEF Sound
<1>6. ASSUME NEW b \in DOMAIN HvARRAY
      PROVE  /\ \A e \in ToSet(HvARRAY[b]) : e[1] % (HvMAX + 1) = b
             /\ IsInjective(HvARRAY[b])
  <2>1. ChainOf(HvARRAY[b], InBucket(L, n, b))
    BY <1>1 DEF Sound, TableOf
  <2> QED BY <1>1, <2>1 DEF ChainOf, InBucket
<1>7. TableIsSound
  BY <1>1, <1>5, <1>6 DEF TableIsSound, Entries, Alone, Current, Counted
<1> QED BY <1>3, <1>4, <1>7 DEF HashIsSound

LEMMA InvIsTyped == HashInv => HashTypeOK
<1> SUFFICES ASSUME NEW n \in TableSizes, NEW L \in SUBSET Entry, Sound(n, L)
             PROVE  HashTypeOK
  BY DEF HashInv
<1>1. n \in {2^i : i \in 0 .. 30} /\ n <= MaxBuckets /\ n \in Nat /\ n > 0
  BY SizesAre, SizeIsPositive DEF TableSizes
<1>2. HvARRAY \in [0 .. n - 1 -> Seq(Entry)]
  BY TableIs DEF Sound
<1>3. Pointers(L, allocated, xhv_eiter, HvLAZYDEL, lazynext)
  BY DEF Sound
<1>4. allocated \subseteq Entry /\ xhv_eiter \in Entry \cup {NULL} /\ HvLAZYDEL \in BOOLEAN
      /\ lazynext \in Entry \cup {NULL}
  BY <1>3 DEF Pointers
<1>5. Entries(L, placeholder, xhv_keys, HvPLACEHOLDERS, Current)
  BY DEF Sound
<1>6. placeholder \subseteq Entry /\ xhv_keys \in Nat /\ HvPLACEHOLDERS \in Nat
  BY <1>5, FS_CardinalityType DEF Entries
<1>7. emptying \in Seq(Frames)
  BY DEF Sound, Stack
<1> QED BY <1>1, <1>2, <1>4, <1>6, <1>7 DEF HashTypeOK, Sound, Frames

LEMMA HashStart == HashInit => HashInv
<1> SUFFICES ASSUME HashInit PROVE HashInv
  OBVIOUS
<1>1. InitBuckets \in TableSizes /\ InitBuckets \in Nat /\ InitBuckets > 0
  BY HashAssumption, SizesAre, SizeIsPositive DEF TableSizes
<1>2. TableOf(HvARRAY, InitBuckets, {})
  <2>1. HvARRAY = [b \in 0 .. InitBuckets - 1 |-> << >>]
    BY DEF HashInit, Empty
  <2> QED BY <1>1, <2>1, EmptyTable
<1>3. Entries({}, placeholder, xhv_keys, HvPLACEHOLDERS, Current)
  BY NoEntries, MayBeBehind DEF HashInit
<1>4. Pointers({}, allocated, xhv_eiter, HvLAZYDEL, lazynext)
  BY IteratorAtStart DEF HashInit
<1>5. xhv_riter \in -1 .. MaxBuckets - 1
  BY MaxBucketsIs DEF HashInit
<1>6. /\ xhv_rand \in Rands /\ READONLY = FALSE /\ HvLAZYDEL = FALSE
      /\ owed = {} /\ spoiled = FALSE
  BY DEF HashInit
<1>7. Stack(emptying, InitBuckets, {}, placeholder, xhv_keys, READONLY)
  BY NoStack DEF HashInit
<1>8. Sound(InitBuckets, {})
  BY <1>2, <1>3, <1>4, <1>5, <1>6, <1>7 DEF Sound
<1> QED BY <1>1, <1>8 DEF HashInv

-----------------------------------------------------------------------------
(* What the code of a program, and of destructors, does.                   *)

LEMMA CountedIs ==
  ASSUME NEW n, NEW L, Sound(n, L), Counted
  PROVE  Entries(L, placeholder, xhv_keys, HvPLACEHOLDERS, TRUE)
BY DEF Sound, Entries, Counted

LEMMA StackIs ==
  ASSUME NEW n, NEW L, Sound(n, L)
  PROVE  /\ Stack(emptying, n, L, placeholder, xhv_keys, READONLY)
         /\ emptying \in Seq(Frames)
         /\ ~READONLY => NoneHeld(emptying)
         /\ BeingCleared = {} => NoneHeld(emptying)
<1>1. Stack(emptying, n, L, placeholder, xhv_keys, READONLY) /\ READONLY \in BOOLEAN
  BY DEF Sound
<1>2. ~READONLY => NoneHeld(emptying)
  BY <1>1, NoneIsHeld
<1> QED BY <1>1, <1>2, HeldIs DEF Stack

LEMMA HashStoreKeeps ==
  ASSUME NEW n \in TableSizes, NEW L \in SUBSET Entry, Sound(n, L), Counted,
         NEW k \in Key, StoreInPlaceholder(k)
  PROVE  HashInv'
<1>1. PICK e \in placeholder :
        /\ placeholder' = placeholder \ {e} /\ HvPLACEHOLDERS' = HvPLACEHOLDERS - 1
        /\ Spoil
        /\ UNCHANGED <<HvARRAY, allocated, xhv_keys, iterator, xhv_rand, READONLY, emptying>>
  BY Zenon DEF StoreInPlaceholder
<1>2. Entries(L, placeholder', xhv_keys', HvPLACEHOLDERS', Current')
  <2>1. Entries(L, placeholder \ {e}, xhv_keys, HvPLACEHOLDERS - 1, TRUE)
    BY CountedIs, ValueAgain
  <2> QED BY <1>1, <2>1, MayBeBehind
<1>3. owed' = {} /\ spoiled' \in BOOLEAN
  BY <1>1 DEF Spoil
<1>4. Stack(emptying', n, L, placeholder', xhv_keys', READONLY')
  <2>1. n \in Nat /\ n <= n /\ Stack(emptying, n, L, placeholder, xhv_keys, READONLY)
    BY SoundIs, StackIs
  <2>2. \A i \in 1 .. Len(emptying) :
          emptying[i].how = "restricted" => emptying[i].entry \in L \ (placeholder \ {e})
    BY <2>1 DEF Stack
  <2>3. Stack(emptying, n, L, placeholder \ {e}, xhv_keys, READONLY)
    BY <2>1, <2>2, StackStays
  <2> QED BY <1>1, <2>3
<1>5. Sound(n, L)'
  BY <1>1, <1>2, <1>3, <1>4 DEF Sound, iterator
<1> QED BY <1>5, StillSound

LEMMA HashDeleteKeeps ==
  ASSUME NEW n \in TableSizes, NEW L \in SUBSET Entry, Sound(n, L), Counted,
         NEW k \in Key, Delete(k)
  PROVE  HashInv'
<1>1. PICK e \in Used :
        /\ e \notin BeingCleared
        /\ IF READONLY
             THEN /\ placeholder' = placeholder \cup {e} /\ HvPLACEHOLDERS' = HvPLACEHOLDERS + 1
                  /\ UNCHANGED <<HvARRAY, allocated, xhv_keys, HvLAZYDEL, lazynext>>
             ELSE /\ HvARRAY' = Without(HvARRAY, {e}) /\ xhv_keys' = xhv_keys - 1
                  /\ FreeOrDefer(HvARRAY, {e}, {}) /\ UNCHANGED HvPLACEHOLDERS
        /\ owed' = owed \ {k}
        /\ UNCHANGED <<xhv_riter, xhv_eiter, xhv_rand, READONLY, emptying, spoiled>>
  BY Zenon DEF Delete
<1>2. e \in L \ placeholder
  BY <1>1, SoundIs DEF Used
<1>3. Entries(L, placeholder, xhv_keys, HvPLACEHOLDERS, TRUE)
  BY CountedIs
<1>4. owed' \subseteq Key
  BY <1>1 DEF Sound
<1>a. /\ n \in Nat /\ n <= n /\ Stack(emptying, n, L, placeholder, xhv_keys, READONLY)
      /\ \A i \in 1 .. Len(emptying) :
           emptying[i].how = "restricted" =>
             emptying[i].entry \in L \ placeholder /\ emptying[i].entry # e
  <2>1. n \in Nat /\ n <= n /\ Stack(emptying, n, L, placeholder, xhv_keys, READONLY)
    BY SoundIs, StackIs
  <2>2. \A i \in 1 .. Len(emptying) :
          emptying[i].how = "restricted" => emptying[i].entry \in BeingCleared
    BY <2>1, HeldIs
  <2> QED BY <1>1, <2>1, <2>2 DEF Stack
<1>5. CASE READONLY
  <2>1. Entries(L, placeholder', xhv_keys', HvPLACEHOLDERS', Current')
    <3>1. Entries(L, placeholder \cup {e}, xhv_keys, HvPLACEHOLDERS + 1, TRUE)
      BY <1>2, <1>3, ValueGone
    <3> QED BY <1>1, <1>5, <3>1, MayBeBehind
  <2>2. Stack(emptying', n, L, placeholder', xhv_keys', READONLY')
    <3>1. \A i \in 1 .. Len(emptying) :
            emptying[i].how = "restricted" => emptying[i].entry \in L \ (placeholder \cup {e})
      BY <1>a
    <3>2. Stack(emptying, n, L, placeholder \cup {e}, xhv_keys, READONLY)
      BY <1>a, <3>1, StackStays
    <3> QED BY <1>1, <1>5, <3>2
  <2>3. Sound(n, L)'
    BY <1>1, <1>4, <1>5, <2>1, <2>2 DEF Sound
  <2> QED BY <2>3, StillSound
<1>6. CASE ~READONLY
  <2>1. placeholder' = placeholder \ {e}
    BY <1>1, <1>6 DEF FreeOrDefer
  <2>2. Entries(L \ {e}, placeholder', xhv_keys', HvPLACEHOLDERS', Current')
    <3>1. Entries(L \ {e}, placeholder \ {e}, xhv_keys - 1, HvPLACEHOLDERS, TRUE)
      BY <1>2, <1>3, EntryGone
    <3> QED BY <1>1, <1>6, <2>1, <3>1, MayBeBehind
  <2>3. TableOf(HvARRAY', n, L \ {e})
    BY <1>1, <1>6, WithoutIs DEF Sound
  <2>4. Pointers(L \ {e}, allocated', xhv_eiter', HvLAZYDEL', lazynext')
    <3>1. L \cup {} = L /\ {e} \subseteq L
      BY <1>2
    <3>2. Pointers(L, allocated, xhv_eiter, HvLAZYDEL, lazynext) /\ TableOf(HvARRAY, n, L \cup {})
      BY <3>1 DEF Sound
    <3>3. FreeOrDefer(HvARRAY, {e}, {}) /\ xhv_eiter' = xhv_eiter
      BY <1>1, <1>6
    <3>4. Pointers((L \cup {}) \ {e}, allocated', xhv_eiter', HvLAZYDEL', lazynext')
      BY <3>1, <3>2, <3>3, FreeOrDeferIs
    <3> QED BY <3>1, <3>4
  <2>5. Stack(emptying', n, L \ {e}, placeholder', xhv_keys', READONLY')
    <3>1. \A i \in 1 .. Len(emptying) :
            emptying[i].how = "restricted" => emptying[i].entry \in (L \ {e}) \ (placeholder \ {e})
      BY <1>a
    <3>2. PICK less : less = xhv_keys - 1
      OBVIOUS
    <3>3. xhv_keys # 0
      <4>1. IsFiniteSet(L) /\ xhv_keys = Cardinality(L) /\ e \in L
        BY <1>2, <1>3 DEF Entries
      <4>2. Cardinality(L) > 0 /\ Cardinality(L) \in Nat
        BY <4>1, OneLess, FS_CardinalityType
      <4> QED BY <4>1, <4>2
    <3>4. Stack(emptying, n, L \ {e}, placeholder \ {e}, less, READONLY)
      BY <1>a, <3>1, <3>3, StackStays
    <3> QED BY <1>1, <1>6, <2>1, <3>2, <3>4
  <2>6. Sound(n, L \ {e})'
    BY <1>1, <1>4, <1>6, <2>2, <2>3, <2>4, <2>5 DEF Sound
  <2>7. L \ {e} \in SUBSET Entry
    OBVIOUS
  <2> QED BY <2>6, <2>7, StillSound
<1> QED BY <1>5, <1>6

LEMMA IterInitKeeps ==
  ASSUME NEW n \in TableSizes, NEW L \in SUBSET Entry, Sound(n, L), IterInit
  PROVE  HashInv'
<1>1. ResetIterator({})
  BY DEF IterInit
<1>2. /\ Pointers(L \ {}, allocated', xhv_eiter', HvLAZYDEL', lazynext')
      /\ xhv_riter' = -1 /\ owed' = {} /\ spoiled' = FALSE /\ HvLAZYDEL' = FALSE
  BY <1>1, ResetIs DEF Sound
<1>3. L \ {} = L
  OBVIOUS
<1>4. -1 \in -1 .. MaxBuckets - 1
  BY MaxBucketsIs
<1>5. Current' = Current
  BY DEF IterInit, Current, Clearing
<1>6. Sound(n, L)'
  BY <1>2, <1>3, <1>4, <1>5 DEF Sound, IterInit
<1> QED BY <1>6, StillSound

LEMMA SplitKeeps ==
  ASSUME NEW n \in TableSizes, NEW L \in SUBSET Entry, Sound(n, L), KSplit(2 * (HvMAX + 1))
  PROVE  HashInv'
<1>1. n \in Nat /\ n > 0 /\ HvMAX + 1 = n /\ HvMAX = n - 1
  BY SoundIs
<1>2. HvARRAY' \in HSplit(HvARRAY, 2 * n) /\ 2 * n <= MaxBuckets
  BY <1>1 DEF KSplit
<1>3. TableOf(HvARRAY', 2 * n, L)
  BY <1>2, SplitIs DEF Sound
<1>4. 2 * n \in TableSizes
  <2>1. n \in Sizes /\ MaxBuckets \in Sizes
    BY HashAssumption, SizesAre DEF TableSizes
  <2>2. MaxBuckets \in Nat
    BY <2>1, SizeIsPositive
  <2>3. n < MaxBuckets
    BY <1>1, <1>2, <2>2
  <2> QED BY <2>1, <2>3, TwiceTheSize DEF TableSizes
<1>5. /\ UNCHANGED <<allocated, placeholder, xhv_keys, HvPLACEHOLDERS, xhv_riter, xhv_eiter,
                     HvLAZYDEL, lazynext, READONLY, emptying, owed, spoiled>>
      /\ xhv_rand' \in Rands
  BY DEF KSplit, iterator, history
<1>6. Stack(emptying', 2 * n, L, placeholder', xhv_keys', READONLY')
  <2>1. Stack(emptying, n, L, placeholder, xhv_keys, READONLY)
    BY StackIs
  <2>2. PICK m \in Nat : m = 2 * n /\ n <= m
    BY <1>1
  <2>3. \A i \in 1 .. Len(emptying) :
          emptying[i].how = "restricted" => emptying[i].entry \in L \ placeholder
    BY <2>1 DEF Stack
  <2>4. Stack(emptying, m, L, placeholder, xhv_keys, READONLY)
    BY <1>1, <2>1, <2>2, <2>3, StackStays
  <2> QED BY <1>5, <2>2, <2>4
<1>7. Current' = Current
  BY <1>5 DEF Current, Clearing
<1>8. Sound(2 * n, L)'
  BY <1>3, <1>5, <1>6, <1>7 DEF Sound
<1> QED BY <1>4, <1>8, StillSound

LEMMA LockKeeps ==
  ASSUME NEW n \in TableSizes, NEW L \in SUBSET Entry, Sound(n, L), Lock("list")
  PROVE  HashInv'
<1>1. /\ ~READONLY /\ Counted /\ HvARRAY' = Without(HvARRAY, placeholder)
      /\ xhv_keys' = xhv_keys - HvPLACEHOLDERS /\ HvPLACEHOLDERS' = 0
      /\ ResetIterator(placeholder) /\ placeholder' = {} /\ READONLY' = TRUE
      /\ UNCHANGED <<xhv_rand, emptying>>
  BY DEF Lock
<1>2. PICK M1 : M1 = L \ placeholder
  OBVIOUS
<1>3. Entries(L, placeholder, xhv_keys, HvPLACEHOLDERS, TRUE)
  BY <1>1, CountedIs
<1>4. Entries(M1, placeholder', xhv_keys', HvPLACEHOLDERS', TRUE) /\ xhv_keys' \in Nat
  BY <1>1, <1>2, <1>3, Purged
<1>5. TableOf(HvARRAY', n, M1)
  BY <1>1, <1>2, WithoutIs DEF Sound
<1>6. /\ Pointers(M1, allocated', xhv_eiter', HvLAZYDEL', lazynext')
      /\ xhv_riter' = -1 /\ owed' = {} /\ spoiled' = FALSE /\ HvLAZYDEL' = FALSE
  BY <1>1, <1>2, ResetIs DEF Sound
<1>7. Stack(emptying', n, M1, placeholder', xhv_keys', READONLY')
  <2>1. emptying \in Seq(Frames) /\ NoneHeld(emptying)
    BY <1>1, StackIs
  <2>2. xhv_keys = 0 => xhv_keys' = 0
    <3>1. xhv_keys \in Nat /\ HvPLACEHOLDERS \in Nat
      BY <1>3, FS_CardinalityType DEF Entries
    <3> QED BY <1>1, <1>4, <3>1
  <2>3. xhv_keys' = 0 \/ \A i \in 1 .. Len(emptying) : emptying[i].index \in 0 .. n - 1
    BY <2>1, <2>2, StackIs DEF Stack, NoneHeld
  <2> QED BY <1>1, <2>1, <2>3, StackFits
<1>8. Entries(M1, placeholder', xhv_keys', HvPLACEHOLDERS', Current')
  BY <1>4, MayBeBehind
<1>9. -1 \in -1 .. MaxBuckets - 1
  BY MaxBucketsIs
<1>10. /\ xhv_riter' \in -1 .. MaxBuckets - 1 /\ xhv_rand' \in Rands
       /\ READONLY' \in BOOLEAN /\ ~HvLAZYDEL' /\ owed' \subseteq Key /\ spoiled' \in BOOLEAN
  BY <1>1, <1>6, <1>9 DEF Sound
<1>11. Sound(n, M1)'
  BY <1>2, <1>5, <1>6, <1>7, <1>8, <1>10 DEF Sound
<1> QED BY <1>2, <1>11, StillSound

LEMMA UnlockKeeps ==
  ASSUME NEW n \in TableSizes, NEW L \in SUBSET Entry, Sound(n, L), Unlock, ~Untidy
  PROVE  HashInv'
<1>1. READONLY /\ BeingCleared = {} /\ READONLY' = FALSE
      /\ UNCHANGED <<table, iterator, xhv_rand, emptying, history>>
  BY DEF Unlock
<1>2. Stack(emptying, n, L, placeholder, xhv_keys, FALSE)
  <2>1. NoneHeld(emptying) /\ Stack(emptying, n, L, placeholder, xhv_keys, READONLY)
    BY <1>1, StackIs
  <2> QED BY <2>1 DEF Stack, NoneHeld
<1>3. Current' = Current
  BY <1>1 DEF Current, Clearing
<1>4. Sound(n, L)'
  BY <1>1, <1>2, <1>3 DEF Sound, table, iterator, history
<1> QED BY <1>4, StillSound

LEMMA FirstInIs ==
  ASSUME NEW n, NEW L, TableOf(HvARRAY, n, L), NEW b \in 0 .. n - 1, NEW S
  PROVE  FirstIn(b, S) \in (L \ S) \cup {NULL}
<1>1. PICK c : c = HvARRAY[b]
  OBVIOUS
<1>2. CASE c = << >>
  BY <1>1, <1>2 DEF FirstIn
<1>3. CASE c # << >>
  <2>1. c[1] \in L
    <3>1. c \in Seq(Entry) /\ AllIn(c, InBucket(L, n, b))
      BY <1>1, ChainIs DEF TableOf
    <3>2. 1 \in 1 .. Len(c)
      BY <1>3, <3>1
    <3> QED BY <3>1, <3>2 DEF AllIn, InBucket
  <2>2. FirstOf(HvARRAY, c[1], S) \in (L \ S) \cup {NULL}
    BY <2>1, FirstOfIs
  <2> QED BY <1>1, <1>3, <2>2 DEF FirstIn
<1> QED BY <1>2, <1>3

LEMMA LeastIsOne ==
  ASSUME NEW S, S \subseteq Nat, S # {}
  PROVE  Min(S) \in S
<1>1. PICK k \in S : \A m \in S : ~(m < k)
  BY LeastOf
<1>2. \A m \in S : k <= m
  BY <1>1
<1> QED BY <1>1, <1>2 DEF Min

\* Where an iteration goes on: an entry, or nowhere.
LEMMA NextPositionIs ==
  ASSUME NEW n, NEW L, Sound(n, L), n <= MaxBuckets
  PROVE  NextPosition \in (-1 .. MaxBuckets - 1) \X (L \cup {NULL})
<1>1. n \in Nat /\ n > 0 /\ HvMAX + 1 = n /\ HvMAX = n - 1 /\ MaxBuckets \in Nat
  BY SoundIs, MaxBucketsIs
<1>2. /\ TableOf(HvARRAY, n, L) /\ lazynext \in L \cup {NULL}
      /\ xhv_riter \in -1 .. MaxBuckets - 1
  BY DEF Sound, Pointers
<1> DEFINE here == IF xhv_eiter = NULL THEN NULL ELSE
                     FirstOf(HvARRAY, HeNEXT(HvARRAY, xhv_eiter), placeholder)
           First(r) == FirstIn(Xor(r, xhv_rand) % (HvMAX + 1), placeholder)
           later == {r \in xhv_riter + 1 .. HvMAX : First(r) # NULL}
<1>3. here \in L \cup {NULL}
  <2>1. HeNEXT(HvARRAY, xhv_eiter) \in L \cup {NULL}
    BY <1>2, HeNEXTIs
  <2>2. FirstOf(HvARRAY, HeNEXT(HvARRAY, xhv_eiter), placeholder) \in (L \ placeholder) \cup {NULL}
    BY <1>2, <2>1, FirstOfIs
  <2> QED BY <2>2
<1>4. ASSUME NEW r \in Nat
      PROVE  First(r) \in L \cup {NULL}
  <2>1. xhv_rand \in Nat
    <3>1. Rands \subseteq 0 .. MaxBuckets - 1 /\ xhv_rand \in Rands
      BY HashAssumption DEF Sound
    <3> QED BY <1>1, <3>1
  <2>2. PICK b \in 0 .. n - 1 : b = Xor(r, xhv_rand) % (HvMAX + 1)
    <3>1. Xor(r, xhv_rand) \in Nat
      BY <2>1, XorIsNat
    <3> QED BY <1>1, <3>1, RestIsBucket
  <2>3. FirstIn(b, placeholder) \in (L \ placeholder) \cup {NULL}
    BY <1>2, FirstInIs
  <2> QED BY <2>2, <2>3
<1> HIDE DEF First
<1>5. ASSUME later # {}
      PROVE  Min(later) \in 0 .. n - 1
  <2>1. later \subseteq 0 .. n - 1 /\ later \subseteq Nat
    BY <1>1, <1>2
  <2> HIDE DEF later
  <2> QED BY <1>5, <2>1, LeastIsOne
<1>6. CASE xhv_keys = HvPLACEHOLDERS
  <2>1. NextPosition = <<-1, here>>
    BY <1>6 DEF NextPosition
  <2> HIDE DEF here
  <2> QED BY <1>1, <1>3, <2>1, MaxBucketsIs
<1>7. CASE xhv_keys # HvPLACEHOLDERS /\ here # NULL
  <2>1. NextPosition = <<xhv_riter, here>>
    BY <1>7 DEF NextPosition
  <2> HIDE DEF here
  <2> QED BY <1>2, <1>3, <2>1
<1>8. CASE xhv_keys # HvPLACEHOLDERS /\ here = NULL
  <2>1. NextPosition = IF later = {} THEN <<-1, NULL>> ELSE <<Min(later), First(Min(later))>>
    BY <1>8 DEF NextPosition, First
  <2>2. CASE later = {}
    BY <1>1, <2>1, <2>2, MaxBucketsIs
  <2>3. CASE later # {}
    <3> HIDE DEF later
    <3>1. PICK r \in 0 .. n - 1 : r = Min(later)
      BY <1>5, <2>3
    <3>2. First(r) \in L \cup {NULL}
      BY <1>1, <1>4, <3>1
    <3>3. NextPosition = <<r, First(r)>>
      BY <2>1, <2>3, <3>1
    <3>4. r \in -1 .. MaxBuckets - 1
      BY <1>1
    <3> QED BY <3>2, <3>3, <3>4
  <2> QED BY <2>2, <2>3
<1> QED BY <1>6, <1>7, <1>8

LEMMA IterNextKeeps ==
  ASSUME NEW n \in TableSizes, NEW L \in SUBSET Entry, Sound(n, L), IterNext
  PROVE  HashInv'
<1>1. PICK r, e : r \in -1 .. MaxBuckets - 1 /\ e \in L \cup {NULL} /\ NextPosition = <<r, e>>
  <2>1. n <= MaxBuckets
    BY DEF TableSizes
  <2>2. NextPosition \in (-1 .. MaxBuckets - 1) \X (L \cup {NULL})
    BY <2>1, NextPositionIs
  <2> QED BY <2>2
<1>2. /\ xhv_riter' = r /\ xhv_eiter' = e /\ allocated' = allocated \ Kept
      /\ HvLAZYDEL' = (HvLAZYDEL /\ xhv_eiter = NULL) /\ lazynext' = NULL
      /\ spoiled' = (spoiled /\ NextPosition # <<-1, NULL>>)
      /\ owed' = (IF spoiled \/ e = NULL THEN {} ELSE
                    (IF Idle THEN UsedKeys ELSE owed) \ {e[1]})
      /\ UNCHANGED <<HvARRAY, placeholder, xhv_keys, HvPLACEHOLDERS, xhv_rand,
                     READONLY, emptying>>
  <2>1. NextPosition[1] = r /\ NextPosition[2] = e
    BY <1>1
  <2> QED BY <2>1 DEF IterNext
<1>3. Pointers(L, allocated, xhv_eiter, HvLAZYDEL, lazynext)
  BY DEF Sound
<1>4. HvLAZYDEL' = FALSE /\ allocated' = L
  BY <1>2, <1>3, KeptIsFreed DEF Pointers
<1>5. Pointers(L, allocated', xhv_eiter', HvLAZYDEL', lazynext')
  <2>1. e \in Entry \cup {NULL} /\ ~(e # NULL /\ e \notin L)
    BY <1>1
  <2> QED BY <1>2, <1>4, <2>1 DEF Pointers
<1>6. owed' \subseteq Key
  <2>1. owed \subseteq Key
    BY DEF Sound
  <2>2. UsedKeys \subseteq Key
    <3>1. Used \subseteq Entry
      BY SoundIs DEF Used
    <3> QED BY <3>1 DEF UsedKeys, Entry
  <2> QED BY <1>2, <2>1, <2>2
<1>7. spoiled' \in BOOLEAN
  BY <1>2
<1>8. Current' = Current
  BY <1>2 DEF Current, Clearing
<1>9. Sound(n, L)'
  BY <1>1, <1>2, <1>4, <1>5, <1>6, <1>7, <1>8 DEF Sound
<1> QED BY <1>9, StillSound

\* A new entry e for k, after which the placeholders may go and the table may
\* be split.
LEMMA InsertKeeps ==
  ASSUME NEW n \in TableSizes, NEW L \in SUBSET Entry, Sound(n, L), Counted,
         NEW k \in Key, Insert(k)
  PROVE  HashInv'
<1>1. /\ n \in Nat /\ n > 0 /\ HvMAX + 1 = n /\ HvMAX = n - 1 /\ Linked = L
  BY SoundIs
<1>2. /\ TableOf(HvARRAY, n, L)
      /\ Entries(L, placeholder, xhv_keys, HvPLACEHOLDERS, TRUE)
      /\ Pointers(L, allocated, xhv_eiter, HvLAZYDEL, lazynext)
  BY CountedIs DEF Sound
<1> DEFINE b == BucketOf(k, HvMAX + 1)
           purged == IF MustGrow(k, xhv_keys + 1) THEN placeholder ELSE {}
           keys == xhv_keys + 1 - Cardinality(purged)
           Table(chain) == [HvARRAY EXCEPT ![b] = chain]
           Swept(chain) == Without(Table(chain), purged)
<1>3. PICK e \in Entry \ allocated :
        /\ e[1] = k
        /\ \E chain \in Inserted(HvARRAY[b], e) :
             /\ HvARRAY' \in IF MustGrow(k, keys) THEN HSplit(Swept(chain), 2 * (HvMAX + 1))
                                               ELSE {Swept(chain)}
             /\ FreeOrDefer(Table(chain), purged, {e})
        /\ HvPLACEHOLDERS' = HvPLACEHOLDERS - Cardinality(purged)
        /\ xhv_keys' = keys
  BY Zenon DEF Insert
<1>4. /\ k \notin {x[1] : x \in Linked} /\ ~READONLY /\ InBounds /\ xhv_rand' \in Rands /\ Spoil
      /\ UNCHANGED <<xhv_riter, xhv_eiter, READONLY, emptying>>
  BY DEF Insert
<1>5. PICK chain \in Inserted(HvARRAY[b], e) :
        /\ HvARRAY' \in IF MustGrow(k, keys) THEN HSplit(Swept(chain), 2 * (HvMAX + 1))
                                          ELSE {Swept(chain)}
        /\ FreeOrDefer(Table(chain), purged, {e})
  BY Zenon, <1>3
<1>6. e \in Entry /\ e \notin L /\ e[1] \notin {x[1] : x \in L} /\ b = e[1] % n
  <2>1. b = e[1] % n
    BY <1>1, <1>3 DEF BucketOf
  <2> QED BY <1>1, <1>3, <1>4, <2>1
<1>7. TableOf(Table(chain), n, L \cup {e})
  <2> HIDE DEF b
  <2> QED BY <1>2, <1>5, <1>6, OneMoreIs
<1> HIDE DEF b, Table
<1>8. PICK S : S = purged /\ S \subseteq placeholder /\ (S = placeholder \/ S = {})
  OBVIOUS
<1>9. S \subseteq L
  BY <1>2, <1>8 DEF Entries
<1>10. PICK M1 : M1 = (L \cup {e}) \ S
  OBVIOUS
<1>11. M1 \in SUBSET Entry
  BY <1>6, <1>10
<1>12. TableOf(Swept(chain), n, M1)
  BY <1>7, <1>8, <1>10, WithoutIs
<1>13. Pointers(M1, allocated', xhv_eiter', HvLAZYDEL', lazynext')
  <2>1. {e} \subseteq Entry /\ {e} \cap allocated = {}
    BY <1>3
  <2>2. FreeOrDefer(Table(chain), S, {e})
    BY <1>5, <1>8
  <2>3. xhv_eiter' = xhv_eiter
    BY <1>4
  <2> QED BY <1>2, <1>7, <1>9, <1>10, <2>1, <2>2, <2>3, FreeOrDeferIs
<1>14. placeholder' = placeholder \ S
  BY <1>5, <1>8 DEF FreeOrDefer
<1>15. Entries(M1, placeholder', xhv_keys', HvPLACEHOLDERS', TRUE)
  <2>1. PICK L1, more : L1 = L \cup {e} /\ more = xhv_keys + 1
    OBVIOUS
  <2>2. Entries(L1, placeholder, more, HvPLACEHOLDERS, TRUE)
    BY <1>2, <1>6, <2>1, NewEntry
  <2>3. /\ xhv_keys' = more - Cardinality(S)
        /\ HvPLACEHOLDERS' = HvPLACEHOLDERS - Cardinality(S)
    <3> HIDE DEF purged
    <3>1. xhv_keys' = keys /\ HvPLACEHOLDERS' = HvPLACEHOLDERS - Cardinality(purged)
      BY <1>3
    <3>2. S = purged
      BY <1>8
    <3>3. xhv_keys \in Nat /\ IsFiniteSet(S)
      BY <1>2, <1>8, FS_CardinalityType, FS_Subset DEF Entries
    <3>4. PICK gone \in Nat : gone = Cardinality(purged)
      BY <3>2, <3>3, FS_CardinalityType
    <3>5. keys = more - Cardinality(purged)
      BY <2>1, <3>3, <3>4
    <3> HIDE DEF keys
    <3> QED BY <3>1, <3>2, <3>5
  <2>4. more \in Nat /\ HvPLACEHOLDERS \in Nat /\ HvPLACEHOLDERS = Cardinality(placeholder)
    BY <2>2, FS_CardinalityType DEF Entries
  <2>5. CASE S = placeholder
    <3>1. xhv_keys' = more - HvPLACEHOLDERS /\ HvPLACEHOLDERS' = 0
      BY <2>3, <2>4, <2>5
    <3>2. placeholder' = {} /\ M1 = L1 \ placeholder
      BY <1>10, <1>14, <2>1, <2>5
    <3> QED BY <2>2, <3>1, <3>2, Purged
  <2>6. CASE S = {}
    <3>1. placeholder' = placeholder /\ M1 = L1
      BY <1>10, <1>14, <2>1, <2>6
    <3>2. Cardinality(S) = 0
      BY <2>6, FS_EmptySet
    <3>3. xhv_keys' = more /\ HvPLACEHOLDERS' = HvPLACEHOLDERS
      BY <2>3, <2>4, <3>2
    <3> QED BY <2>2, <3>1, <3>3
  <2> QED BY <1>8, <2>5, <2>6
<1>16. owed' = {} /\ spoiled' \in BOOLEAN
  BY <1>4 DEF Spoil
<1>17. /\ READONLY' = FALSE /\ xhv_rand' \in Rands /\ xhv_riter' \in -1 .. MaxBuckets - 1
       /\ Entries(M1, placeholder', xhv_keys', HvPLACEHOLDERS', Current')
  BY <1>4, <1>15, MayBeBehind DEF Sound
<1>18. ASSUME NEW m \in TableSizes, n <= m, TableOf(HvARRAY', m, M1)
       PROVE  HashInv'
  <2>1. m \in Nat
    BY SizeIsPositive DEF TableSizes
  <2>2. Stack(emptying', m, M1, placeholder', xhv_keys', READONLY')
    <3>1. emptying \in Seq(Frames) /\ NoneHeld(emptying)
      BY <1>4, StackIs
    <3>2. \A i \in 1 .. Len(emptying) : emptying[i].index \in 0 .. m - 1
      <4>1. DOMAIN emptying = 1 .. Len(emptying)
        BY <3>1
      <4>2. \A i \in 1 .. Len(emptying) : emptying[i] \in Frames
        <5> HIDE DEF Frames
        <5> QED BY <3>1
      <4>3. \A i \in 1 .. Len(emptying) : emptying[i].index \in Nat
        BY <4>2, MaxBucketsIs DEF Frames
      <4>4. \A i \in 1 .. Len(emptying) : emptying[i].index <= HvMAX
        BY <1>4, <4>1 DEF InBounds
      <4> QED BY <1>1, <1>18, <2>1, <4>3, <4>4
    <3> QED BY <1>4, <3>1, <3>2, StackFits
  <2>3. Sound(m, M1)'
    BY <1>13, <1>16, <1>17, <1>18, <2>2 DEF Sound
  <2> QED BY <1>11, <2>3, StillSound
<1>19. CASE MustGrow(k, keys)
  <2>1. HvARRAY' \in HSplit(Swept(chain), 2 * n)
    BY <1>1, <1>5, <1>19
  <2>2. TableOf(HvARRAY', 2 * n, M1)
    <3> HIDE DEF Swept
    <3> QED BY <1>12, <2>1, SplitIs
  <2>3. 2 * n \in TableSizes
    <3>1. HvMAX < MaxBuckets - 1
      BY <1>19 DEF MustGrow, DoHSplit
    <3>2. n \in Sizes /\ MaxBuckets \in Sizes
      BY HashAssumption, SizesAre DEF TableSizes
    <3>3. MaxBuckets \in Nat
      BY <3>2, SizeIsPositive
    <3>4. n < MaxBuckets
      BY <1>1, <3>1, <3>3
    <3> QED BY <3>2, <3>4, TwiceTheSize DEF TableSizes
  <2>4. n <= 2 * n
    BY <1>1
  <2> QED BY <1>18, <2>2, <2>3, <2>4
<1>20. CASE ~MustGrow(k, keys)
  <2>1. HvARRAY' = Swept(chain)
    BY <1>5, <1>20
  <2>2. TableOf(HvARRAY', n, M1) /\ n <= n
    BY <1>1, <1>12, <2>1
  <2> QED BY <1>18, <2>2
<1> QED BY <1>19, <1>20

-----------------------------------------------------------------------------
(* Emptying the hash.                                                      *)

\* From any bucket, going round, one comes to every bucket.
LEMMA GoingRound ==
  ASSUME NEW n \in Nat, NEW ix \in 0 .. n - 1, NEW b \in 0 .. n - 1
  PROVE  \E d \in 0 .. n - 1 : (ix + d) % n = b
<1>1. CASE ix <= b
  <2>1. PICK d \in 0 .. n - 1 : d = b - ix /\ ix + d = n * 0 + b
    BY <1>1
  <2>2. (n * 0 + b) % n = b
    BY Quotient
  <2> QED BY <2>1, <2>2
<1>2. CASE ix > b
  <2>1. PICK d \in 0 .. n - 1 : d = b + n - ix /\ ix + d = n * 1 + b
    BY <1>2
  <2>2. (n * 1 + b) % n = b
    BY Quotient
  <2> QED BY <2>1, <2>2
<1> QED BY <1>1, <1>2

LEMMA FreeRoundKeeps ==
  ASSUME NEW n \in TableSizes, NEW L \in SUBSET Entry, Sound(n, L),
         NEW below \in Seq(Frames), NoneHeld(below),
         \A i \in 1 .. Len(below) : xhv_keys = 0 \/ below[i].index \in 0 .. n - 1,
         NEW how \in {"clear", "undef"}, NEW ix, xhv_keys = 0 \/ ix \in 0 .. n - 1,
         FreeRound(below, how, ix)
  PROVE  HashInv'
<1>1. n \in Nat /\ n > 0 /\ DOMAIN HvARRAY = 0 .. n - 1 /\ HvMAX + 1 = n /\ HvMAX = n - 1
  BY SoundIs
<1>2. /\ TableOf(HvARRAY, n, L)
      /\ Entries(L, placeholder, xhv_keys, HvPLACEHOLDERS, Current)
      /\ Pointers(L, allocated, xhv_eiter, HvLAZYDEL, lazynext)
      /\ xhv_riter \in -1 .. MaxBuckets - 1 /\ owed \subseteq Key /\ spoiled \in BOOLEAN
  BY DEF Sound
<1>3. xhv_rand' \in Rands /\ READONLY' \in BOOLEAN
  BY DEF FreeRound, Sound
<1>4. IsFiniteSet(L) /\ xhv_keys = Cardinality(L) /\ placeholder \subseteq L
  BY <1>2 DEF Entries
<1>a. -1 \in -1 .. MaxBuckets - 1
  BY MaxBucketsIs
<1>5. CASE xhv_keys = 0
  <2>1. /\ IF xhv_eiter # NULL THEN ResetIterator({}) ELSE UNCHANGED <<allocated, iterator, history>>
        /\ emptying' = below /\ HvPLACEHOLDERS' = 0
        /\ HvARRAY' = (IF how = "undef" THEN Empty ELSE HvARRAY)
        /\ placeholder' = placeholder /\ xhv_keys' = xhv_keys
    BY <1>5 DEF FreeRound
  <2>2. L = {} /\ placeholder = {}
    BY <1>4, <1>5, FS_EmptySet
  <2>3. Entries({}, placeholder', xhv_keys', HvPLACEHOLDERS', Current')
    BY <1>5, <2>1, <2>2, NoEntries, MayBeBehind
  <2>4. /\ Pointers({}, allocated', xhv_eiter', HvLAZYDEL', lazynext')
        /\ xhv_riter' \in -1 .. MaxBuckets - 1 /\ owed' \subseteq Key /\ spoiled' \in BOOLEAN
        /\ ~HvLAZYDEL'
    <3>1. CASE xhv_eiter # NULL
      <4>1. /\ Pointers(L \ {}, allocated', xhv_eiter', HvLAZYDEL', lazynext')
            /\ xhv_riter' = -1 /\ owed' = {} /\ spoiled' = FALSE /\ HvLAZYDEL' = FALSE
        BY <1>2, <2>1, <3>1, ResetIs
      <4>2. L \ {} = {}
        BY <2>2
      <4> QED BY <1>a, <4>1, <4>2
    <3>2. CASE xhv_eiter = NULL
      <4>1. UNCHANGED <<allocated, xhv_riter, xhv_eiter, HvLAZYDEL, lazynext, owed, spoiled>>
        BY <2>1, <3>2 DEF iterator, history
      <4>2. ~HvLAZYDEL
        BY <1>2, <3>2 DEF Pointers
      <4> QED BY <1>2, <2>2, <4>1, <4>2
    <3> QED BY <3>1, <3>2
  <2>5. ASSUME NEW m \in TableSizes, TableOf(HvARRAY', m, {})
        PROVE  HashInv'
    <3>1. Stack(emptying', m, {}, placeholder', xhv_keys', READONLY')
      BY <1>5, <2>1, StackFits
    <3>2. Sound(m, {})'
      BY <1>3, <2>3, <2>4, <2>5, <3>1 DEF Sound
    <3> QED BY <3>2, StillSound
  <2>6. CASE how = "undef"
    <3>1. InitBuckets \in TableSizes /\ InitBuckets \in Nat /\ InitBuckets > 0
      BY HashAssumption, SizesAre, SizeIsPositive DEF TableSizes
    <3>2. HvARRAY' = [b \in 0 .. InitBuckets - 1 |-> << >>]
      BY <2>1, <2>6 DEF Empty
    <3>3. TableOf(HvARRAY', InitBuckets, {})
      BY <3>1, <3>2, EmptyTable
    <3> QED BY <2>5, <3>1, <3>3
  <2>7. CASE how # "undef"
    <3>1. TableOf(HvARRAY', n, {})
      BY <1>2, <2>1, <2>2, <2>7
    <3> QED BY <2>5, <3>1
  <2> QED BY <2>6, <2>7
<1>6. CASE xhv_keys # 0
  <2> DEFINE found == {d \in 0 .. HvMAX : HvARRAY[(ix + d) % (HvMAX + 1)] # << >>}
             b == (ix + Min(found)) % (HvMAX + 1)
             e == HvARRAY[b][1]
  <2>1. /\ ResetIfAt(e) /\ emptying' = Append(below, Freeing(how, b, e \notin placeholder))
        /\ HvARRAY' = [HvARRAY EXCEPT ![b] = Tail(@)]
        /\ xhv_keys' = xhv_keys - 1 /\ placeholder' = placeholder \ {e}
        /\ HvPLACEHOLDERS' = HvPLACEHOLDERS
    BY <1>6 DEF FreeRound
  <2>a. ix \in 0 .. n - 1
    BY <1>6
  <2>2. found # {}
    <3>1. PICK x : x \in L
      <4>1. L # {}
        BY <1>4, <1>6, FS_EmptySet
      <4> QED BY <4>1
    <3>2. PICK c \in 0 .. n - 1 : HvARRAY[c] # << >>
      <4>1. x[1] \in Nat
        BY <3>1, KeyIsNat
      <4>2. PICK c \in 0 .. n - 1 : c = x[1] % n
        BY <1>1, <4>1, RestIsBucket
      <4>3. x \in InBucket(L, n, c)
        BY <3>1, <4>2 DEF InBucket
      <4>4. AllOf(HvARRAY[c], InBucket(L, n, c)) /\ HvARRAY[c] \in Seq(Entry)
        BY <1>2, ChainIs DEF TableOf
      <4>5. \E i \in 1 .. Len(HvARRAY[c]) : HvARRAY[c][i] = x
        BY <4>3, <4>4 DEF AllOf
      <4>6. HvARRAY[c] # << >>
        BY <4>5, EmptySeq
      <4> QED BY <4>6
    <3>3. PICK d \in 0 .. n - 1 : (ix + d) % n = c
      BY <1>1, <2>a, GoingRound
    <3> QED BY <1>1, <3>2, <3>3
  <2>3. Min(found) \in found
    <3>1. found \subseteq Nat
      BY <1>1
    <3> HIDE DEF found
    <3> QED BY <2>2, <3>1, LeastIsOne
  <2>4. PICK d \in 0 .. n - 1 : d = Min(found) /\ HvARRAY[(ix + d) % n] # << >>
    BY <1>1, <2>3
  <2>5. PICK c \in 0 .. n - 1 : c = b /\ HvARRAY[c] # << >>
    <3>1. ix + d \in Nat
      BY <1>1, <2>a
    <3>2. (ix + d) % n \in 0 .. n - 1
      BY <1>1, <3>1, RestIsBucket
    <3> HIDE DEF found
    <3> QED BY <1>1, <2>4, <3>2
  <2> HIDE DEF b
  <2>6. PICK e0 : e0 = HvARRAY[c][1]
    OBVIOUS
  <2>7. e = e0
    BY <2>5, <2>6
  <2> HIDE DEF e
  <2>8. HvARRAY' = [HvARRAY EXCEPT ![c] = Tail(@)]
    BY <2>1, <2>5
  <2>9. e0 \in L /\ TableOf(HvARRAY', n, L \ {e0})
    BY <1>2, <2>5, <2>6, <2>8, HeadGone
  <2>10. PICK top : top = Freeing(how, c, e0 \notin placeholder)
    OBVIOUS
  <2>11. top \in Frames /\ top.how # "restricted" /\ top.index = c
    <3>1. c \in 0 .. MaxBuckets - 1 /\ 0 \in 0 .. MaxBuckets - 1
      BY <1>1, MaxBucketsIs DEF TableSizes
    <3>2. (e0 \notin placeholder) \in BOOLEAN
      OBVIOUS
    <3> QED BY <2>10, <3>1, <3>2 DEF Freeing, Frames
  <2>12. emptying' = Append(below, top)
    BY <2>1, <2>5, <2>7, <2>10
  <2>13. PICK less : less = xhv_keys - 1
    OBVIOUS
  <2>14. /\ Stack(Append(below, top), n, L \ {e0}, placeholder \ {e0}, less, READONLY')
         /\ Append(below, top) # << >> /\ Last(Append(below, top)) = top
    <3>1. \A i \in 1 .. Len(below) : less = 0 \/ below[i].index \in 0 .. n - 1
      BY <1>6
    <3> QED BY <2>11, <3>1, StackAppend
  <2>15. Current' = FALSE
    BY <2>11, <2>12, <2>14 DEF Current, Clearing
  <2>16. Entries(L \ {e0}, placeholder', xhv_keys', HvPLACEHOLDERS', Current')
    <3>1. Entries(L \ {e0}, placeholder \ {e0}, xhv_keys - 1, HvPLACEHOLDERS, FALSE)
      BY <1>2, <2>9, AnyEntryGone
    <3> QED BY <2>1, <2>7, <2>15, <3>1
  <2>17. /\ Pointers(L \ {e0}, allocated', xhv_eiter', HvLAZYDEL', lazynext')
         /\ HvLAZYDEL' = FALSE /\ xhv_riter' \in {-1, xhv_riter}
         /\ owed' \subseteq Key /\ spoiled' \in BOOLEAN
    <3>1. ResetIfAt(e0)
      BY <2>1, <2>7
    <3> QED BY <1>2, <3>1, ResetIfAtIs
  <2>18. xhv_riter' \in -1 .. MaxBuckets - 1
    BY <1>2, <1>a, <2>17
  <2>19. Stack(emptying', n, L \ {e0}, placeholder', xhv_keys', READONLY')
    BY <2>1, <2>7, <2>12, <2>13, <2>14
  <2>20. Sound(n, L \ {e0})'
    BY <1>3, <2>9, <2>16, <2>17, <2>18, <2>19 DEF Sound
  <2>21. L \ {e0} \in SUBSET Entry
    OBVIOUS
  <2> QED BY <2>20, <2>21, StillSound
<1> QED BY <1>5, <1>6

LEMMA ClearKeepsTable ==
  ASSUME NEW n \in TableSizes, NEW L \in SUBSET Entry, Sound(n, L), ClearHash \/ UndefHash
  PROVE  HashInv'
<1>1. emptying \in Seq(Frames) /\ NoneHeld(emptying)
  BY StackIs DEF ClearHash, UndefHash
<1>2. \A i \in 1 .. Len(emptying) : xhv_keys = 0 \/ emptying[i].index \in 0 .. n - 1
  BY <1>1, StackIs DEF Stack, NoneHeld
<1>3. 0 \in 0 .. n - 1
  BY SoundIs
<1>4. FreeRound(emptying, "clear", 0) \/ FreeRound(emptying, "undef", 0)
  BY DEF ClearHash, UndefHash
<1> QED BY <1>1, <1>2, <1>3, <1>4, FreeRoundKeeps

LEMMA FreeNextKeeps ==
  ASSUME NEW n \in TableSizes, NEW L \in SUBSET Entry, Sound(n, L), FreeNext
  PROVE  HashInv'
<1>1. /\ emptying # << >> /\ ~Clearing
      /\ FreeRound(Front(emptying), Last(emptying).how, Last(emptying).index)
  BY DEF FreeNext
<1>2. Stack(emptying, n, L, placeholder, xhv_keys, READONLY) /\ emptying \in Seq(Frames)
  BY StackIs
<1>3. PICK below : below = Front(emptying)
  OBVIOUS
<1>4. /\ below \in Seq(Frames) /\ NoneHeld(below)
      /\ \A i \in 1 .. Len(below) : xhv_keys = 0 \/ below[i].index \in 0 .. n - 1
  BY <1>1, <1>2, <1>3, StackBelow
<1>5. PICK top \in Frames : top = Last(emptying) /\ top = emptying[Len(emptying)]
                            /\ Len(emptying) \in 1 .. Len(emptying)
  BY <1>1, <1>2, FrontIs
<1>6. top.how \in {"clear", "undef"}
  BY <1>1, <1>5 DEF Clearing, Frames
<1>7. xhv_keys = 0 \/ top.index \in 0 .. n - 1
  BY <1>2, <1>5, <1>6 DEF Stack
<1>8. FreeRound(below, top.how, top.index)
  BY <1>1, <1>3, <1>5
<1> QED BY <1>4, <1>6, <1>7, <1>8, FreeRoundKeeps

\* The next value in a restricted hash, or none.
LEMMA NextValueIs ==
  ASSUME NEW n \in Nat, NEW L, TableOf(HvARRAY, n, L), lazynext \in L \cup {NULL}, n <= MaxBuckets,
         NEW e \in L \cup {NULL}, NEW b \in -1 .. MaxBuckets - 1, e # NULL => b >= 0,
         NEW max \in 0 .. n - 1, NEW gone
  PROVE  \E c, x : /\ NextValue(e, b, max, gone) = <<c, x>>
                   /\ x = NULL \/ (x \in L \ gone /\ c \in 0 .. MaxBuckets - 1)
<1> DEFINE here == IF e = NULL THEN NULL ELSE FirstOf(HvARRAY, HeNEXT(HvARRAY, e), gone)
           later == {c \in b + 1 .. max : FirstIn(c, gone) # NULL}
<1>1. here \in (L \ gone) \cup {NULL}
  <2>1. HeNEXT(HvARRAY, e) \in L \cup {NULL}
    BY HeNEXTIs
  <2>2. FirstOf(HvARRAY, HeNEXT(HvARRAY, e), gone) \in (L \ gone) \cup {NULL}
    BY <2>1, FirstOfIs
  <2> QED BY <2>2
<1>2. MaxBuckets \in Nat
  BY MaxBucketsIs
<1>3. later \subseteq 0 .. n - 1 /\ later \subseteq Nat
  BY <1>2
<1>4. CASE here # NULL
  <2>1. NextValue(e, b, max, gone) = <<b, here>>
    BY <1>4 DEF NextValue
  <2>2. e # NULL
    BY <1>4
  <2>3. b \in 0 .. MaxBuckets - 1
    BY <1>2, <2>2
  <2> HIDE DEF here
  <2> QED BY <1>1, <1>4, <2>1, <2>3
<1>5. CASE here = NULL /\ later # {}
  <2>1. NextValue(e, b, max, gone) = <<Min(later), FirstIn(Min(later), gone)>>
    BY <1>5 DEF NextValue
  <2> HIDE DEF here, later
  <2>2. PICK c \in 0 .. n - 1 : c = Min(later)
    BY <1>3, <1>5, LeastIsOne
  <2>3. FirstIn(c, gone) \in (L \ gone) \cup {NULL}
    BY FirstInIs
  <2>4. c \in 0 .. MaxBuckets - 1
    BY <1>2
  <2> QED BY <2>1, <2>2, <2>3, <2>4
<1>6. CASE here = NULL /\ later = {}
  <2>1. NextValue(e, b, max, gone) = <<max, NULL>>
    BY <1>6 DEF NextValue
  <2> QED BY <2>1
<1> QED BY <1>4, <1>5, <1>6

\* A restricted hash is cleared on.
LEMMA ClearOnKeeps ==
  ASSUME NEW n \in TableSizes, NEW L \in SUBSET Entry, Sound(n, L), READONLY,
         NEW below \in Seq(Frames), NoneHeld(below),
         \A i \in 1 .. Len(below) : xhv_keys = 0 \/ below[i].index \in 0 .. n - 1,
         NEW e \in L \cup {NULL}, NEW b \in -1 .. MaxBuckets - 1, e # NULL => b >= 0,
         NEW max \in 0 .. n - 1, NEW gone, ClearOn(below, e, b, max, gone),
         placeholder' = gone, Entries(L, gone, xhv_keys, HvPLACEHOLDERS', TRUE),
         UNCHANGED <<HvARRAY, allocated, xhv_keys, xhv_riter, HvLAZYDEL, xhv_rand, READONLY>>
  PROVE  HashInv'
<1>1. /\ TableOf(HvARRAY, n, L) /\ Pointers(L, allocated, xhv_eiter, HvLAZYDEL, lazynext)
      /\ ~HvLAZYDEL /\ xhv_riter \in -1 .. MaxBuckets - 1 /\ xhv_rand \in Rands
      /\ owed \subseteq Key /\ spoiled \in BOOLEAN
  BY DEF Sound
<1>2. allocated = L /\ lazynext = NULL
  BY <1>1 DEF Pointers
<1>3. n \in Nat /\ n <= MaxBuckets
  BY SoundIs DEF TableSizes
<1>4. PICK c, x : /\ NextValue(e, b, max, gone) = <<c, x>>
                  /\ x = NULL \/ (x \in L \ gone /\ c \in 0 .. MaxBuckets - 1)
  BY <1>1, <1>2, <1>3, NextValueIs
<1>5. PICK at : at = NextValue(e, b, max, gone) /\ at[1] = c /\ at[2] = x
  BY <1>4
<1>6. \/ /\ x # NULL
         /\ emptying' \in {below, Append(below, Restricted(c, x, max))}
         /\ owed' = owed \ {y[1] : y \in gone}
         /\ UNCHANGED <<xhv_eiter, lazynext, spoiled>>
      \/ /\ x = NULL /\ emptying' = below /\ xhv_eiter' = NULL /\ lazynext' = NULL
         /\ owed' = {} /\ spoiled' = (xhv_riter # -1)
  BY <1>5 DEF ClearOn
<1>7. Entries(L, placeholder', xhv_keys', HvPLACEHOLDERS', Current')
  BY MayBeBehind
<1>8. owed' \subseteq Key /\ spoiled' \in BOOLEAN
  BY <1>1, <1>6
<1>9. Pointers(L, allocated', xhv_eiter', HvLAZYDEL', lazynext')
  <2>1. CASE UNCHANGED <<xhv_eiter, lazynext>>
    BY <1>1, <2>1
  <2>2. CASE xhv_eiter' = NULL /\ lazynext' = NULL
    <3>1. Pointers(L, L, NULL, FALSE, NULL)
      BY IteratorAtStart
    <3>2. HvLAZYDEL' = FALSE
      BY <1>1 DEF Pointers
    <3> QED BY <1>2, <2>2, <3>1, <3>2
  <2> QED BY <1>6, <2>1, <2>2
<1>10. Stack(emptying', n, L, placeholder', xhv_keys', READONLY')
  <2>1. CASE emptying' = below
    BY <2>1, StackFits
  <2>2. CASE x # NULL /\ emptying' = Append(below, Restricted(c, x, max))
    <3>1. PICK top : top = Restricted(c, x, max)
      OBVIOUS
    <3>2. top \in Frames /\ top.how = "restricted" /\ top.entry \in L \ gone /\ top.max \in 0 .. n - 1
      <4>1. max \in 0 .. MaxBuckets - 1 /\ x \in L \ gone /\ c \in 0 .. MaxBuckets - 1
        BY <1>3, <1>4, <2>2, MaxBucketsIs
      <4> QED BY <3>1, <4>1 DEF Restricted, Frames
    <3>3. Stack(Append(below, top), n, L, gone, xhv_keys, READONLY)
      BY <3>2, StackAppend
    <3> QED BY <2>2, <3>1, <3>3
  <2> QED BY <1>6, <2>1, <2>2
<1>11. Sound(n, L)'
  BY <1>1, <1>7, <1>8, <1>9, <1>10 DEF Sound
<1> QED BY <1>11, StillSound

LEMMA ClearRestrictedKeeps ==
  ASSUME NEW n \in TableSizes, NEW L \in SUBSET Entry, Sound(n, L), Counted, ClearRestricted
  PROVE  HashInv'
<1>1. /\ READONLY /\ BeingCleared = {} /\ ClearOn(emptying, NULL, -1, HvMAX, placeholder)
      /\ UNCHANGED <<table, xhv_riter, HvLAZYDEL, xhv_rand, READONLY>>
  BY DEF ClearRestricted
<1>2. emptying \in Seq(Frames) /\ NoneHeld(emptying)
  BY <1>1, StackIs
<1>3. \A i \in 1 .. Len(emptying) : xhv_keys = 0 \/ emptying[i].index \in 0 .. n - 1
  BY <1>2, StackIs DEF Stack, NoneHeld
<1>4. Entries(L, placeholder, xhv_keys, HvPLACEHOLDERS', TRUE)
  BY <1>1, CountedIs DEF table
<1>5. PICK max \in 0 .. n - 1 : max = HvMAX
  BY SoundIs
<1>6. -1 \in -1 .. MaxBuckets - 1
  BY MaxBucketsIs
<1>7. /\ placeholder' = placeholder
      /\ UNCHANGED <<HvARRAY, allocated, xhv_keys, xhv_riter, HvLAZYDEL, xhv_rand, READONLY>>
  BY <1>1 DEF table
<1>8. ClearOn(emptying, NULL, -1, max, placeholder)
  BY <1>1, <1>5
<1>9. PICK e \in L \cup {NULL} : e = NULL
  OBVIOUS
<1> QED BY <1>1, <1>2, <1>3, <1>4, <1>6, <1>7, <1>8, <1>9, ClearOnKeeps

LEMMA ClearNextKeeps ==
  ASSUME NEW n \in TableSizes, NEW L \in SUBSET Entry, Sound(n, L), ClearNext
  PROVE  HashInv'
<1>1. Stack(emptying, n, L, placeholder, xhv_keys, READONLY) /\ emptying \in Seq(Frames)
  BY StackIs
<1>2. Clearing /\ emptying # << >>
  BY DEF ClearNext, Clearing
<1>3. PICK below : below = Front(emptying)
  OBVIOUS
<1>4. PICK top \in Frames : top = Last(emptying) /\ top = emptying[Len(emptying)]
                            /\ Len(emptying) \in 1 .. Len(emptying)
  BY <1>1, <1>2, FrontIs
<1>5. PICK gone : gone = placeholder \cup {top.entry}
  OBVIOUS
<1>6. /\ placeholder' = gone /\ HvPLACEHOLDERS' = HvPLACEHOLDERS + 1
      /\ ClearOn(below, top.entry, top.index, top.max, gone)
      /\ UNCHANGED <<HvARRAY, allocated, xhv_keys, xhv_riter, HvLAZYDEL, xhv_rand, READONLY>>
  BY <1>3, <1>4, <1>5 DEF ClearNext
<1>7. READONLY /\ top.entry \in L \ placeholder /\ top.max \in 0 .. n - 1
  BY <1>1, <1>2, <1>4 DEF Clearing, Stack
<1>8. top.index \in 0 .. MaxBuckets - 1
  BY DEF Frames
<1>9. /\ below \in Seq(Frames) /\ NoneHeld(below)
      /\ \A i \in 1 .. Len(below) : xhv_keys = 0 \/ below[i].index \in 0 .. n - 1
  BY <1>1, <1>2, <1>3, StackBelow
<1>10. Entries(L, gone, xhv_keys, HvPLACEHOLDERS', TRUE)
  <2>1. Entries(L, placeholder, xhv_keys, HvPLACEHOLDERS, TRUE)
    BY <1>2 DEF Sound, Entries, Current
  <2> QED BY <1>5, <1>6, <1>7, <2>1, ValueGone
<1>11. top.index \in -1 .. MaxBuckets - 1 /\ top.index >= 0
  BY <1>8, MaxBucketsIs
<1> QED BY <1>6, <1>7, <1>9, <1>10, <1>11, ClearOnKeeps

-----------------------------------------------------------------------------


LEMMA StepKeeps ==
  ASSUME HashInv, HashNext, "keys" \notin LockForms, ~Untidy
  PROVE  HashInv'
<1>1. PICK n \in TableSizes, L \in SUBSET Entry : Sound(n, L)
  BY DEF HashInv
<1>2. CASE CodeRuns /\ Code
  <2>1. Counted
    BY <1>2 DEF CodeRuns
  <2>2. ASSUME NEW k \in Key, StoreInPlaceholder(k) \/ Insert(k) \/ Delete(k)
        PROVE  HashInv'
    BY <1>1, <2>1, <2>2, HashStoreKeeps, InsertKeeps, HashDeleteKeeps
  <2>3. CASE KSplit(2 * (HvMAX + 1)) \/ IterInit \/ IterNext
    BY <1>1, <2>3, SplitKeeps, IterInitKeeps, IterNextKeeps
  <2>4. CASE ClearRestricted \/ Unlock
    BY <1>1, <2>1, <2>4, ClearRestrictedKeeps, UnlockKeeps
  <2>5. CASE ClearHash \/ UndefHash
    BY <1>1, <2>5, ClearKeepsTable
  <2>6. ASSUME NEW form \in LockForms, Lock(form)
        PROVE  HashInv'
    <3>1. form = "list"
      BY <2>6, HashAssumption
    <3> QED BY <1>1, <2>6, <3>1, LockKeeps
  <2> QED BY <1>2, <2>2, <2>3, <2>4, <2>5, <2>6 DEF Code
<1>3. CASE FreeNext
  BY <1>1, <1>3, FreeNextKeeps
<1>4. CASE ClearNext
  BY <1>1, <1>4, ClearNextKeeps
<1> QED BY <1>2, <1>3, <1>4 DEF HashNext

LEMMA HashRests ==
  ASSUME HashInv, UNCHANGED hash_vars
  PROVE  HashInv'
<1>1. PICK n \in TableSizes, L \in SUBSET Entry : Sound(n, L)
  BY DEF HashInv
<1>2. /\ UNCHANGED <<HvARRAY, allocated, placeholder, xhv_keys, HvPLACEHOLDERS>>
      /\ UNCHANGED <<xhv_riter, xhv_eiter, HvLAZYDEL, lazynext>>
      /\ UNCHANGED <<xhv_rand, READONLY, emptying, owed, spoiled>>
  BY DEF hash_vars, table, iterator, history
<1>3. Current' = Current
  BY <1>2 DEF Current, Clearing
<1>4. Sound(n, L)'
  BY <1>1, <1>2, <1>3 DEF Sound
<1> QED BY <1>4, StillSound

LEMMA HashAlways ==
  ASSUME "keys" \notin LockForms, ~Untidy
  PROVE  HashSpec => []HashInv
<1>1. HashInv /\ [HashNext]_hash_vars => HashInv'
  BY StepKeeps, HashRests
<1> QED BY <1>1, HashStart, PTL DEF HashSpec

\* For any keys and any sizes of the table, the chains, the counters, the
\* iterator and the entry kept for it fit (hv.c: hv_common(), hsplit(),
\* hv_iternext_flags(), hv_free_ent(), hv_clear(), hfree_next_entry()), also
\* when destructors store, delete, iterate, lock and empty the hash again
\* while it is being emptied.  They do so within the limits of HashTable.tla
\* (BeingCleared, InBounds).  lock_keys() is given the keys here, a hash is let
\* alone while its counter of placeholders is out of date, and a restricted one
\* is not unlocked while it is being cleared.
THEOREM HashSound ==
  "keys" \notin LockForms /\ ~Untidy => (HashSpec => []HashIsSound)
<1>1. ASSUME "keys" \notin LockForms, ~Untidy
      PROVE  HashSpec => []HashIsSound
  BY <1>1, HashAlways, InvIsSound, PTL
<1> QED BY <1>1

\* Under the same conditions the variables of a hash keep their types: the
\* iterator and every call that empties the hash stay within the buckets there
\* can be, and no counter falls below zero.
THEOREM HashTypes ==
  "keys" \notin LockForms /\ ~Untidy => (HashSpec => []HashTypeOK)
<1>1. ASSUME "keys" \notin LockForms, ~Untidy
      PROVE  HashSpec => []HashTypeOK
  BY <1>1, HashAlways, InvIsTyped, PTL
<1> QED BY <1>1

-----------------------------------------------------------------------------
(* The composed specification of the run.                                  *)

\* A step of one data structure is one of its own specification, and the
\* others rest.
LEMMA EachStepIsOfOne ==
  ASSUME [MCNext]_<<used, hash_vars, av, sv, grok_vars, io, async_vars>>
  PROVE  /\ [HashNext]_hash_vars /\ [ArrayNext]_av /\ [ArithNext]_sv
         /\ [GrokNext]_grok_vars /\ [FileNext]_io /\ [AsyncNext]_async_vars
BY Zenon DEF MCNext

LEMMA EachIsItself ==
  MCSpec => HashSpec /\ ArraySpec /\ GrokSpec /\ FileSpec /\ AsyncSpec
<1>1. MCInit => HashInit /\ ArrayInit /\ GrokInit /\ FileInit /\ AsyncInit
  BY DEF MCInit
<1> QED BY <1>1, EachStepIsOfOne, PTL DEF MCSpec, HashSpec, ArraySpec, GrokSpec, FileSpec, AsyncSpec

\* A number that rests is a floating point one.
LEMMA NumbersRest == MCSpec => []ArithTypeOK
<1>1. MCInit => ArithTypeOK
  <2>1. ArithInit => ArithTypeOK
    BY ArithStart
  <2>2. sv = Double => ArithTypeOK
    BY DEF ArithTypeOK
  <2> QED BY <2>1, <2>2 DEF MCInit
<1>2. ArithTypeOK /\ [MCNext]_<<used, hash_vars, av, sv, grok_vars, io, async_vars>> => ArithTypeOK'
  BY EachStepIsOfOne, ArithStep
<1> QED BY <1>1, <1>2, PTL DEF MCSpec

\* Tables, arrays, integers, texts, files and handles all keep their types,
\* for any keys, sizes and widths, where each of them is used as the runs that
\* pass use it: lock_keys() is given the keys and destructors are tidy (as in
\* HashSound), handles that append are not moved, ungetc() is not called at the
\* start of a file, a handle is not flushed line by line and a handler closes
\* it as a whole.
THEOREM DataTypes ==
  ASSUME "keys" \notin LockForms, ~Untidy, ~AppendSeeks, ~UngetcAtStart, ~LineBuffered,
         ~HandlerPops
  PROVE  MCSpec => []TypesOK
<1>1. Plain
  BY DEF Plain
<1>2. HashSpec => []HashTypeOK
  BY HashTypes
<1>3. FileSpec => []FileTypeOK
  <2>1. FileSpec => [](FileTypeOK /\ OffsetIsBufferEnd)
    BY FilesAreSound
  <2> QED BY <2>1, PTL
<1>4. AsyncSpec => []AsyncTypeOK
  BY <1>1, HandleTypes
<1>5. /\ HashTypeOK /\ ArrayTypeOK /\ ArithTypeOK /\ GrokTypeOK /\ FileTypeOK /\ AsyncTypeOK
      => TypesOK
  BY DEF TypesOK
<1> QED BY <1>2, <1>3, <1>4, <1>5, ArrayTypes, GrokTypes, NumbersRest, EachIsItself, PTL
=============================================================================
