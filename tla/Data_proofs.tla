------------------------------ MODULE Data_proofs ------------------------------
(***************************************************************************)
(* Proofs about data structures.  Arrays of any size: whatever the         *)
(* operations move, a slot that holds no element is NULL, and the elements *)
(* are those of a list, on which each does what its name says.  Handles    *)
(* with a buffer of any size: signal handlers inside their system calls do *)
(* no harm, if the handle is not flushed line by line and handlers close   *)
(* it as a whole.  Integers of any width: the operators answer the number  *)
(* that arithmetic gives, and a text becomes the number that it spells.    *)
(* Files with a buffer of any size: what the layer holds back is neither   *)
(* lost nor misplaced, so that a handle is a file with one position.       *)
(***************************************************************************)
EXTENDS ArrayTable, GrokNumber, PerlIOAsync, PerlIOBuf, TLAPS, WellFoundedInduction, SequenceTheorems

-----------------------------------------------------------------------------
(* Arrays.                                                                 *)

Values == Elem \cup {NoElem, JUNK}

\* An array is a window on its block: it starts off slots in, and the block
\* ends with its last slot.
Shape(a) ==
  /\ DOMAIN a = {"slot", "off", "AvMAX", "AvFILLp"}
  /\ a.off \in Nat /\ a.AvMAX \in Int /\ a.AvFILLp \in Int
  /\ -1 <= a.AvFILLp /\ a.AvFILLp <= a.AvMAX
  /\ a.slot \in [0 .. a.off + a.AvMAX -> Values]

\* Slots outside of the window hold nothing.
Tidy(a) ==
  \A j \in 0 .. a.off + a.AvMAX :
    j < a.off \/ j > a.off + a.AvFILLp => a.slot[j] = NoElem

-----------------------------------------------------------------------------
(* Room.                                                                   *)

LEMMA MoveKeeps ==
  ASSUME NEW a, Shape(a), NEW key \in Int, key > a.AvMAX, a.off > 0
  PROVE  /\ Shape(AfterMove(a, key)) /\ AfterMove(a, key).AvMAX >= key
         /\ AfterMove(a, key).AvFILLp = a.AvFILLp
         /\ a.AvFILLp = a.AvMAX => Tidy(AfterMove(a, key))
<1> DEFINE max == a.AvMAX + a.off
           newmax == IF key > max - Near THEN key + max ELSE max
           s == [j \in 0 .. newmax |->
                   CASE j <= a.AvFILLp -> At(a, j)
                     [] j > a.AvFILLp /\ j <= a.AvFILLp + (newmax - a.AvMAX) -> NoElem
                     [] OTHER -> IF j <= max THEN a.slot[j] ELSE JUNK]
           r == AfterMove(a, key)
<1>1. r = [slot |-> s, off |-> 0, AvMAX |-> newmax, AvFILLp |-> a.AvFILLp]
  BY DEF AfterMove
<1>2. max \in Nat /\ newmax \in Nat /\ newmax >= key /\ newmax >= max
      /\ a.AvFILLp <= newmax /\ a.off + a.AvMAX = max
  BY ArrayAssumption DEF Shape, ArrayAssumption
<1> HIDE DEF newmax, max
<1>3. \A j \in 0 .. newmax :
        /\ j <= a.AvFILLp => At(a, j) \in Values
        /\ j <= max => a.slot[j] \in Values
  BY <1>2 DEF Shape, At
<1>4. \A j \in 0 .. newmax : s[j] \in Values
  BY <1>3 DEF Values
<1>5. a.AvFILLp = a.AvMAX => \A j \in 0 .. newmax : j > a.AvFILLp => s[j] = NoElem
  BY <1>2 DEF Shape
<1> HIDE DEF r
<1>6. s \in [0 .. newmax -> Values]
  BY <1>4
<1> HIDE DEF s
<1>7. Shape(r)
  BY <1>1, <1>2, <1>6 DEF Shape
<1>8. a.AvFILLp = a.AvMAX => Tidy(r)
  BY <1>1, <1>2, <1>5 DEF Tidy, Shape
<1> QED
  BY <1>1, <1>2, <1>7, <1>8 DEF r

LEMMA GrowKeeps ==
  ASSUME NEW a, Shape(a), NEW key \in Int, key > a.AvMAX, a.off = 0, a.AvMAX >= 0
  PROVE  /\ Shape(AfterGrow(a, key)) /\ AfterGrow(a, key).AvMAX >= key
         /\ AfterGrow(a, key).AvFILLp = a.AvFILLp
         /\ Tidy(a) => Tidy(AfterGrow(a, key))
<1> DEFINE newmax == key + a.AvMAX \div 5
           s == [j \in 0 .. newmax |-> IF j <= a.AvMAX THEN a.slot[j] ELSE NoElem]
           r == AfterGrow(a, key)
<1>1. newmax \in Nat /\ newmax >= key
  BY DEF Shape
<1>2. /\ r.slot = s /\ r.off = 0 /\ r.AvMAX = newmax /\ r.AvFILLp = a.AvFILLp
      /\ DOMAIN r = {"slot", "off", "AvMAX", "AvFILLp"}
  BY DEF AfterGrow, Shape
<1> HIDE DEF newmax, r
<1>3. \A j \in 0 .. newmax : s[j] = IF j <= a.AvMAX THEN a.slot[j] ELSE NoElem
  OBVIOUS
<1>4. \A j \in 0 .. newmax : s[j] \in Values
  BY <1>1, <1>3 DEF Shape, Values
<1>5. s \in [0 .. newmax -> Values]
  BY <1>4
<1>6. Tidy(a) => \A j \in 0 .. newmax : j > a.AvFILLp => s[j] = NoElem
  BY <1>1, <1>3 DEF Tidy, Shape
<1> HIDE DEF s
<1>7. Shape(r)
  BY <1>1, <1>2, <1>5 DEF Shape
<1>8. Tidy(a) => Tidy(r)
  BY <1>1, <1>2, <1>6 DEF Shape, Tidy
<1> QED
  BY <1>1, <1>2, <1>7, <1>8 DEF r

LEMMA BlockKeeps ==
  ASSUME NEW key \in Int
  PROVE  /\ Shape(NewBlock(key)) /\ NewBlock(key).AvMAX >= key
         /\ NewBlock(key).AvFILLp = -1 /\ Tidy(NewBlock(key))
<1> DEFINE max == IF key < NewMin THEN NewMin ELSE key
           s == [j \in 0 .. max |-> NoElem]
           r == NewBlock(key)
<1>1. max \in Nat /\ max >= key
  BY ArrayAssumption DEF ArrayAssumption
<1>2. r = [slot |-> s, off |-> 0, AvMAX |-> max, AvFILLp |-> -1]
  BY DEF NewBlock
<1> HIDE DEF max, r
<1>3. s \in [0 .. max -> Values] /\ \A j \in 0 .. max : s[j] = NoElem
  BY DEF Values
<1> HIDE DEF s
<1> QED
  BY <1>1, <1>2, <1>3 DEF Shape, Tidy, r

\* Room for key: the elements stay, and the new slots hold nothing, unless an
\* array with spare slots at both ends is moved.
LEMMA ExtendKeeps ==
  ASSUME NEW a, Shape(a), NEW key \in Int
  PROVE  /\ Shape(av_extend(a, key))
         /\ av_extend(a, key).AvMAX >= key /\ av_extend(a, key).AvMAX >= a.AvMAX
         /\ av_extend(a, key).AvFILLp = a.AvFILLp
         /\ ~HasSlack(a, key) /\ Tidy(a) => Tidy(av_extend(a, key))
<1>1. CASE key <= a.AvMAX
  BY <1>1 DEF av_extend, Shape
<1>2. CASE key > a.AvMAX /\ a.off > 0
  <2>1. av_extend(a, key) = AfterMove(a, key)
    BY <1>2 DEF av_extend, Shape
  <2>2. ~HasSlack(a, key) => a.AvFILLp = a.AvMAX
    BY <1>2 DEF HasSlack, Shape
  <2>3. AfterMove(a, key).AvMAX \in Int
    BY <1>2, MoveKeeps DEF Shape
  <2> QED BY <1>2, <2>1, <2>2, <2>3, MoveKeeps DEF Shape
<1>3. CASE key > a.AvMAX /\ a.off = 0 /\ a.AvMAX = -1
  <2>1. a.slot = <<>> /\ a.AvFILLp = -1
    BY <1>3 DEF Shape
  <2>2. av_extend(a, key) = NewBlock(key)
    BY <1>3, <2>1 DEF av_extend
  <2> QED BY <1>3, <2>1, <2>2, BlockKeeps DEF Shape
<1>4. CASE key > a.AvMAX /\ a.off = 0 /\ a.AvMAX >= 0
  <2>1. a.slot # <<>>
    <3>1. DOMAIN a.slot = 0 .. a.AvMAX /\ 0 \in 0 .. a.AvMAX
      BY <1>4 DEF Shape
    <3>2. DOMAIN <<>> = {}
      OBVIOUS
    <3> QED BY <3>1, <3>2
  <2>2. av_extend(a, key) = AfterGrow(a, key)
    BY <1>4, <2>1 DEF av_extend, Shape
  <2>3. AfterGrow(a, key).AvMAX \in Int
    BY <1>4, GrowKeeps DEF Shape
  <2> QED BY <1>4, <2>2, <2>3, GrowKeeps DEF Shape
<1> QED
  BY <1>1, <1>2, <1>3, <1>4 DEF Shape

-----------------------------------------------------------------------------
(* Writing slots, and moving the window.                                   *)

Fields == {"slot", "off", "AvMAX", "AvFILLp"}

\* s is the block of a with values written to slots of the elements S.
Writes(a, s, S) ==
  /\ s = [j \in DOMAIN a.slot |-> s[j]]
  /\ \A j \in DOMAIN a.slot :
       s[j] = a.slot[j] \/ (j - a.off \in S /\ s[j] \in Values)

\* Values written to slots of the block; those of elements leave the slots
\* outside of the window alone.
LEMMA WriteKeeps ==
  ASSUME NEW a, Shape(a), NEW S, NEW s, Writes(a, s, S)
  PROVE  /\ Shape([a EXCEPT !.slot = s])
         /\ Tidy(a) /\ S \subseteq 0 .. a.AvFILLp => Tidy([a EXCEPT !.slot = s])
<1> DEFINE r == [a EXCEPT !.slot = s]
<1>1. /\ DOMAIN r = {"slot", "off", "AvMAX", "AvFILLp"}
      /\ r.off = a.off /\ r.AvMAX = a.AvMAX /\ r.AvFILLp = a.AvFILLp /\ r.slot = s
  BY DEF Shape
<1> HIDE DEF r
<1>2. DOMAIN a.slot = 0 .. a.off + a.AvMAX
      /\ \A j \in 0 .. a.off + a.AvMAX : a.slot[j] \in Values
  BY DEF Shape
<1>w. s = [j \in 0 .. a.off + a.AvMAX |-> s[j]]
      /\ \A j \in 0 .. a.off + a.AvMAX :
           s[j] = a.slot[j] \/ (j - a.off \in S /\ s[j] \in Values)
  BY <1>2 DEF Writes
<1>3. s \in [0 .. a.off + a.AvMAX -> Values]
  BY <1>2, <1>w
<1>4. Shape(r)
  BY <1>1, <1>3 DEF Shape
<1>5. ASSUME Tidy(a), S \subseteq 0 .. a.AvFILLp PROVE Tidy(r)
  <2> SUFFICES ASSUME NEW j \in 0 .. a.off + a.AvMAX,
                      j < a.off \/ j > a.off + a.AvFILLp
               PROVE  s[j] = NoElem
    BY <1>1 DEF Tidy
  <2>1. j - a.off \notin 0 .. a.AvFILLp
    BY DEF Shape
  <2>2. s[j] = a.slot[j]
    BY <1>w, <1>5, <2>1
  <2> QED BY <1>5, <2>2 DEF Tidy
<1> QED BY <1>4, <1>5 DEF r

LEMMA PutOneKeeps ==
  ASSUME NEW a, Shape(a), NEW k \in Nat, k <= a.AvFILLp, NEW v \in Values
  PROVE  Shape(PutOne(a, k, v)) /\ (Tidy(a) => Tidy(PutOne(a, k, v)))
<1> DEFINE S == {k}
           s == [j \in DOMAIN a.slot |-> IF j - a.off \in S THEN v ELSE a.slot[j]]
<1>1. PutOne(a, k, v) = [a EXCEPT !.slot = s]
  BY DEF PutOne, Put
<1>2. Writes(a, s, S)
  BY DEF Writes
<1>3. S \subseteq 0 .. a.AvFILLp
  BY DEF Shape
<1> HIDE DEF s, S
<1>4. Shape([a EXCEPT !.slot = s])
  BY <1>2, WriteKeeps
<1>5. Tidy(a) => Tidy([a EXCEPT !.slot = s])
  BY <1>2, <1>3, WriteKeeps
<1> QED BY <1>1, <1>4, <1>5

\* NULL may be written anywhere.
LEMMA PutNullKeeps ==
  ASSUME NEW a, Shape(a), NEW S
  PROVE  /\ Shape(PutNull(a, S))
         /\ PutNull(a, S).off = a.off /\ PutNull(a, S).AvMAX = a.AvMAX
         /\ PutNull(a, S).AvFILLp = a.AvFILLp
         /\ \A j \in 0 .. a.off + a.AvMAX :
              PutNull(a, S).slot[j] = IF j - a.off \in S THEN NoElem ELSE a.slot[j]
         /\ Tidy(a) => Tidy(PutNull(a, S))
<1> DEFINE s == [j \in DOMAIN a.slot |-> IF j - a.off \in S THEN NoElem ELSE a.slot[j]]
           r == PutNull(a, S)
<1>1. r = [a EXCEPT !.slot = s]
  BY DEF PutNull, Put
<1>2. Writes(a, s, S)
  BY DEF Writes, Values
<1>3. \A j \in 0 .. a.off + a.AvMAX : s[j] = IF j - a.off \in S THEN NoElem ELSE a.slot[j]
  BY DEF Shape
<1> HIDE DEF s, r
<1>4. Shape(r)
  BY <1>1, <1>2, WriteKeeps
<1>5. r.off = a.off /\ r.AvMAX = a.AvMAX /\ r.AvFILLp = a.AvFILLp /\ r.slot = s
  BY <1>1 DEF Shape
<1>6. Tidy(a) => Tidy(r)
  BY <1>3, <1>5 DEF Tidy
<1> QED BY <1>3, <1>4, <1>5, <1>6 DEF r

\* The window is moved, or resized, within the block.
LEMMA WindowKeeps ==
  ASSUME NEW a, Shape(a), NEW r, DOMAIN r = Fields, r.slot = a.slot,
         r.off \in Nat, r.AvMAX \in Int, r.off + r.AvMAX = a.off + a.AvMAX,
         r.AvFILLp \in Int, -1 <= r.AvFILLp, r.AvFILLp <= r.AvMAX
  PROVE  /\ Shape(r)
         /\ (\A j \in 0 .. a.off + a.AvMAX :
               j < r.off \/ j > r.off + r.AvFILLp => a.slot[j] = NoElem)
              => Tidy(r)
BY DEF Shape, Tidy, Fields

-----------------------------------------------------------------------------
(* The operations.                                                         *)

LEMMA StoreKeeps ==
  ASSUME NEW a, Shape(a), NEW key \in Nat, NEW v \in Values
  PROVE  /\ Shape(av_store(a, key, v))
         /\ Tidy(a) /\ ~HasSlack(a, key) => Tidy(av_store(a, key, v))
<1>1. CASE key <= a.AvFILLp
  BY <1>1, PutOneKeeps DEF av_store
<1>2. CASE ~(key <= a.AvFILLp)
  <2> DEFINE b == av_extend(a, key)
             c == [b EXCEPT !.AvFILLp = key]
  <2>1. /\ Shape(b) /\ b.AvMAX >= key /\ b.AvFILLp = a.AvFILLp
        /\ ~HasSlack(a, key) /\ Tidy(a) => Tidy(b)
    BY ExtendKeeps
  <2> HIDE DEF b
  <2>2. /\ DOMAIN c = Fields /\ c.slot = b.slot /\ c.off = b.off /\ c.AvMAX = b.AvMAX
        /\ c.AvFILLp = key
    BY <2>1 DEF Shape, Fields
  <2>3. av_store(a, key, v) = PutOne(c, key, v)
    BY <1>2 DEF av_store, b
  <2> HIDE DEF c
  <2>4. Shape(c)
    BY <2>1, <2>2 DEF Shape, Fields
  <2>5. Tidy(b) => Tidy(c)
    BY <1>2, <2>1, <2>2 DEF Shape, Tidy
  <2> QED BY <2>1, <2>2, <2>3, <2>4, <2>5, PutOneKeeps
<1> QED BY <1>1, <1>2

LEMMA FillKeeps ==
  ASSUME NEW a, Shape(a), NEW fill \in Int, fill >= -1
  PROVE  /\ Shape(av_fill(a, fill))
         /\ Tidy(a) /\ ~HasSlack(a, fill) => Tidy(av_fill(a, fill))
<1>1. CASE fill <= a.AvMAX
  <2> DEFINE S == fill + 1 .. a.AvFILLp
             b == PutNull(a, S)
             r == [b EXCEPT !.AvFILLp = fill]
  <2>1. /\ Shape(b) /\ b.off = a.off /\ b.AvMAX = a.AvMAX
        /\ \A j \in 0 .. a.off + a.AvMAX :
             b.slot[j] = IF j - a.off \in S THEN NoElem ELSE a.slot[j]
    <3> HIDE DEF S
    <3> QED BY PutNullKeeps
  <2>2. av_fill(a, fill) = r
    BY <1>1 DEF av_fill
  <2> HIDE DEF b
  <2>3. /\ DOMAIN r = Fields /\ r.slot = b.slot /\ r.off = b.off /\ r.AvMAX = b.AvMAX
        /\ r.AvFILLp = fill
    BY <2>1 DEF Shape, Fields
  <2> HIDE DEF r
  <2>4. Shape(r)
    BY <1>1, <2>1, <2>3, WindowKeeps DEF Shape
  <2>5. ASSUME Tidy(a) PROVE Tidy(r)
    <3> SUFFICES ASSUME NEW j \in 0 .. a.off + a.AvMAX, j > a.off + fill \/ j < a.off
                 PROVE  b.slot[j] = NoElem
      BY <2>1, <2>3 DEF Tidy
    <3>1. CASE j - a.off \in S
      BY <2>1, <3>1
    <3>2. CASE j - a.off \notin S
      <4>1. j < a.off \/ j > a.off + a.AvFILLp
        BY <3>2 DEF Shape
      <4> QED BY <2>1, <2>5, <3>2, <4>1 DEF Tidy
    <3> QED BY <3>1, <3>2
  <2> QED BY <2>2, <2>4, <2>5
<1>2. CASE ~(fill <= a.AvMAX)
  <2>1. fill \in Nat /\ NoElem \in Values
    BY <1>2 DEF Shape, Values
  <2>2. av_fill(a, fill) = av_store(a, fill, NoElem)
    BY <1>2 DEF av_fill
  <2> QED BY <2>1, <2>2, StoreKeeps
<1> QED BY <1>1, <1>2

LEMMA PopKeeps ==
  ASSUME NEW a, Shape(a), a.AvFILLp >= 0
  PROVE  Shape(av_pop(a)) /\ (Tidy(a) => Tidy(av_pop(a)))
<1> DEFINE S == {a.AvFILLp}
           b == PutNull(a, S)
           r == av_pop(a)
<1>1. /\ Shape(b) /\ b.off = a.off /\ b.AvMAX = a.AvMAX /\ b.AvFILLp = a.AvFILLp
      /\ \A j \in 0 .. a.off + a.AvMAX :
           b.slot[j] = IF j - a.off \in S THEN NoElem ELSE a.slot[j]
  <2> HIDE DEF S
  <2> QED BY PutNullKeeps
<1>2. r = [b EXCEPT !.AvFILLp = @ - 1]
  BY DEF av_pop
<1> HIDE DEF b, r
<1>3. /\ DOMAIN r = Fields /\ r.slot = b.slot /\ r.off = a.off /\ r.AvMAX = a.AvMAX
      /\ r.AvFILLp = a.AvFILLp - 1
  BY <1>1, <1>2 DEF Shape, Fields
<1>4. /\ Shape(r)
      /\ (\A j \in 0 .. a.off + a.AvMAX :
            j < r.off \/ j > r.off + r.AvFILLp => b.slot[j] = NoElem) => Tidy(r)
  <2>1. /\ r.off \in Nat /\ r.AvMAX \in Int /\ r.off + r.AvMAX = b.off + b.AvMAX
        /\ r.AvFILLp \in Int /\ -1 <= r.AvFILLp /\ r.AvFILLp <= r.AvMAX
    <3>1. a.off \in Nat /\ a.AvMAX \in Int /\ a.AvFILLp \in Int
          /\ -1 <= a.AvFILLp /\ a.AvFILLp <= a.AvMAX
      BY DEF Shape
    <3> QED BY <1>1, <1>3, <3>1
  <2> QED BY <1>1, <1>3, <2>1, WindowKeeps
<1>5. ASSUME Tidy(a) PROVE Tidy(r)
  <2> SUFFICES ASSUME NEW j \in 0 .. a.off + a.AvMAX,
                      j < r.off \/ j > r.off + r.AvFILLp
               PROVE  b.slot[j] = NoElem
    BY <1>4
  <2>1. CASE j - a.off \in S
    BY <1>1, <2>1
  <2>2. CASE j - a.off \notin S
    <3>1. j < a.off \/ j > a.off + a.AvFILLp
      BY <1>3, <2>2 DEF Shape
    <3> HIDE DEF S
    <3> QED BY <1>1, <1>5, <2>2, <3>1 DEF Tidy
  <2> QED BY <2>1, <2>2
<1> QED BY <1>4, <1>5 DEF r

LEMMA ShiftKeeps ==
  ASSUME NEW a, Shape(a), a.AvFILLp >= 0
  PROVE  Shape(av_shift(a)) /\ (Tidy(a) => Tidy(av_shift(a)))
<1> DEFINE S == {0}
           b == PutNull(a, S)
           r == av_shift(a)
<1>1. /\ Shape(b) /\ b.off = a.off /\ b.AvMAX = a.AvMAX /\ b.AvFILLp = a.AvFILLp
      /\ \A j \in 0 .. a.off + a.AvMAX :
           b.slot[j] = IF j - a.off \in S THEN NoElem ELSE a.slot[j]
  <2> HIDE DEF S
  <2> QED BY PutNullKeeps
<1>2. r = [b EXCEPT !.off = @ + 1, !.AvMAX = @ - 1, !.AvFILLp = @ - 1]
  BY DEF av_shift
<1> HIDE DEF b, r
<1>3. /\ DOMAIN r = Fields /\ r.slot = b.slot /\ r.off = a.off + 1
      /\ r.AvMAX = a.AvMAX - 1 /\ r.AvFILLp = a.AvFILLp - 1
  BY <1>1, <1>2 DEF Shape, Fields
<1>4. /\ Shape(r)
      /\ (\A j \in 0 .. a.off + a.AvMAX :
            j < r.off \/ j > r.off + r.AvFILLp => b.slot[j] = NoElem) => Tidy(r)
  <2>1. /\ r.off \in Nat /\ r.AvMAX \in Int /\ r.off + r.AvMAX = b.off + b.AvMAX
        /\ r.AvFILLp \in Int /\ -1 <= r.AvFILLp /\ r.AvFILLp <= r.AvMAX
    <3>1. a.off \in Nat /\ a.AvMAX \in Int /\ a.AvFILLp \in Int
          /\ -1 <= a.AvFILLp /\ a.AvFILLp <= a.AvMAX
      BY DEF Shape
    <3> QED BY <1>1, <1>3, <3>1
  <2> QED BY <1>1, <1>3, <2>1, WindowKeeps
<1>5. ASSUME Tidy(a) PROVE Tidy(r)
  <2> SUFFICES ASSUME NEW j \in 0 .. a.off + a.AvMAX,
                      j < r.off \/ j > r.off + r.AvFILLp
               PROVE  b.slot[j] = NoElem
    BY <1>4
  <2>1. CASE j - a.off \in S
    BY <1>1, <2>1
  <2>2. CASE j - a.off \notin S
    <3>1. j < a.off \/ j > a.off + a.AvFILLp
      BY <1>3, <2>2 DEF Shape
    <3> HIDE DEF S
    <3> QED BY <1>1, <1>5, <2>2, <3>1 DEF Tidy
  <2> QED BY <2>1, <2>2
<1> QED BY <1>4, <1>5 DEF r

LEMMA ClearKeeps ==
  ASSUME NEW a, Shape(a)
  PROVE  Shape(av_clear(a)) /\ (Tidy(a) => Tidy(av_clear(a)))
<1> DEFINE S == 0 .. a.AvFILLp
           b == PutNull(a, S)
           r == av_clear(a)
<1>1. /\ Shape(b) /\ b.off = a.off /\ b.AvMAX = a.AvMAX /\ b.AvFILLp = a.AvFILLp
      /\ \A j \in 0 .. a.off + a.AvMAX :
           b.slot[j] = IF j - a.off \in S THEN NoElem ELSE a.slot[j]
  <2> HIDE DEF S
  <2> QED BY PutNullKeeps
<1>2. r = [b EXCEPT !.off = 0, !.AvMAX = @ + a.off, !.AvFILLp = -1]
  BY DEF av_clear
<1> HIDE DEF b, r
<1>3. /\ DOMAIN r = Fields /\ r.slot = b.slot /\ r.off = 0
      /\ r.AvMAX = a.AvMAX + a.off /\ r.AvFILLp = -1
  BY <1>1, <1>2 DEF Shape, Fields
<1>4. /\ Shape(r)
      /\ (\A j \in 0 .. a.off + a.AvMAX :
            j < r.off \/ j > r.off + r.AvFILLp => b.slot[j] = NoElem) => Tidy(r)
  <2>1. /\ r.off \in Nat /\ r.AvMAX \in Int /\ r.off + r.AvMAX = b.off + b.AvMAX
        /\ r.AvFILLp \in Int /\ -1 <= r.AvFILLp /\ r.AvFILLp <= r.AvMAX
    <3>1. a.off \in Nat /\ a.AvMAX \in Int /\ a.AvFILLp \in Int
          /\ -1 <= a.AvFILLp /\ a.AvFILLp <= a.AvMAX
      BY DEF Shape
    <3> QED BY <1>1, <1>3, <3>1
  <2> QED BY <1>1, <1>3, <2>1, WindowKeeps
<1>5. ASSUME Tidy(a) PROVE Tidy(r)
  <2> SUFFICES ASSUME NEW j \in 0 .. a.off + a.AvMAX,
                      j < r.off \/ j > r.off + r.AvFILLp
               PROVE  b.slot[j] = NoElem
    BY <1>4
  <2>1. CASE j - a.off \in S
    BY <1>1, <2>1
  <2>2. CASE j - a.off \notin S
    <3>1. j < a.off \/ j > a.off + a.AvFILLp
      BY <1>3, <2>2 DEF Shape
    <3> HIDE DEF S
    <3> QED BY <1>1, <1>5, <2>2, <3>1 DEF Tidy
  <2> QED BY <2>1, <2>2
<1> QED BY <1>4, <1>5 DEF r

LEMMA MinOfTwo ==
  ASSUME NEW x \in Int, NEW y \in Int
  PROVE  /\ Min({x, y}) \in {x, y}
         /\ Min({x, y}) <= x /\ Min({x, y}) <= y
<1>1. \E z \in {x, y} : \A w \in {x, y} : z <= w
  <2>1. CASE x <= y
    BY <2>1
  <2>2. CASE ~(x <= y)
    BY <2>2
  <2> QED BY <2>1, <2>2
<1> QED BY <1>1 DEF Min

LEMMA MaxOfTwo ==
  ASSUME NEW x \in Int, NEW y \in Int
  PROVE  /\ Max({x, y}) \in {x, y}
         /\ Max({x, y}) >= x /\ Max({x, y}) >= y
<1>1. \E z \in {x, y} : \A w \in {x, y} : z >= w
  <2>1. CASE x <= y
    BY <2>1
  <2>2. CASE ~(x <= y)
    BY <2>2
  <2> QED BY <2>1, <2>2
<1> QED BY <1>1 DEF Max

\* A set of indices has a greatest one, or there is none and -1 stands for it.
LEMMA MaxOfIndices ==
  ASSUME NEW k \in Nat, NEW S, S \subseteq 0 .. k - 1
  PROVE  /\ Max({-1} \cup S) \in {-1} \cup S
         /\ \A x \in S : Max({-1} \cup S) >= x
<1> DEFINE U == {-1} \cup S
           T == {n \in Nat : k - n \in U}
<1>1. T # {}
  <2>1. k + 1 \in T
    OBVIOUS
  <2> QED BY <2>1
<1>2. T \subseteq Nat
  OBVIOUS
<1> HIDE DEF T
<1>3. PICK n \in T : \A m \in T : ~(<<m, n>> \in OpToRel(<, Nat))
  BY <1>1, <1>2, NatLessThanWellFounded, WFMin
<1>4. \A m \in T : ~(m < n)
  BY <1>2, <1>3 DEF OpToRel
<1>5. \A x \in U : k - x \in T /\ x \in Int
  BY DEF T
<1>6. k - n \in U /\ n \in Nat
  BY DEF T
<1>7. \A x \in U : k - n >= x
  BY <1>4, <1>5, <1>6, <1>2
<1> QED BY <1>6, <1>7 DEF Max

LEMMA DeleteKeeps ==
  ASSUME NEW a, Shape(a), NEW key \in Nat, key <= a.AvFILLp
  PROVE  Shape(av_delete(a, key)) /\ (Tidy(a) => Tidy(av_delete(a, key)))
<1> DEFINE S == {key}
           b == PutNull(a, S)
           last == Max({-1} \cup {j \in 0 .. key - 1 : At(a, j) # NoElem})
           r == [b EXCEPT !.AvFILLp = last]
<1>1. /\ Shape(b) /\ b.off = a.off /\ b.AvMAX = a.AvMAX /\ b.AvFILLp = a.AvFILLp
      /\ \A j \in 0 .. a.off + a.AvMAX :
           b.slot[j] = IF j - a.off \in S THEN NoElem ELSE a.slot[j]
      /\ Tidy(a) => Tidy(b)
  <2> HIDE DEF S
  <2> QED BY PutNullKeeps
<1>2. CASE key < a.AvFILLp
  BY <1>1, <1>2 DEF av_delete
<1>3. CASE ~(key < a.AvFILLp)
  <2> DEFINE I == {j \in 0 .. key - 1 : At(a, j) # NoElem}
  <2>1. I \subseteq 0 .. key - 1
    OBVIOUS
  <2>2. last \in {-1} \cup I /\ \A x \in I : last >= x
    <3> HIDE DEF I
    <3>1. Max({-1} \cup I) \in {-1} \cup I /\ \A x \in I : Max({-1} \cup I) >= x
      BY <2>1, MaxOfIndices
    <3> QED BY <3>1 DEF I
  <2>3. av_delete(a, key) = r
    BY <1>3 DEF av_delete
  <2>4. last \in Int /\ -1 <= last /\ last < key
    BY <2>1, <2>2
  <2> HIDE DEF last, b
  <2>5. /\ DOMAIN r = Fields /\ r.slot = b.slot /\ r.off = b.off /\ r.AvMAX = b.AvMAX
        /\ r.AvFILLp = last
    BY <1>1 DEF Shape, Fields
  <2> HIDE DEF r
  <2>6. /\ Shape(r)
        /\ (\A j \in 0 .. a.off + a.AvMAX :
              j < r.off \/ j > r.off + r.AvFILLp => b.slot[j] = NoElem) => Tidy(r)
    <3>1. /\ r.off \in Nat /\ r.AvMAX \in Int /\ r.off + r.AvMAX = b.off + b.AvMAX
          /\ r.AvFILLp \in Int /\ -1 <= r.AvFILLp /\ r.AvFILLp <= r.AvMAX
      <4>1. a.off \in Nat /\ a.AvMAX \in Int /\ a.AvFILLp \in Int
            /\ -1 <= a.AvFILLp /\ a.AvFILLp <= a.AvMAX
        BY DEF Shape
      <4> QED BY <1>1, <2>4, <2>5, <4>1
    <3> QED BY <1>1, <2>5, <3>1, WindowKeeps
  <2>7. ASSUME Tidy(a) PROVE Tidy(r)
    <3> SUFFICES ASSUME NEW j \in 0 .. a.off + a.AvMAX,
                        j < r.off \/ j > r.off + r.AvFILLp
                 PROVE  b.slot[j] = NoElem
      BY <2>6
    <3>1. CASE j - a.off \in S
      BY <1>1, <3>1
    <3>2. CASE j - a.off \in 0 .. key - 1
      <4>0. r.off = a.off /\ r.AvFILLp = last /\ a.off \in Nat
        BY <1>1, <2>5 DEF Shape
      <4>1. j - a.off \notin I
        <5> HIDE DEF I, S
        <5>1. last < j - a.off
          BY <2>4, <3>2, <4>0
        <5>2. ~(last >= j - a.off)
          BY <2>4, <4>0, <5>1
        <5> QED BY <2>2, <5>2
      <4>2. a.slot[a.off + (j - a.off)] = NoElem
        BY <3>2, <4>1 DEF At
      <4>3. a.off + (j - a.off) = j
        BY DEF Shape
      <4>4. j - a.off \notin S
        BY <3>2
      <4> QED BY <1>1, <4>2, <4>3, <4>4
    <3>3. CASE j - a.off \notin S /\ j - a.off \notin 0 .. key - 1
      <4>1. j < a.off \/ j > a.off + a.AvFILLp
        BY <1>3, <3>3 DEF Shape
      <4> HIDE DEF S
      <4> QED BY <1>1, <2>7, <3>3, <4>1 DEF Tidy
    <3> QED BY <3>1, <3>2, <3>3
  <2> QED BY <2>3, <2>6, <2>7
<1> QED BY <1>2, <1>3

-----------------------------------------------------------------------------
(* unshift().                                                              *)

LEMMA UnshiftKeeps ==
  ASSUME NEW a, Shape(a), NEW n \in Nat
  PROVE  /\ Shape(av_unshift(a, n))
         /\ Tidy(a) => Tidy(av_unshift(a, n))
         /\ av_unshift(a, n).AvFILLp >= n - 1
<1> DEFINE i == Min({n, a.off})
           b == [a EXCEPT !.off = @ - i, !.AvMAX = @ + i, !.AvFILLp = @ + i]
           fill == b.AvFILLp
           slide == Max({fill, 0})
           num == n - i + slide
           c == av_extend(b, fill + num)
           s == [j \in DOMAIN c.slot |->
                   IF j - c.off \in 0 .. fill + num
                     THEN IF j - c.off < num THEN NoElem ELSE At(c, j - c.off - num)
                     ELSE c.slot[j]]
           r == av_unshift(a, n)
<1>0. /\ a.off \in Nat /\ a.AvMAX \in Int /\ a.AvFILLp \in Int
      /\ -1 <= a.AvFILLp /\ a.AvFILLp <= a.AvMAX
  BY DEF Shape
<1>1. i \in Nat /\ i <= n /\ i <= a.off /\ (i = n \/ i = a.off)
  <2>1. n \in Int /\ a.off \in Int
    BY <1>0
  <2>2. i \in {n, a.off} /\ i <= n /\ i <= a.off
    BY <2>1, MinOfTwo
  <2> QED BY <1>0, <2>2
<1> HIDE DEF i
<1>2. /\ DOMAIN b = Fields /\ b.slot = a.slot /\ b.off = a.off - i
      /\ b.AvMAX = a.AvMAX + i /\ b.AvFILLp = a.AvFILLp + i
  BY DEF Shape, Fields
<1>3. r = IF n = i THEN b
          ELSE [[[c EXCEPT !.AvFILLp = @ + num] EXCEPT !.slot = s]
                  EXCEPT !.AvMAX = @ - slide, !.AvFILLp = @ - slide, !.off = @ + slide]
  BY DEF av_unshift, Put, i
<1> HIDE DEF b, r
<1>4. Shape(b)
  <2>1. /\ b.off \in Nat /\ b.AvMAX \in Int /\ b.off + b.AvMAX = a.off + a.AvMAX
        /\ b.AvFILLp \in Int /\ -1 <= b.AvFILLp /\ b.AvFILLp <= b.AvMAX
    BY <1>0, <1>1, <1>2
  <2> QED BY <1>2, <2>1, WindowKeeps
<1>5. Tidy(a) => Tidy(b)
  BY <1>0, <1>1, <1>2 DEF Tidy
<1>6. CASE n = i
  <2>1. r = b
    BY <1>3, <1>6
  <2>2. b.AvFILLp >= n - 1
    BY <1>0, <1>2, <1>6
  <2> QED BY <1>4, <1>5, <2>1, <2>2 DEF r
<1>7. CASE n # i
  <2>1. fill \in Int /\ fill >= -1
    BY <1>4 DEF Shape
  <2>2. slide \in Nat /\ slide >= fill /\ (slide = fill \/ slide = 0)
    <3>1. slide \in {fill, 0} /\ slide >= fill /\ slide >= 0
      <4> HIDE DEF fill
      <4> QED BY <2>1, MaxOfTwo
    <3> QED BY <2>1, <3>1
  <2> HIDE DEF slide
  <2>3. num \in Nat /\ num > slide /\ fill + num \in Nat
    BY <1>1, <1>7, <2>1, <2>2
  <2>4. b.off = 0
    BY <1>0, <1>1, <1>2, <1>7
  <2>5. /\ Shape(c) /\ c.AvMAX >= fill + num /\ c.AvFILLp = fill
        /\ Tidy(b) => Tidy(c)
    <3>1. fill + num \in Int /\ ~HasSlack(b, fill + num)
      BY <2>3, <2>4 DEF HasSlack
    <3> HIDE DEF fill, num
    <3>2. /\ Shape(c) /\ c.AvMAX >= fill + num /\ c.AvFILLp = b.AvFILLp
          /\ Tidy(b) => Tidy(c)
      BY <1>4, <3>1, ExtendKeeps
    <3> QED BY <3>2 DEF fill
  <2> HIDE DEF c, fill, num
  <2>6. /\ c.off \in Nat /\ c.AvMAX \in Int /\ DOMAIN c.slot = 0 .. c.off + c.AvMAX
        /\ \A j \in DOMAIN c.slot : c.slot[j] \in Values
    BY <2>5 DEF Shape
  <2>7. \A j \in DOMAIN c.slot : s[j] \in Values
    <3> SUFFICES ASSUME NEW j \in DOMAIN c.slot PROVE s[j] \in Values
      OBVIOUS
    <3>1. CASE j - c.off \in 0 .. fill + num /\ ~(j - c.off < num)
      <4>1. c.off + (j - c.off - num) \in DOMAIN c.slot
        <5>1. /\ num \in Nat /\ c.off \in Nat /\ c.AvMAX \in Int
              /\ DOMAIN c.slot = 0 .. c.off + c.AvMAX
          BY <2>3, <2>6
        <5>2. j \in Int /\ j - c.off >= num /\ j <= c.off + c.AvMAX
          BY <3>1, <5>1
        <5> QED BY <5>1, <5>2
      <4>2. s[j] = At(c, j - c.off - num)
        BY <3>1
      <4> QED BY <2>6, <4>1, <4>2 DEF At
    <3>2. CASE ~(j - c.off \in 0 .. fill + num /\ ~(j - c.off < num))
      BY <2>6, <3>2 DEF Values
    <3> QED BY <3>1, <3>2
  <2>8. \A j \in DOMAIN c.slot :
          /\ j - c.off \in 0 .. fill + num /\ j - c.off < num => s[j] = NoElem
          /\ j - c.off \notin 0 .. fill + num => s[j] = c.slot[j]
    OBVIOUS
  <2>9. s \in [0 .. c.off + c.AvMAX -> Values]
    BY <2>6, <2>7
  <2> HIDE DEF s
  <2>10. /\ DOMAIN r = Fields /\ r.slot = s /\ r.off = c.off + slide
         /\ r.AvMAX = c.AvMAX - slide /\ r.AvFILLp = fill + num - slide
    <3>1. DOMAIN c = Fields
      BY <2>5 DEF Shape, Fields
    <3> DEFINE d == [[c EXCEPT !.AvFILLp = @ + num] EXCEPT !.slot = s]
    <3>2. /\ DOMAIN d = Fields /\ d.slot = s /\ d.off = c.off /\ d.AvMAX = c.AvMAX
          /\ d.AvFILLp = fill + num
      BY <2>5, <3>1 DEF Fields
    <3>3. r = [d EXCEPT !.AvMAX = @ - slide, !.AvFILLp = @ - slide, !.off = @ + slide]
      BY <1>3, <1>7
    <3> HIDE DEF d
    <3>4. DOMAIN r = Fields
      BY <3>2, <3>3
    <3>5. r.slot = d.slot
      BY <3>2, <3>3 DEF Fields
    <3>6. r.off = d.off + slide
      BY <3>2, <3>3 DEF Fields
    <3>7. r.AvMAX = d.AvMAX - slide
      BY <3>2, <3>3 DEF Fields
    <3>8. r.AvFILLp = d.AvFILLp - slide
      BY <3>2, <3>3 DEF Fields
    <3> QED BY <2>1, <2>2, <2>3, <2>6, <3>2, <3>4, <3>5, <3>6, <3>7, <3>8
  <2>11. /\ r.off \in Nat /\ r.AvMAX \in Int /\ r.off + r.AvMAX = c.off + c.AvMAX
         /\ r.AvFILLp \in Int /\ -1 <= r.AvFILLp /\ r.AvFILLp <= r.AvMAX
    BY <2>1, <2>2, <2>3, <2>5, <2>6, <2>10
  <2>12. Shape(r)
    BY <2>9, <2>10, <2>11 DEF Shape, Fields
  <2>13. ASSUME Tidy(a) PROVE Tidy(r)
    <3> SUFFICES ASSUME NEW j \in 0 .. c.off + c.AvMAX,
                        j < r.off \/ j > r.off + r.AvFILLp
                 PROVE  s[j] = NoElem
      BY <2>10, <2>11 DEF Tidy
    <3>1. CASE j - c.off \in 0 .. fill + num
      <4>1. j - c.off < num
        BY <2>1, <2>2, <2>3, <2>6, <2>10, <3>1
      <4> QED BY <2>6, <2>8, <3>1, <4>1
    <3>2. CASE j - c.off \notin 0 .. fill + num
      <4>1. j < c.off \/ j > c.off + c.AvFILLp
        BY <2>1, <2>3, <2>5, <2>6, <3>2
      <4>2. c.slot[j] = NoElem
        BY <1>5, <2>5, <2>13, <4>1 DEF Tidy
      <4> QED BY <2>6, <2>8, <3>2, <4>2
    <3> QED BY <3>1, <3>2
  <2>14. fill = a.AvFILLp + i
    BY <1>2 DEF fill
  <2>15. r.AvFILLp >= n - 1
    <3>1. r.AvFILLp = a.AvFILLp + i + (n - i + slide) - slide
      BY <2>10, <2>14 DEF num
    <3> QED BY <1>0, <1>1, <2>2, <3>1
  <2> QED BY <2>12, <2>13, <2>15 DEF r
<1> QED BY <1>6, <1>7

\* A list of elements is stored at offset, within the array.
PutList(a, offset, new) ==
  Put(a, offset .. offset + Len(new) - 1, LAMBDA j : new[j - offset + 1])

LEMMA ListKeeps ==
  ASSUME NEW a, Shape(a), NEW offset \in Nat, NEW new \in Seq(Elem),
         offset + Len(new) - 1 <= a.AvFILLp
  PROVE  Shape(PutList(a, offset, new)) /\ (Tidy(a) => Tidy(PutList(a, offset, new)))
<1> DEFINE S == offset .. offset + Len(new) - 1
           s == [j \in DOMAIN a.slot |->
                   IF j - a.off \in S THEN new[j - a.off - offset + 1] ELSE a.slot[j]]
<1>0. Len(new) \in Nat /\ a.off \in Nat /\ a.AvFILLp \in Int
      /\ \A m \in 1 .. Len(new) : new[m] \in Elem
  BY DEF Shape
<1>1. PutList(a, offset, new) = [a EXCEPT !.slot = s]
  BY DEF PutList, Put
<1>2. Writes(a, s, S)
  <2> SUFFICES ASSUME NEW j \in DOMAIN a.slot, j - a.off \in S
               PROVE  s[j] \in Values
    BY DEF Writes
  <2>1. s[j] = new[j - a.off - offset + 1]
    OBVIOUS
  <2>2. j - a.off - offset + 1 \in 1 .. Len(new)
    BY <1>0
  <2> QED BY <1>0, <2>1, <2>2 DEF Values
<1>3. S \subseteq 0 .. a.AvFILLp
  BY <1>0
<1> HIDE DEF s, S
<1>5. Shape([a EXCEPT !.slot = s])
  BY <1>2, WriteKeeps
<1>6. Tidy(a) => Tidy([a EXCEPT !.slot = s])
  BY <1>2, <1>3, WriteKeeps
<1> QED BY <1>1, <1>5, <1>6

LEMMA UnshiftListKeeps ==
  ASSUME NEW a, Shape(a), NEW new \in Seq(Elem)
  PROVE  Shape(pp_unshift(a, new)) /\ (Tidy(a) => Tidy(pp_unshift(a, new)))
<1> DEFINE b == av_unshift(a, Len(new))
<1>1. Shape(b) /\ (Tidy(a) => Tidy(b)) /\ 0 + Len(new) - 1 <= b.AvFILLp
  <2>1. Len(new) \in Nat
    OBVIOUS
  <2> QED BY <2>1, UnshiftKeeps DEF Shape
<1>2. pp_unshift(a, new) = PutList(b, 0, new)
  <2> HIDE DEF b
  <2>1. Len(new) \in Nat /\ b.off \in Nat /\ DOMAIN b.slot = 0 .. b.off + b.AvMAX
    BY <1>1 DEF Shape
  <2>2. \A j \in DOMAIN b.slot :
          /\ j - b.off + 1 = j - b.off - 0 + 1
          /\ 0 .. Len(new) - 1 = 0 .. 0 + Len(new) - 1
    BY <2>1
  <2>3. [j \in DOMAIN b.slot |->
           IF j - b.off \in 0 .. Len(new) - 1 THEN new[j - b.off + 1] ELSE b.slot[j]]
        = [j \in DOMAIN b.slot |->
           IF j - b.off \in 0 .. 0 + Len(new) - 1 THEN new[j - b.off - 0 + 1] ELSE b.slot[j]]
    BY <2>2
  <2> QED BY <2>3 DEF pp_unshift, PutList, Put, b
<1> HIDE DEF b
<1> QED BY <1>1, <1>2, ListKeeps

-----------------------------------------------------------------------------
(* splice().                                                               *)

\* Slots are written, and then some are emptied.
LEMMA WriteThenEmpty ==
  ASSUME NEW b, Shape(b), NEW S, NEW s, Writes(b, s, S), NEW E, NEW q, q = PutNull([b EXCEPT !.slot = s], E)
  PROVE  /\ Shape(q) /\ DOMAIN q = Fields
         /\ q.off = b.off /\ q.AvMAX = b.AvMAX /\ q.AvFILLp = b.AvFILLp
         /\ \A j \in 0 .. b.off + b.AvMAX :
              /\ j - b.off \in E => q.slot[j] = NoElem
              /\ j - b.off \notin E /\ j - b.off \notin S => q.slot[j] = b.slot[j]
<1> DEFINE p == [b EXCEPT !.slot = s]
<1>p. q = PutNull(p, E)
  OBVIOUS
<1>1. Shape(p)
  BY WriteKeeps
<1>2. p.slot = s /\ p.off = b.off /\ p.AvMAX = b.AvMAX /\ p.AvFILLp = b.AvFILLp
  BY DEF Shape
<1> HIDE DEF p
<1>3. /\ Shape(q)
      /\ q.off = b.off /\ q.AvMAX = b.AvMAX /\ q.AvFILLp = b.AvFILLp
      /\ \A j \in 0 .. b.off + b.AvMAX :
           q.slot[j] = IF j - b.off \in E THEN NoElem ELSE s[j]
  <2>1. /\ Shape(q)
        /\ q.off = p.off /\ q.AvMAX = p.AvMAX /\ q.AvFILLp = p.AvFILLp
        /\ \A j \in 0 .. p.off + p.AvMAX :
             q.slot[j] = IF j - p.off \in E THEN NoElem ELSE p.slot[j]
    <3>1. /\ Shape(PutNull(p, E))
          /\ PutNull(p, E).off = p.off /\ PutNull(p, E).AvMAX = p.AvMAX
          /\ PutNull(p, E).AvFILLp = p.AvFILLp
          /\ \A j \in 0 .. p.off + p.AvMAX :
               PutNull(p, E).slot[j] = IF j - p.off \in E THEN NoElem ELSE p.slot[j]
      BY <1>1, PutNullKeeps
    <3> QED BY <1>p, <3>1
  <2> QED BY <1>2, <2>1
<1>4. \A j \in 0 .. b.off + b.AvMAX : j - b.off \notin S => s[j] = b.slot[j]
  BY DEF Shape, Writes
<1>5. DOMAIN q = Fields
  BY <1>3 DEF Shape, Fields
<1>6. \A j \in 0 .. b.off + b.AvMAX :
        /\ j - b.off \in E => q.slot[j] = NoElem
        /\ j - b.off \notin E /\ j - b.off \notin S => q.slot[j] = b.slot[j]
  BY <1>3, <1>4
<1> QED BY <1>3, <1>5, <1>6

(* The window of an array starts off slots in, its last element is at fill  *)
(* and its last slot at max.  What a splice() reads lies within the block,  *)
(* what it writes within the new window, and what that leaves is emptied.   *)

ShrinksUp(off, max, fill, offset, gone) ==
  /\ off + gone \in Nat /\ max - gone \in Int /\ off + gone + (max - gone) = off + max
  /\ fill - gone \in Int /\ -1 <= fill - gone /\ fill - gone <= max - gone
  /\ \A j \in 0 .. off + max :
       /\ j - off \in gone .. gone + offset - 1
            => off + (j - off - gone) \in 0 .. off + max
       /\ /\ j < off + gone \/ j > off + gone + (fill - gone)
          /\ j - off \notin 0 .. gone - 1
          => j < off \/ j > off + fill
       /\ j < off \/ j > off + fill => j - off \notin gone .. gone + offset - 1

LEMMA ShrinkUp ==
  ASSUME NEW off \in Nat, NEW max \in Int, NEW fill \in Int, -1 <= fill, fill <= max,
         NEW offset \in Nat, NEW gone \in Nat, gone > 0, offset + gone <= fill + 1
  PROVE  ShrinksUp(off, max, fill, offset, gone)
BY DEF ShrinksUp

ShrinksDown(off, max, fill, first, gone) ==
  \A j \in 0 .. off + max :
    /\ j - off \in first .. fill - gone => off + (j - off + gone) \in 0 .. off + max
    /\ /\ j < off \/ j > off + (fill - gone)
       /\ j - off \notin fill - gone + 1 .. fill - gone + gone
       => j < off \/ j > off + fill
    /\ j < off \/ j > off + fill => j - off \notin first .. fill - gone

LEMMA ShrinkDown ==
  ASSUME NEW off \in Nat, NEW max \in Int, NEW fill \in Int, -1 <= fill, fill <= max,
         NEW first \in Nat, NEW gone \in Nat, gone > 0, gone <= fill + 1
  PROVE  ShrinksDown(off, max, fill, first, gone)
BY DEF ShrinksDown

ExpandsDown(off, max, fill, offset, diff) ==
  /\ off - diff \in Nat /\ max + diff \in Int /\ off - diff + (max + diff) = off + max
  /\ fill + diff \in Int /\ -1 <= fill + diff /\ fill + diff <= max + diff
  /\ \A j \in 0 .. off + max :
       /\ j - (off - diff) \in 0 .. offset - 1
            => off + (j - (off - diff)) \in 0 .. off + max
       /\ j < off - diff \/ j > off - diff + (fill + diff) => j < off \/ j > off + fill

LEMMA ExpandDown ==
  ASSUME NEW off \in Nat, NEW max \in Int, NEW fill \in Int, -1 <= fill, fill <= max,
         NEW offset \in Nat, offset <= fill + 1, NEW diff \in Nat, diff <= off
  PROVE  ExpandsDown(off, max, fill, offset, diff)
BY DEF ExpandsDown

ExpandsUp(off, max, fill, first, diff) ==
  \A j \in 0 .. off + max :
    /\ j - off \in first .. fill + diff => off + (j - off - diff) \in 0 .. off + max
    /\ j < off \/ j > off + (fill + diff) => j < off \/ j > off + fill

LEMMA ExpandUp ==
  ASSUME NEW off \in Nat, NEW max \in Int, NEW fill \in Int, -1 <= fill, fill <= max,
         NEW first \in Int, NEW diff \in Nat, first - diff >= 0
  PROVE  ExpandsUp(off, max, fill, first, diff)
BY DEF ExpandsUp

LEMMA ShrinkKeeps ==
  ASSUME NEW a, Shape(a), NEW offset \in Nat, NEW length \in Nat, NEW new \in Seq(Elem),
         length > Len(new), offset + length <= a.AvFILLp + 1
  PROVE  /\ Shape(Shrink(a, offset, length, new))
         /\ Tidy(a) => Tidy(Shrink(a, offset, length, new))
<1> DEFINE n == Len(new)
           gone == length - n
           after == a.AvFILLp + 1 - (offset + length)
           b == [a EXCEPT !.AvFILLp = @ - gone]
           UpS == gone .. gone + offset - 1
           UpE == 0 .. gone - 1
           ups == [j \in DOMAIN b.slot |->
                     IF j - b.off \in UpS THEN At(a, j - b.off - gone) ELSE b.slot[j]]
           upq == PutNull([b EXCEPT !.slot = ups], UpE)
           up == [upq EXCEPT !.off = @ + gone, !.AvMAX = @ - gone]
           DownS == offset + n .. offset + n + after - 1
           DownE == b.AvFILLp + 1 .. b.AvFILLp + gone
           downs == [j \in DOMAIN b.slot |->
                       IF j - b.off \in DownS THEN At(a, j - b.off + gone) ELSE b.slot[j]]
           down == PutNull([b EXCEPT !.slot = downs], DownE)
           moved == IF offset < after THEN up ELSE down
<1>0. /\ a.off \in Nat /\ a.AvMAX \in Int /\ a.AvFILLp \in Int
      /\ -1 <= a.AvFILLp /\ a.AvFILLp <= a.AvMAX
  BY DEF Shape
<1>s. DOMAIN a.slot = 0 .. a.off + a.AvMAX
      /\ \A j \in 0 .. a.off + a.AvMAX : a.slot[j] \in Values
  BY DEF Shape
<1>1. n \in Nat /\ gone \in Nat /\ gone > 0 /\ gone <= length /\ n = length - gone
      /\ after \in Nat /\ offset + length + after = a.AvFILLp + 1
  BY <1>0
<1>2. Shrink(a, offset, length, new) = PutList(moved, offset, new)
  BY DEF Shrink, PutList, Put
<1> HIDE DEF n, gone, after
<1>u. ShrinksUp(a.off, a.AvMAX, a.AvFILLp, offset, gone)
  <2>1. offset + gone <= a.AvFILLp + 1
    BY <1>0, <1>1
  <2> QED BY <1>0, <1>1, <2>1, ShrinkUp
<1>d. /\ ShrinksDown(a.off, a.AvMAX, a.AvFILLp, offset + n, gone)
      /\ offset + n + after - 1 = a.AvFILLp - gone
  <2>1. gone <= a.AvFILLp + 1 /\ offset + n \in Nat
    BY <1>0, <1>1
  <2>2. ShrinksDown(a.off, a.AvMAX, a.AvFILLp, offset + n, gone)
    BY <1>0, <1>1, <2>1, ShrinkDown
  <2> QED BY <1>0, <1>1, <2>2
<1>3. /\ DOMAIN b = Fields /\ b.slot = a.slot /\ b.off = a.off /\ b.AvMAX = a.AvMAX
      /\ b.AvFILLp = a.AvFILLp - gone
  BY DEF Shape, Fields
<1> HIDE DEF b
<1>4. Shape(b)
  <2>1. /\ b.off \in Nat /\ b.AvMAX \in Int /\ b.off + b.AvMAX = a.off + a.AvMAX
        /\ b.AvFILLp \in Int /\ -1 <= b.AvFILLp /\ b.AvFILLp <= b.AvMAX
    BY <1>0, <1>1, <1>3
  <2> QED BY <1>3, <2>1, WindowKeeps
<1>5. Shape(up) /\ up.AvFILLp = a.AvFILLp - gone /\ (Tidy(a) => Tidy(up))
  <2>1. Writes(b, ups, UpS)
    <3> SUFFICES ASSUME NEW j \in DOMAIN b.slot, j - b.off \in UpS
                 PROVE  ups[j] \in Values
      BY DEF Writes
    <3>1. a.off + (j - b.off - gone) \in 0 .. a.off + a.AvMAX
      <4>1. j \in 0 .. a.off + a.AvMAX /\ b.off = a.off
        BY <1>3, <1>s
      <4> QED BY <1>u, <4>1 DEF ShrinksUp
    <3>2. ups[j] = At(a, j - b.off - gone)
      OBVIOUS
    <3> QED BY <1>s, <3>1, <3>2 DEF At
  <2> HIDE DEF ups, UpS, UpE
  <2>3. /\ Shape(upq) /\ DOMAIN upq = Fields
        /\ upq.off = b.off /\ upq.AvMAX = b.AvMAX /\ upq.AvFILLp = b.AvFILLp
        /\ \A j \in 0 .. b.off + b.AvMAX :
             /\ j - b.off \in UpE => upq.slot[j] = NoElem
             /\ j - b.off \notin UpE /\ j - b.off \notin UpS => upq.slot[j] = b.slot[j]
    <3>1. upq = PutNull([b EXCEPT !.slot = ups], UpE)
      OBVIOUS
    <3> HIDE DEF upq
    <3> QED BY <1>4, <2>1, <3>1, WriteThenEmpty
  <2> HIDE DEF upq
  <2>4. /\ DOMAIN up = Fields /\ up.slot = upq.slot /\ up.off = a.off + gone
        /\ up.AvMAX = a.AvMAX - gone /\ up.AvFILLp = a.AvFILLp - gone
    BY <1>3, <2>3 DEF Fields
  <2> HIDE DEF up
  <2>5. /\ Shape(up)
        /\ (\A j \in 0 .. upq.off + upq.AvMAX :
              j < up.off \/ j > up.off + up.AvFILLp => upq.slot[j] = NoElem) => Tidy(up)
    <3>1. /\ up.off \in Nat /\ up.AvMAX \in Int /\ up.off + up.AvMAX = upq.off + upq.AvMAX
          /\ up.AvFILLp \in Int /\ -1 <= up.AvFILLp /\ up.AvFILLp <= up.AvMAX
      <4>1. /\ a.off + gone \in Nat /\ a.AvMAX - gone \in Int
            /\ a.off + gone + (a.AvMAX - gone) = a.off + a.AvMAX
            /\ a.AvFILLp - gone \in Int /\ -1 <= a.AvFILLp - gone
            /\ a.AvFILLp - gone <= a.AvMAX - gone
        BY <1>u DEF ShrinksUp
      <4>2. upq.off = a.off /\ upq.AvMAX = a.AvMAX
        BY <1>3, <2>3
      <4> QED BY <2>4, <4>1, <4>2
    <3> QED BY <2>3, <2>4, <3>1, WindowKeeps
  <2>6. ASSUME Tidy(a) PROVE Tidy(up)
    <3> SUFFICES ASSUME NEW j \in 0 .. a.off + a.AvMAX,
                        j < up.off \/ j > up.off + up.AvFILLp
                 PROVE  upq.slot[j] = NoElem
      BY <1>3, <2>3, <2>5
    <3>1. CASE j - a.off \in UpE
      BY <1>3, <2>3, <3>1
    <3>2. CASE j - a.off \notin UpE
      <4>1. j < a.off \/ j > a.off + a.AvFILLp
        <5>1. j < a.off + gone \/ j > a.off + gone + (a.AvFILLp - gone)
          BY <2>4
        <5> QED BY <1>u, <3>2, <5>1 DEF UpE, ShrinksUp
      <4>2. j - a.off \notin UpS
        BY <1>u, <4>1 DEF UpS, ShrinksUp
      <4>3. upq.slot[j] = a.slot[j]
        BY <1>3, <2>3, <3>2, <4>2
      <4> QED BY <2>6, <4>1, <4>3 DEF Tidy
    <3> QED BY <3>1, <3>2
  <2> QED BY <2>4, <2>5, <2>6
<1>6. Shape(down) /\ down.AvFILLp = a.AvFILLp - gone /\ (Tidy(a) => Tidy(down))
  <2>1. Writes(b, downs, DownS)
    <3> SUFFICES ASSUME NEW j \in DOMAIN b.slot, j - b.off \in DownS
                 PROVE  downs[j] \in Values
      BY DEF Writes
    <3>1. a.off + (j - b.off + gone) \in 0 .. a.off + a.AvMAX
      <4>1. j \in 0 .. a.off + a.AvMAX /\ b.off = a.off
        BY <1>3, <1>s
      <4> QED BY <1>d, <4>1 DEF ShrinksDown
    <3>2. downs[j] = At(a, j - b.off + gone)
      OBVIOUS
    <3> QED BY <1>s, <3>1, <3>2 DEF At
  <2> HIDE DEF downs, DownS, DownE
  <2>3. /\ Shape(down)
        /\ down.off = b.off /\ down.AvMAX = b.AvMAX /\ down.AvFILLp = b.AvFILLp
        /\ \A j \in 0 .. b.off + b.AvMAX :
             /\ j - b.off \in DownE => down.slot[j] = NoElem
             /\ j - b.off \notin DownE /\ j - b.off \notin DownS => down.slot[j] = b.slot[j]
    <3>1. down = PutNull([b EXCEPT !.slot = downs], DownE)
      OBVIOUS
    <3> HIDE DEF down
    <3> QED BY <1>4, <2>1, <3>1, WriteThenEmpty
  <2> HIDE DEF down
  <2>4. ASSUME Tidy(a) PROVE Tidy(down)
    <3> SUFFICES ASSUME NEW j \in 0 .. a.off + a.AvMAX,
                        j < a.off \/ j > a.off + a.AvFILLp - gone
                 PROVE  down.slot[j] = NoElem
      BY <1>3, <2>3 DEF Tidy
    <3>1. CASE j - a.off \in DownE
      BY <1>3, <2>3, <3>1
    <3>2. CASE j - a.off \notin DownE
      <4>1. j < a.off \/ j > a.off + a.AvFILLp
        <5>1. DownE = a.AvFILLp - gone + 1 .. a.AvFILLp - gone + gone
          BY <1>3 DEF DownE
        <5> QED BY <1>d, <3>2, <5>1 DEF ShrinksDown
      <4>2. j - a.off \notin DownS
        BY <1>d, <4>1 DEF DownS, ShrinksDown
      <4>3. down.slot[j] = a.slot[j]
        BY <1>3, <2>3, <3>2, <4>2
      <4> QED BY <2>4, <4>1, <4>3 DEF Tidy
    <3> QED BY <3>1, <3>2
  <2> QED BY <1>3, <2>3, <2>4
<1> HIDE DEF up, down
<1>7. Shape(moved) /\ moved.AvFILLp = a.AvFILLp - gone /\ (Tidy(a) => Tidy(moved))
  BY <1>5, <1>6
<1> HIDE DEF moved
<1>8. offset + Len(new) - 1 <= moved.AvFILLp
  BY <1>0, <1>1, <1>7 DEF n
<1> QED BY <1>2, <1>7, <1>8, ListKeeps

LEMMA ExpandKeeps ==
  ASSUME NEW a, Shape(a), NEW offset \in Nat, NEW length \in Nat, NEW new \in Seq(Elem),
         length <= Len(new), offset + length <= a.AvFILLp + 1
  PROVE  /\ Shape(Expand(a, offset, length, new))
         /\ Tidy(a) /\ ~HasSlack(a, a.AvFILLp + Len(new) - length)
              => Tidy(Expand(a, offset, length, new))
<1> DEFINE n == Len(new)
           diff == n - length
           after == a.AvFILLp + 1 - (offset + length)
           low == [a EXCEPT !.off = @ - diff, !.AvMAX = @ + diff, !.AvFILLp = @ + diff]
           DownS == 0 .. offset - 1
           downs == [j \in DOMAIN low.slot |->
                       IF j - low.off \in DownS THEN At(a, j - low.off) ELSE low.slot[j]]
           down == [low EXCEPT !.slot = downs]
           b == IF a.AvFILLp + diff >= a.AvMAX THEN av_extend(a, a.AvFILLp + diff) ELSE a
           c == [b EXCEPT !.AvFILLp = @ + diff]
           UpS == offset + n .. offset + n + after - 1
           ups == [j \in DOMAIN c.slot |->
                     IF j - c.off \in UpS THEN At(b, j - c.off - diff) ELSE c.slot[j]]
           up == [c EXCEPT !.slot = ups]
           IsDown == diff > 0 /\ offset < after /\ diff <= a.off
           moved == CASE diff = 0 -> a
                      [] IsDown -> down
                      [] OTHER -> up
           NoSlack == ~HasSlack(a, a.AvFILLp + diff)
<1>0. /\ a.off \in Nat /\ a.AvMAX \in Int /\ a.AvFILLp \in Int
      /\ -1 <= a.AvFILLp /\ a.AvFILLp <= a.AvMAX
  BY DEF Shape
<1>s. DOMAIN a.slot = 0 .. a.off + a.AvMAX
      /\ \A j \in 0 .. a.off + a.AvMAX : a.slot[j] \in Values
  BY DEF Shape
<1>1. n \in Nat /\ diff \in Nat /\ n = length + diff
      /\ after \in Nat /\ offset + length + after = a.AvFILLp + 1
      /\ a.AvFILLp + diff = a.AvFILLp + Len(new) - length
  BY <1>0
<1>2. Expand(a, offset, length, new) = PutList(moved, offset, new)
  BY DEF Expand, PutList, Put
<1> HIDE DEF n, diff, after
<1>3. CASE diff = 0
  <2>1. moved = a
    BY <1>3
  <2>2. offset + Len(new) - 1 <= a.AvFILLp
    BY <1>0, <1>1, <1>3 DEF n
  <2> QED BY <1>2, <2>1, <2>2, ListKeeps
<1>4. ASSUME IsDown PROVE Shape(down) /\ down.AvFILLp = a.AvFILLp + diff /\ (Tidy(a) => Tidy(down))
  <2>1. /\ DOMAIN low = Fields /\ low.slot = a.slot /\ low.off = a.off - diff
        /\ low.AvMAX = a.AvMAX + diff /\ low.AvFILLp = a.AvFILLp + diff
    BY DEF Shape, Fields
  <2>x. ExpandsDown(a.off, a.AvMAX, a.AvFILLp, offset, diff)
    <3>1. diff <= a.off /\ offset <= a.AvFILLp + 1
      BY <1>0, <1>1, <1>4
    <3> QED BY <1>0, <1>1, <3>1, ExpandDown
  <2> HIDE DEF low
  <2>2. /\ low.off \in Nat /\ low.AvMAX \in Int /\ low.off + low.AvMAX = a.off + a.AvMAX
        /\ low.AvFILLp \in Int /\ -1 <= low.AvFILLp /\ low.AvFILLp <= low.AvMAX
    BY <2>1, <2>x DEF ExpandsDown
  <2>3. Shape(low)
    BY <2>1, <2>2, WindowKeeps
  <2>4. Tidy(a) => Tidy(low)
    <3> SUFFICES ASSUME Tidy(a), NEW j \in 0 .. a.off + a.AvMAX,
                        j < low.off \/ j > low.off + low.AvFILLp
                 PROVE  a.slot[j] = NoElem
      BY <2>1, <2>2 DEF Tidy
    <3>1. j < a.off \/ j > a.off + a.AvFILLp
      BY <2>1, <2>x DEF ExpandsDown
    <3> QED BY <3>1 DEF Tidy
  <2>5. Writes(low, downs, DownS)
    <3> SUFFICES ASSUME NEW j \in DOMAIN low.slot, j - low.off \in DownS
                 PROVE  downs[j] \in Values
      BY DEF Writes
    <3>1. a.off + (j - low.off) \in 0 .. a.off + a.AvMAX
      <4>1. j \in 0 .. a.off + a.AvMAX
        BY <2>1, <1>s
      <4> QED BY <2>1, <2>x, <4>1 DEF ExpandsDown
    <3>2. downs[j] = At(a, j - low.off)
      OBVIOUS
    <3> QED BY <1>s, <3>1, <3>2 DEF At
  <2>7. DownS \subseteq 0 .. low.AvFILLp
    BY <1>0, <1>1, <2>1
  <2> HIDE DEF downs, DownS
  <2>8. Shape(down)
    BY <2>3, <2>5, WriteKeeps
  <2>9. Tidy(low) => Tidy(down)
    BY <2>3, <2>5, <2>7, WriteKeeps
  <2>10. down.AvFILLp = low.AvFILLp
    BY <2>1 DEF Fields
  <2> QED BY <2>1, <2>4, <2>8, <2>9, <2>10
<1>5. Shape(up) /\ up.AvFILLp = a.AvFILLp + diff /\ (Tidy(a) /\ NoSlack => Tidy(up))
  <2>1. /\ Shape(b) /\ b.AvMAX >= a.AvFILLp + diff /\ b.AvFILLp = a.AvFILLp
        /\ Tidy(a) /\ NoSlack => Tidy(b)
    <3>1. CASE a.AvFILLp + diff >= a.AvMAX
      <4>1. a.AvFILLp + diff \in Int
        BY <1>0, <1>1
      <4> QED BY <3>1, <4>1, ExtendKeeps
    <3>2. CASE ~(a.AvFILLp + diff >= a.AvMAX)
      BY <1>0, <1>1, <3>2
    <3> QED BY <3>1, <3>2
  <2> HIDE DEF b, NoSlack
  <2>2. /\ b.off \in Nat /\ b.AvMAX \in Int /\ DOMAIN b = Fields
        /\ DOMAIN b.slot = 0 .. b.off + b.AvMAX
        /\ \A j \in 0 .. b.off + b.AvMAX : b.slot[j] \in Values
    BY <2>1 DEF Shape, Fields
  <2>x. /\ ExpandsUp(b.off, b.AvMAX, a.AvFILLp, offset + n, diff)
        /\ offset + n + after - 1 = a.AvFILLp + diff
    <3>1. /\ offset + n \in Int /\ offset + n - diff >= 0
          /\ offset + n + after - 1 = a.AvFILLp + diff
      BY <1>0, <1>1
    <3>2. a.AvFILLp <= b.AvMAX
      <4>1. b.AvFILLp <= b.AvMAX
        BY <2>1 DEF Shape
      <4> QED BY <2>1, <4>1
    <3>3. /\ b.off \in Nat /\ b.AvMAX \in Int /\ a.AvFILLp \in Int
          /\ -1 <= a.AvFILLp /\ diff \in Nat
      BY <1>0, <1>1, <2>2
    <3>4. ExpandsUp(b.off, b.AvMAX, a.AvFILLp, offset + n, diff)
      <4> DEFINE first == offset + n
      <4>1. first \in Int /\ first - diff >= 0
        BY <1>1, <3>1
      <4> HIDE DEF first
      <4>2. ExpandsUp(b.off, b.AvMAX, a.AvFILLp, first, diff)
        BY <3>2, <3>3, <4>1, ExpandUp
      <4> QED BY <4>2 DEF first
    <3> QED BY <3>1, <3>4
  <2>3. /\ DOMAIN c = Fields /\ c.slot = b.slot /\ c.off = b.off /\ c.AvMAX = b.AvMAX
        /\ c.AvFILLp = a.AvFILLp + diff
    BY <2>1, <2>2 DEF Fields
  <2> HIDE DEF c
  <2>4. Shape(c)
    <3>1. /\ c.off \in Nat /\ c.AvMAX \in Int /\ c.off + c.AvMAX = b.off + b.AvMAX
          /\ c.AvFILLp \in Int /\ -1 <= c.AvFILLp /\ c.AvFILLp <= c.AvMAX
      <4>1. c.off \in Nat /\ c.AvMAX \in Int /\ c.off + c.AvMAX = b.off + b.AvMAX
        BY <2>2, <2>3
      <4>2. a.AvFILLp \in Int /\ -1 <= a.AvFILLp /\ diff \in Nat
        BY <1>0, <1>1
      <4>3. c.AvFILLp = a.AvFILLp + diff /\ c.AvFILLp <= c.AvMAX
        BY <2>1, <2>2, <2>3, <4>2
      <4> QED BY <4>1, <4>2, <4>3
    <3> QED BY <2>1, <2>3, <3>1, WindowKeeps
  <2>5. Tidy(b) => Tidy(c)
    <3> SUFFICES ASSUME Tidy(b), NEW j \in 0 .. b.off + b.AvMAX,
                        j < b.off \/ j > b.off + (a.AvFILLp + diff)
                 PROVE  b.slot[j] = NoElem
      BY <2>3 DEF Tidy
    <3>1. j < b.off \/ j > b.off + b.AvFILLp
      BY <2>1, <2>x DEF ExpandsUp
    <3> QED BY <3>1 DEF Tidy
  <2>6. Writes(c, ups, UpS)
    <3> SUFFICES ASSUME NEW j \in DOMAIN c.slot, j - c.off \in UpS
                 PROVE  ups[j] \in Values
      BY DEF Writes
    <3>1. b.off + (j - c.off - diff) \in 0 .. b.off + b.AvMAX
      <4>1. j \in 0 .. b.off + b.AvMAX /\ c.off = b.off
        BY <2>2, <2>3
      <4> QED BY <2>x, <4>1 DEF ExpandsUp
    <3>2. ups[j] = At(b, j - c.off - diff)
      OBVIOUS
    <3> QED BY <2>2, <3>1, <3>2 DEF At
  <2>8. UpS \subseteq 0 .. c.AvFILLp
    BY <1>0, <1>1, <2>3
  <2> HIDE DEF ups, UpS
  <2>9. Shape(up)
    BY <2>4, <2>6, WriteKeeps
  <2>10. Tidy(c) => Tidy(up)
    BY <2>4, <2>6, <2>8, WriteKeeps
  <2>11. up.AvFILLp = c.AvFILLp
    BY <2>3 DEF Fields
  <2> QED BY <2>1, <2>3, <2>5, <2>9, <2>10, <2>11
<1>6. CASE diff # 0
  <2>1. moved = IF IsDown THEN down ELSE up
    BY <1>6
  <2> HIDE DEF down, up, moved, NoSlack, IsDown
  <2>2. /\ Shape(moved) /\ moved.AvFILLp = a.AvFILLp + diff
        /\ Tidy(a) /\ NoSlack => Tidy(moved)
    BY <1>4, <1>5, <2>1
  <2>3. offset + Len(new) - 1 <= moved.AvFILLp
    BY <1>0, <1>1, <2>2 DEF n
  <2>4. ~HasSlack(a, a.AvFILLp + Len(new) - length) => NoSlack
    BY <1>1 DEF NoSlack
  <2> QED BY <1>2, <2>2, <2>3, <2>4, ListKeeps
<1> QED BY <1>3, <1>6

LEMMA SpliceKeeps ==
  ASSUME NEW a, Shape(a), NEW offset \in Nat, NEW len \in Nat, NEW new \in Seq(Elem),
         offset <= a.AvFILLp + 1
  PROVE  /\ Shape(pp_splice(a, offset, len, new))
         /\ /\ Tidy(a)
            /\ ~HasSlack(a, a.AvFILLp + Len(new) - Min({len, a.AvFILLp + 1 - offset}))
            => Tidy(pp_splice(a, offset, len, new))
<1> DEFINE rest == a.AvFILLp + 1 - offset
           length == Min({len, rest})
           b == IF a.slot = <<>> /\ len > length THEN av_extend(a, 0) ELSE a
           fill == a.AvFILLp + Len(new) - length
<1>1. a.AvFILLp \in Int /\ rest \in Nat
  BY DEF Shape
<1>2. length \in Nat /\ length <= rest
  <2> HIDE DEF rest
  <2>1. len \in Int /\ rest \in Int
    BY <1>1
  <2>2. length \in {len, rest} /\ length <= rest
    BY <2>1, MinOfTwo
  <2> QED BY <1>1, <2>2
<1>3. offset + length <= a.AvFILLp + 1
  BY <1>1, <1>2
<1>4. pp_splice(a, offset, len, new) =
        IF length > Len(new) THEN Shrink(b, offset, length, new)
                             ELSE Expand(b, offset, length, new)
  BY DEF pp_splice
<1> HIDE DEF length, rest
<1>5. /\ Shape(b) /\ b.AvFILLp = a.AvFILLp
      /\ Tidy(a) /\ ~HasSlack(a, fill) => Tidy(b) /\ ~HasSlack(b, fill)
  <2>1. CASE a.slot = <<>> /\ len > length
    <3>1. DOMAIN a.slot = 0 .. a.off + a.AvMAX /\ DOMAIN a.slot = {}
      BY <2>1 DEF Shape
    <3>2. ~(0 \in 0 .. a.off + a.AvMAX)
      BY <3>1
    <3>3. a.off = 0 /\ a.AvMAX = -1
      BY <3>2 DEF Shape
    <3>4. b = NewBlock(0) /\ a.AvFILLp = -1
      BY <2>1, <3>3 DEF av_extend, Shape
    <3>5. NewBlock(0).off = 0
      BY DEF NewBlock
    <3>6. ~HasSlack(b, fill)
      BY <3>4, <3>5 DEF HasSlack
    <3> QED BY <3>4, <3>6, BlockKeeps
  <2>2. CASE ~(a.slot = <<>> /\ len > length)
    BY <2>2
  <2> QED BY <2>1, <2>2
<1> HIDE DEF b, fill
<1>6. Len(new) \in Nat
  OBVIOUS
<1>7. fill = b.AvFILLp + Len(new) - length
  BY <1>5 DEF fill
<1>8. CASE length > Len(new)
  <2>1. /\ Shape(Shrink(b, offset, length, new))
        /\ Tidy(b) => Tidy(Shrink(b, offset, length, new))
    BY <1>2, <1>3, <1>5, <1>8, ShrinkKeeps
  <2> QED BY <1>4, <1>5, <1>8, <2>1 DEF fill, length, rest
<1>9. CASE ~(length > Len(new))
  <2>0. length <= Len(new)
    BY <1>2, <1>6, <1>9
  <2>1. /\ Shape(Expand(b, offset, length, new))
        /\ Tidy(b) /\ ~HasSlack(b, fill) => Tidy(Expand(b, offset, length, new))
    BY <1>2, <1>3, <1>5, <1>7, <2>0, ExpandKeeps
  <2> QED BY <1>4, <1>5, <1>9, <2>1 DEF fill, length, rest
<1> QED BY <1>8, <1>9

-----------------------------------------------------------------------------
(* The theorems.                                                           *)

\* What the operations preserve; without Slack, spare slots are NULL too.
ArrayInv ==
  /\ Shape(av)
  /\ av.off + av.AvMAX < MaxSlots
  /\ ~Slack => Tidy(av)

LEMMA InitArray == ArrayInit => ArrayInv
<1> SUFFICES ASSUME ArrayInit PROVE ArrayInv
  OBVIOUS
<1>1. /\ av.slot = <<>> /\ av.off = 0 /\ av.AvMAX = -1 /\ av.AvFILLp = -1
      /\ DOMAIN av = {"slot", "off", "AvMAX", "AvFILLp"}
  BY DEF ArrayInit, NoBlock
<1>2. 0 .. 0 + -1 = {} /\ -1 < MaxSlots
  BY ArrayAssumption DEF ArrayAssumption
<1>3. <<>> \in [{} -> Values]
  OBVIOUS
<1> QED BY <1>1, <1>2, <1>3 DEF ArrayInv, Shape, Tidy

LEMMA BecomesKeeps ==
  ASSUME ArrayInv, NEW a, Becomes(a), Shape(a), ~Slack => Tidy(a)
  PROVE  ArrayInv'
BY DEF Becomes, ArrayInv, Shape, Tidy

LEMMA StoreStep ==
  ASSUME ArrayInv, NEW k \in Nat, NEW v \in Elem, Store(k, v)
  PROVE  ArrayInv'
<1>1. v \in Values
  BY DEF Values
<1>2. /\ Shape(av_store(av, k, v))
      /\ Tidy(av) /\ ~HasSlack(av, k) => Tidy(av_store(av, k, v))
  BY <1>1, StoreKeeps DEF ArrayInv
<1> QED BY <1>2, BecomesKeeps DEF Store, MayGrow, ArrayInv

LEMMA NextArray == ArrayInv /\ [ArrayNext]_av => ArrayInv'
<1> SUFFICES ASSUME ArrayInv, [ArrayNext]_av PROVE ArrayInv'
  OBVIOUS
<1>0. /\ Shape(av) /\ (~Slack => Tidy(av)) /\ MaxIndex \in Nat
      /\ av.AvFILLp \in Int /\ av.AvFILLp >= -1
      /\ \A new \in Lists : new \in Seq(Elem)
  BY ArrayAssumption DEF ArrayInv, Shape, ArrayAssumption
<1>1. ASSUME NEW k \in 0 .. MaxIndex, NEW v \in Elem, Store(k, v) PROVE ArrayInv'
  BY <1>0, <1>1, StoreStep
<1>2. ASSUME NEW v \in Elem, Push(v) PROVE ArrayInv'
  <2>1. av.AvFILLp + 1 \in Nat
    BY <1>0
  <2> QED BY <1>2, <2>1, StoreStep DEF Push
<1>3. ASSUME Pop PROVE ArrayInv'
  BY <1>0, <1>3, PopKeeps, BecomesKeeps DEF Pop
<1>4. ASSUME Shift PROVE ArrayInv'
  BY <1>0, <1>4, ShiftKeeps, BecomesKeeps DEF Shift
<1>5. ASSUME NEW new \in Lists, Unshift(new) PROVE ArrayInv'
  BY <1>0, <1>5, UnshiftListKeeps, BecomesKeeps DEF Unshift
<1>6. ASSUME NEW fill \in -1 .. MaxIndex, Fill(fill) PROVE ArrayInv'
  <2>1. fill \in Int /\ fill >= -1
    BY <1>0
  <2>2. /\ Shape(av_fill(av, fill))
        /\ Tidy(av) /\ ~HasSlack(av, fill) => Tidy(av_fill(av, fill))
    BY <1>0, <2>1, FillKeeps
  <2> QED BY <1>0, <1>6, <2>2, BecomesKeeps DEF Fill, MayGrow
<1>7. ASSUME NEW k \in 0 .. MaxIndex, DeleteElem(k) PROVE ArrayInv'
  BY <1>0, <1>7, DeleteKeeps, BecomesKeeps DEF DeleteElem
<1>8. ASSUME NEW offset \in 0 .. MaxIndex, NEW len \in 0 .. MaxIndex, NEW new \in Lists,
             Splice(offset, len, new)
      PROVE  ArrayInv'
  <2>1. offset \in Nat /\ len \in Nat /\ new \in Seq(Elem) /\ offset <= av.AvFILLp + 1
    BY <1>0, <1>8 DEF Splice
  <2>2. /\ Shape(pp_splice(av, offset, len, new))
        /\ /\ Tidy(av)
           /\ ~HasSlack(av, av.AvFILLp + Len(new) - Min({len, av.AvFILLp + 1 - offset}))
           => Tidy(pp_splice(av, offset, len, new))
    BY <1>0, <2>1, SpliceKeeps
  <2> QED BY <1>0, <1>8, <2>2, BecomesKeeps DEF Splice, MayGrow
<1>9. ASSUME Clear PROVE ArrayInv'
  BY <1>0, <1>9, ClearKeeps, BecomesKeeps DEF Clear
<1>10. ASSUME Undef PROVE ArrayInv'
  <2>1. Becomes(NoBlock) /\ av' = NoBlock
    BY <1>10 DEF Undef, Becomes
  <2>2. ArrayInit'
    BY <2>1 DEF ArrayInit
  <2>3. ArrayInit' => ArrayInv'
    BY InitArray, PTL
  <2> QED BY <2>2, <2>3
<1>11. CASE UNCHANGED av
  BY <1>11 DEF ArrayInv, Shape, Tidy
<1> QED
  BY <1>1, <1>2, <1>3, <1>4, <1>5, <1>6, <1>7, <1>8, <1>9, <1>10, <1>11 DEF ArrayNext

\* An array is always a window on its block: the elements, the spare slots
\* after them and the slots before the first one make up the block.
THEOREM ArrayTypes == ArraySpec => []ArrayTypeOK
<1>1. ArrayInv => ArrayTypeOK
  BY ArrayAssumption DEF ArrayInv, Shape, Values, ArrayTypeOK, ArrayAssumption
<1> QED BY <1>1, InitArray, NextArray, PTL DEF ArraySpec

\* As long as no array with spare slots at both ends is made larger, whatever
\* the operations move, a slot that holds no element is NULL.
THEOREM SpareSlotsHoldNothing == ~Slack => (ArraySpec => []SpareSlotsAreNull)
<1> SUFFICES ASSUME ~Slack PROVE ArraySpec => []SpareSlotsAreNull
  OBVIOUS
<1>1. ArrayInv => SpareSlotsAreNull
  BY DEF ArrayInv, Shape, Tidy, SpareSlotsAreNull
<1> QED BY <1>1, InitArray, NextArray, PTL DEF ArraySpec

-----------------------------------------------------------------------------
(* Arrays as lists: what the elements are after each operation.            *)

\* The list that a stands for.
ListOf(a) == [i \in 1 .. a.AvFILLp + 1 |-> At(a, i - 1)]

LEMMA Window ==
  ASSUME NEW a, Shape(a)
  PROVE  /\ a.off \in Nat /\ a.AvMAX \in Int /\ a.AvFILLp \in Int
         /\ -1 <= a.AvFILLp /\ a.AvFILLp <= a.AvMAX
         /\ DOMAIN a.slot = 0 .. a.off + a.AvMAX
         /\ \A i \in 0 .. a.AvMAX : a.off + i \in DOMAIN a.slot /\ At(a, i) \in Values
         /\ \A i \in 0 .. a.AvMAX : At(a, i) = a.slot[a.off + i]
<1>1. /\ a.off \in Nat /\ a.AvMAX \in Int /\ a.AvFILLp \in Int
      /\ -1 <= a.AvFILLp /\ a.AvFILLp <= a.AvMAX
      /\ DOMAIN a.slot = 0 .. a.off + a.AvMAX
      /\ \A j \in DOMAIN a.slot : a.slot[j] \in Values
  BY DEF Shape
<1>2. \A i \in 0 .. a.AvMAX : a.off + i \in DOMAIN a.slot
  BY <1>1
<1> QED BY <1>1, <1>2 DEF At

LEMMA SlotOf ==
  ASSUME NEW a, Shape(a), NEW i \in 0 .. a.AvMAX
  PROVE  \E m \in DOMAIN a.slot : m = a.off + i /\ m - a.off = i /\ At(a, i) = a.slot[m]
<1>1. PICK m \in DOMAIN a.slot : m = a.off + i
  BY Window
<1>2. m - a.off = i
  BY <1>1, Window
<1>3. At(a, i) = a.slot[m]
  BY <1>1 DEF At
<1> QED BY <1>1, <1>2, <1>3

LEMMA ListIs ==
  ASSUME NEW a, Shape(a)
  PROVE  /\ ListOf(a) \in Seq(Values) /\ Len(ListOf(a)) = a.AvFILLp + 1
         /\ \A i \in 1 .. a.AvFILLp + 1 : ListOf(a)[i] = At(a, i - 1)
<1> DEFINE n == a.AvFILLp + 1
           s == ListOf(a)
<1>1. n \in Nat /\ \A i \in 1 .. n : At(a, i - 1) \in Values
  <2>1. n \in Nat
    BY Window
  <2>2. \A i \in 1 .. n : i - 1 \in 0 .. a.AvMAX
    BY Window
  <2> QED BY <2>1, <2>2, Window
<1>2. s = [i \in 1 .. n |-> At(a, i - 1)]
  BY DEF ListOf
<1>3. \A i \in 1 .. n : s[i] = At(a, i - 1)
  BY <1>2
<1> HIDE DEF n
<1>4. s \in [1 .. n -> Values]
  BY <1>1, <1>2
<1> HIDE DEF s
<1>5. s \in Seq(Values) /\ Len(s) = n
  BY <1>1, <1>4
<1> QED BY <1>3, <1>5 DEF s, n

LEMMA SameList ==
  ASSUME NEW r, Shape(r), NEW s \in Seq(Values), Len(s) = r.AvFILLp + 1,
         \A i \in 1 .. r.AvFILLp + 1 : At(r, i - 1) = s[i]
  PROVE  ListOf(r) = s
<1>1. /\ ListOf(r) \in Seq(Values) /\ Len(ListOf(r)) = r.AvFILLp + 1
      /\ \A i \in 1 .. r.AvFILLp + 1 : ListOf(r)[i] = At(r, i - 1)
  BY ListIs
<1>2. Len(ListOf(r)) = Len(s) /\ \A i \in 1 .. Len(ListOf(r)) : ListOf(r)[i] = s[i]
  BY <1>1
<1> QED BY <1>1, <1>2, SeqEqual

\* Making room leaves the elements alone.
LEMMA ExtendAt ==
  ASSUME NEW a, Shape(a), NEW key \in Int, NEW i \in 0 .. a.AvFILLp
  PROVE  At(av_extend(a, key), i) = At(a, i)
<1>0. /\ a.off \in Nat /\ a.AvMAX \in Int /\ a.AvFILLp \in Int
      /\ -1 <= a.AvFILLp /\ a.AvFILLp <= a.AvMAX
      /\ i \in Nat /\ i <= a.AvFILLp
  BY Window
<1>1. CASE key <= a.AvMAX
  BY <1>0, <1>1 DEF av_extend
<1>2. CASE key > a.AvMAX /\ a.off > 0
  <2>1. av_extend(a, key) = AfterMove(a, key)
    BY <1>2 DEF av_extend, Shape
  <2> DEFINE max == a.AvMAX + a.off
             newmax == IF key > max - Near THEN key + max ELSE max
             s == [j \in 0 .. newmax |->
                   CASE j <= a.AvFILLp -> At(a, j)
                     [] j > a.AvFILLp /\ j <= a.AvFILLp + (newmax - a.AvMAX) -> NoElem
                     [] OTHER -> IF j <= max THEN a.slot[j] ELSE JUNK]
             r == AfterMove(a, key)
  <2>2. r = [slot |-> s, off |-> 0, AvMAX |-> newmax, AvFILLp |-> a.AvFILLp]
    BY DEF AfterMove
  <2>3. newmax \in Nat /\ i \in 0 .. newmax
    <3>1. Near \in Nat
      BY ArrayAssumption DEF ArrayAssumption
    <3>2. max \in Nat /\ key \in Nat /\ i <= max
      BY <1>0, <1>2
    <3> HIDE DEF max
    <3> QED BY <1>0, <3>1, <3>2
  <2> HIDE DEF newmax, max
  <2>4. s[i] = At(a, i)
    BY <1>0, <2>3
  <2> HIDE DEF s, r
  <2>5. At(r, i) = s[i]
    BY <2>2, <1>0 DEF At
  <2> QED BY <2>1, <2>4, <2>5 DEF r
<1>3. CASE ~(key <= a.AvMAX) /\ a.off = 0
  <2>1. a.slot # <<>>
    <3>1. DOMAIN a.slot = 0 .. a.AvMAX /\ 0 \in 0 .. a.AvMAX
      BY <1>0, <1>3, Window
    <3>2. DOMAIN <<>> = {}
      OBVIOUS
    <3> QED BY <3>1, <3>2
  <2> DEFINE newmax == key + a.AvMAX \div 5
             s == [j \in 0 .. newmax |-> IF j <= a.AvMAX THEN a.slot[j] ELSE NoElem]
             r == AfterGrow(a, key)
  <2>2. av_extend(a, key) = r
    BY <1>0, <1>3, <2>1 DEF av_extend
  <2>3. newmax \in Nat /\ i \in 0 .. newmax
    BY <1>0, <1>3
  <2>4. r.slot = s /\ r.off = 0
    BY <1>3 DEF AfterGrow, Shape
  <2> HIDE DEF r, newmax
  <2>5. s[i] = a.slot[i]
    BY <1>0, <2>3
  <2> HIDE DEF s
  <2>6. At(r, i) = s[0 + i] /\ At(a, i) = a.slot[0 + i]
    BY <1>3, <2>4 DEF At
  <2> QED BY <1>0, <2>2, <2>5, <2>6
<1> QED BY <1>0, <1>1, <1>2, <1>3

LEMMA PutOneAt ==
  ASSUME NEW a, Shape(a), NEW k \in Nat, k <= a.AvFILLp, NEW v
  PROVE  /\ PutOne(a, k, v).AvFILLp = a.AvFILLp
         /\ \A i \in 0 .. a.AvFILLp : At(PutOne(a, k, v), i) = IF i = k THEN v ELSE At(a, i)
<1> DEFINE S == {k}
           s == [j \in DOMAIN a.slot |-> IF j - a.off \in S THEN v ELSE a.slot[j]]
           r == PutOne(a, k, v)
<1>1. r = [a EXCEPT !.slot = s]
  BY DEF PutOne, Put
<1>2. r.slot = s /\ r.off = a.off /\ r.AvFILLp = a.AvFILLp
  <2> HIDE DEF s, r
  <2> QED BY <1>1 DEF Shape
<1> HIDE DEF r
<1>3. ASSUME NEW i \in 0 .. a.AvFILLp
      PROVE  At(r, i) = IF i = k THEN v ELSE At(a, i)
  <2>1. PICK m \in DOMAIN a.slot : m = a.off + i /\ m - a.off = i /\ At(a, i) = a.slot[m]
    BY SlotOf, Window
  <2>2. s[m] = IF m - a.off \in S THEN v ELSE a.slot[m]
    OBVIOUS
  <2>3. At(r, i) = s[m]
    BY <1>2, <2>1 DEF At
  <2> HIDE DEF s
  <2> QED BY <2>1, <2>2, <2>3
<1> QED BY <1>2, <1>3 DEF r

LEMMA NullAt ==
  ASSUME NEW a, Shape(a), NEW S, NEW i \in 0 .. a.AvMAX
  PROVE  At(PutNull(a, S), i) = IF i \in S THEN NoElem ELSE At(a, i)
<1>1. PICK m \in DOMAIN a.slot : m = a.off + i /\ m - a.off = i /\ At(a, i) = a.slot[m]
  BY SlotOf
<1>2. PutNull(a, S).off = a.off
  BY PutNullKeeps
<1>3. \A j \in 0 .. a.off + a.AvMAX :
        PutNull(a, S).slot[j] = IF j - a.off \in S THEN NoElem ELSE a.slot[j]
  BY PutNullKeeps
<1>4. PutNull(a, S).slot[m] = IF m - a.off \in S THEN NoElem ELSE a.slot[m]
  <2>1. DOMAIN a.slot = 0 .. a.off + a.AvMAX
    BY Window
  <2>2. m \in 0 .. a.off + a.AvMAX
    BY <2>1
  <2> QED BY <1>3, <2>2
<1>5. At(PutNull(a, S), i) = PutNull(a, S).slot[m]
  BY <1>1, <1>2 DEF At
<1> QED BY <1>1, <1>4, <1>5

-----------------------------------------------------------------------------
\* An element that was not there is NULL.
LEMMA StoreAt ==
  ASSUME NEW a, Shape(a), Tidy(a), NEW key \in Nat, ~HasSlack(a, key), NEW v \in Values,
         NEW r, r = av_store(a, key, v)
  PROVE  /\ r.AvFILLp = IF key <= a.AvFILLp THEN a.AvFILLp ELSE key
         /\ \A i \in 0 .. r.AvFILLp :
              At(r, i) = IF i = key THEN v ELSE IF i <= a.AvFILLp THEN At(a, i) ELSE NoElem
<1>0. /\ a.off \in Nat /\ a.AvMAX \in Int /\ a.AvFILLp \in Int
      /\ -1 <= a.AvFILLp /\ a.AvFILLp <= a.AvMAX
  BY Window
<1>1. CASE key <= a.AvFILLp
  <2>1. r = PutOne(a, key, v)
    BY <1>1 DEF av_store
  <2> QED BY <1>0, <1>1, <2>1, PutOneAt
<1>2. CASE ~(key <= a.AvFILLp)
  <2> DEFINE b == av_extend(a, key)
             c == [b EXCEPT !.AvFILLp = key]
  <2>1. /\ Shape(b) /\ b.AvMAX >= key /\ b.AvFILLp = a.AvFILLp /\ Tidy(b)
    BY ExtendKeeps
  <2>2. \A i \in 0 .. a.AvFILLp : At(b, i) = At(a, i)
    BY ExtendAt
  <2> HIDE DEF b
  <2>3. /\ DOMAIN c = Fields /\ c.slot = b.slot /\ c.off = b.off /\ c.AvMAX = b.AvMAX
        /\ c.AvFILLp = key
    BY <2>1 DEF Shape, Fields
  <2>4. r = PutOne(c, key, v)
    BY <1>2 DEF av_store, b
  <2> HIDE DEF c
  <2>5. Shape(c)
    BY <2>1, <2>3 DEF Shape, Fields
  <2>6. ASSUME NEW i \in 0 .. key
        PROVE  At(c, i) = IF i <= a.AvFILLp THEN At(a, i) ELSE NoElem
    <3>1. At(c, i) = At(b, i)
      BY <2>3 DEF At
    <3>2. CASE i <= a.AvFILLp
      BY <1>0, <2>2, <3>1, <3>2
    <3>3. CASE ~(i <= a.AvFILLp)
      <4>1. i \in 0 .. b.AvMAX /\ b.off \in Nat /\ b.AvMAX \in Int
        BY <2>1, Window
      <4>2. b.off + i \in 0 .. b.off + b.AvMAX /\ b.off + i > b.off + b.AvFILLp
        BY <1>0, <2>1, <3>3, <4>1
      <4> QED BY <2>1, <3>1, <3>3, <4>2 DEF Tidy, At
    <3> QED BY <3>2, <3>3
  <2>7. /\ PutOne(c, key, v).AvFILLp = c.AvFILLp
        /\ \A i \in 0 .. c.AvFILLp : At(PutOne(c, key, v), i) = IF i = key THEN v ELSE At(c, i)
    BY <2>3, <2>5, PutOneAt
  <2> QED BY <1>2, <2>3, <2>4, <2>6, <2>7
<1> QED BY <1>1, <1>2

\* What Store() of a list makes of s, and what is known of it.
Stored(s, k, v) ==
  IF k < Len(s) THEN [s EXCEPT ![k + 1] = v] ELSE s \o Abstract!Nulls(k - Len(s)) \o <<v>>

LEMMA Joined ==
  ASSUME NEW s \in Seq(Values), NEW t \in Seq(Values), NEW r, r = s \o t
  PROVE  /\ r \in Seq(Values) /\ Len(r) = Len(s) + Len(t)
         /\ \A i \in 1 .. Len(s) + Len(t) : r[i] = IF i <= Len(s) THEN s[i] ELSE t[i - Len(s)]
BY ConcatProperties

LEMMA NullsAre ==
  ASSUME NEW n \in Nat
  PROVE  /\ Abstract!Nulls(n) \in Seq(Values) /\ Len(Abstract!Nulls(n)) = n
         /\ \A i \in 1 .. n : Abstract!Nulls(n)[i] = NoElem
<1> DEFINE s == [i \in 1 .. n |-> NoElem]
<1>1. Abstract!Nulls(n) = s
  BY DEF Abstract!Nulls
<1>2. s \in [1 .. n -> Values] /\ \A i \in 1 .. n : s[i] = NoElem
  BY DEF Values
<1> HIDE DEF s
<1>3. s \in Seq(Values) /\ Len(s) = n
  BY <1>2
<1> QED BY <1>1, <1>2, <1>3

IsStored(r, s, k, v) ==
  /\ r \in Seq(Values)
  /\ Len(r) = IF k < Len(s) THEN Len(s) ELSE k + 1
  /\ \A i \in 1 .. Len(r) :
       r[i] = IF i = k + 1 THEN v ELSE IF i <= Len(s) THEN s[i] ELSE NoElem

LEMMA StoredIs ==
  ASSUME NEW s \in Seq(Values), NEW k \in Nat, NEW v \in Values, NEW r, r = Stored(s, k, v)
  PROVE  IsStored(r, s, k, v)
<1>0. Len(s) \in Nat
  OBVIOUS
<1>1. CASE k < Len(s)
  <2>1. k + 1 \in 1 .. Len(s)
    BY <1>0, <1>1
  <2>2. /\ [s EXCEPT ![k + 1] = v] \in Seq(Values) /\ Len([s EXCEPT ![k + 1] = v]) = Len(s)
        /\ \A j \in 1 .. Len(s) : [s EXCEPT ![k + 1] = v][j] = IF j = k + 1 THEN v ELSE s[j]
    BY <2>1, ExceptSeq
  <2> QED BY <1>0, <1>1, <2>2 DEF Stored, IsStored
<1>2. CASE ~(k < Len(s))
  <2> DEFINE n == k - Len(s)
             t == Abstract!Nulls(n)
             u == s \o t
             w == <<v>>
  <2>1. n \in Nat
    BY <1>0, <1>2
  <2>2. t \in Seq(Values) /\ Len(t) = n /\ \A i \in 1 .. n : t[i] = NoElem
    <3> HIDE DEF n
    <3> QED BY <2>1, NullsAre
  <2>3. r = u \o w
    BY <1>2 DEF Stored
  <2> HIDE DEF t
  <2>4. /\ u \in Seq(Values) /\ Len(u) = Len(s) + Len(t)
        /\ \A i \in 1 .. Len(s) + Len(t) : u[i] = IF i <= Len(s) THEN s[i] ELSE t[i - Len(s)]
    BY <2>2, Joined
  <2>5. w \in Seq(Values) /\ Len(w) = 1 /\ w[1] = v
    OBVIOUS
  <2> HIDE DEF w, u
  <2>6. /\ r \in Seq(Values) /\ Len(r) = Len(u) + Len(w)
        /\ \A i \in 1 .. Len(u) + Len(w) : r[i] = IF i <= Len(u) THEN u[i] ELSE w[i - Len(u)]
    <3>1. u \in Seq(Values) /\ w \in Seq(Values)
      BY <2>4, <2>5
    <3> QED BY <2>3, <3>1, Joined
  <2>7. Len(u) = k /\ Len(r) = k + 1
    BY <1>0, <1>2, <2>2, <2>4, <2>5, <2>6
  <2>8. ASSUME NEW i \in 1 .. k + 1
        PROVE  r[i] = IF i = k + 1 THEN v ELSE IF i <= Len(s) THEN s[i] ELSE NoElem
    <3>1. CASE i = k + 1
      BY <2>5, <2>6, <2>7, <3>1
    <3>2. CASE i # k + 1
      <4>1. i \in 1 .. k /\ r[i] = u[i]
        BY <2>5, <2>6, <2>7, <3>2
      <4>2. u[i] = IF i <= Len(s) THEN s[i] ELSE t[i - Len(s)]
        BY <2>4, <2>7, <4>1
      <4>3. ~(i <= Len(s)) => i - Len(s) \in 1 .. n
        BY <1>0, <4>1
      <4> QED BY <2>2, <3>2, <4>1, <4>2, <4>3
    <3> QED BY <3>1, <3>2
  <2> QED BY <1>2, <2>6, <2>7, <2>8 DEF IsStored
<1> QED BY <1>1, <1>2

LEMMA StoreLists ==
  ASSUME NEW a, Shape(a), Tidy(a), NEW key \in Nat, ~HasSlack(a, key), NEW v \in Values
  PROVE  ListOf(av_store(a, key, v)) = Stored(ListOf(a), key, v)
<1> DEFINE r == av_store(a, key, v)
           L == ListOf(a)
<1>1. /\ r.AvFILLp = IF key <= a.AvFILLp THEN a.AvFILLp ELSE key
      /\ \A i \in 0 .. r.AvFILLp :
           At(r, i) = IF i = key THEN v ELSE IF i <= a.AvFILLp THEN At(a, i) ELSE NoElem
  BY StoreAt
<1>2. Shape(r)
  BY StoreKeeps
<1>3. /\ L \in Seq(Values) /\ Len(L) = a.AvFILLp + 1
      /\ \A i \in 1 .. a.AvFILLp + 1 : L[i] = At(a, i - 1)
  BY ListIs
<1> HIDE DEF r, L
<1>s. PICK s : s = Stored(L, key, v)
  OBVIOUS
<1>4. /\ s \in Seq(Values) /\ Len(s) = IF key < Len(L) THEN Len(L) ELSE key + 1
      /\ \A i \in 1 .. Len(s) :
           s[i] = IF i = key + 1 THEN v ELSE IF i <= Len(L) THEN L[i] ELSE NoElem
  <2>1. IsStored(s, L, key, v)
    BY <1>3, <1>s, StoredIs
  <2> QED BY <2>1 DEF IsStored
<1>5. a.AvFILLp \in Int /\ Len(s) = r.AvFILLp + 1
  BY <1>1, <1>3, <1>4, Window
<1>6. ASSUME NEW i \in 1 .. r.AvFILLp + 1 PROVE At(r, i - 1) = s[i]
  <2>1. i - 1 \in 0 .. r.AvFILLp /\ r.AvFILLp \in Int
    BY <1>2, <1>5, Window
  <2>2. At(r, i - 1) = IF i - 1 = key THEN v ELSE IF i - 1 <= a.AvFILLp THEN At(a, i - 1) ELSE NoElem
    BY <1>1, <2>1
  <2>3. s[i] = IF i = key + 1 THEN v ELSE IF i <= Len(L) THEN L[i] ELSE NoElem
    BY <1>4, <1>5
  <2> QED BY <1>3, <1>5, <2>1, <2>2, <2>3
<1>7. ListOf(r) = s
  BY <1>2, <1>4, <1>5, <1>6, SameList
<1> QED BY <1>s, <1>7 DEF r, L

-----------------------------------------------------------------------------
LEMMA FirstOnes ==
  ASSUME NEW s \in Seq(Values), NEW n \in 0 .. Len(s), NEW r, r = SubSeq(s, 1, n)
  PROVE  r \in Seq(Values) /\ Len(r) = n /\ \A i \in 1 .. n : r[i] = s[i]
<1>1. n \in Nat /\ \A i \in 1 .. n : s[i] \in Values
  OBVIOUS
<1>2. /\ SubSeq(s, 1, n) \in Seq(Values) /\ Len(SubSeq(s, 1, n)) = IF 1 <= n THEN n - 1 + 1 ELSE 0
      /\ \A i \in 1 .. n - 1 + 1 : SubSeq(s, 1, n)[i] = s[1 + i - 1]
  BY <1>1, SubSeqProperties
<1> QED BY <1>1, <1>2

LEMMA LastOnes ==
  ASSUME NEW s \in Seq(Values), NEW n \in 0 .. Len(s), NEW r, r = SubSeq(s, n + 1, Len(s))
  PROVE  /\ r \in Seq(Values) /\ Len(r) = Len(s) - n
         /\ \A i \in 1 .. Len(s) - n : r[i] = s[n + i]
<1> DEFINE m == n + 1
           l == Len(s)
<1>1. n \in Nat /\ m \in Int /\ l \in Int /\ l >= n /\ \A i \in m .. l : s[i] \in Values
  OBVIOUS
<1>2. r = SubSeq(s, m, l)
  OBVIOUS
<1>m. m = n + 1 /\ l = Len(s)
  OBVIOUS
<1> HIDE DEF m, l
<1>3. /\ r \in Seq(Values) /\ Len(r) = IF m <= l THEN l - m + 1 ELSE 0
      /\ \A i \in 1 .. l - m + 1 : r[i] = s[m + i - 1]
  <2>1. /\ SubSeq(s, m, l) \in Seq(Values)
        /\ Len(SubSeq(s, m, l)) = IF m <= l THEN l - m + 1 ELSE 0
        /\ \A i \in 1 .. l - m + 1 : SubSeq(s, m, l)[i] = s[m + i - 1]
    BY <1>1, SubSeqProperties
  <2> QED BY <1>2, <2>1
<1>4. Len(r) = Len(s) - n
  <2>1. l - m + 1 = Len(s) - n /\ (~(m <= l) => Len(s) - n = 0)
    BY <1>1, <1>m
  <2> QED BY <1>3, <2>1
<1>5. ASSUME NEW i \in 1 .. Len(s) - n PROVE r[i] = s[n + i]
  <2>1. i \in 1 .. l - m + 1 /\ m + i - 1 = n + i
    BY <1>1, <1>m
  <2>2. r[i] = s[m + i - 1]
    BY <1>3, <2>1
  <2> QED BY <2>1, <2>2
<1> QED BY <1>3, <1>4, <1>5

LEMMA EmptyList ==
  ASSUME NEW s \in Seq(Values), Len(s) = 0
  PROVE  s = <<>>
OBVIOUS

-----------------------------------------------------------------------------
\* What SetLength() makes of s.
WithLength(s, n) == IF n < Len(s) THEN SubSeq(s, 1, n) ELSE s \o Abstract!Nulls(n - Len(s))

HasLength(r, s, n) ==
  /\ r \in Seq(Values) /\ Len(r) = n
  /\ \A i \in 1 .. n : r[i] = IF i <= Len(s) THEN s[i] ELSE NoElem

LEMMA LengthIs ==
  ASSUME NEW s \in Seq(Values), NEW n \in Nat, NEW r, r = WithLength(s, n)
  PROVE  HasLength(r, s, n)
<1>0. Len(s) \in Nat
  OBVIOUS
<1>1. CASE n < Len(s)
  <2>1. n \in 0 .. Len(s) /\ r = SubSeq(s, 1, n)
    BY <1>0, <1>1 DEF WithLength
  <2>2. r \in Seq(Values) /\ Len(r) = n /\ \A i \in 1 .. n : r[i] = s[i]
    BY <2>1, FirstOnes
  <2> QED BY <1>0, <1>1, <2>2 DEF HasLength
<1>2. CASE ~(n < Len(s))
  <2>1. PICK m \in Nat : m = n - Len(s)
    BY <1>0, <1>2
  <2>2. PICK t : t = Abstract!Nulls(m)
    OBVIOUS
  <2>3. t \in Seq(Values) /\ Len(t) = m /\ \A i \in 1 .. m : t[i] = NoElem
    BY <2>2, NullsAre
  <2>4. r = s \o t
    BY <1>2, <2>1, <2>2 DEF WithLength
  <2>5. /\ r \in Seq(Values) /\ Len(r) = Len(s) + Len(t)
        /\ \A i \in 1 .. Len(s) + Len(t) : r[i] = IF i <= Len(s) THEN s[i] ELSE t[i - Len(s)]
    BY <2>3, <2>4, Joined
  <2>6. Len(s) + Len(t) = n
    BY <1>0, <2>1, <2>3
  <2>7. ASSUME NEW i \in 1 .. n, ~(i <= Len(s)) PROVE t[i - Len(s)] = NoElem
    <3>1. i - Len(s) \in 1 .. m
      BY <1>0, <2>1, <2>7
    <3> QED BY <2>3, <3>1
  <2> QED BY <2>5, <2>6, <2>7 DEF HasLength
<1> QED BY <1>1, <1>2

\* A list with the elements of a and NULL after them.
LEMMA LengthLists ==
  ASSUME NEW a, Shape(a), NEW r, Shape(r),
         \A i \in 0 .. r.AvFILLp : At(r, i) = IF i <= a.AvFILLp THEN At(a, i) ELSE NoElem
  PROVE  ListOf(r) = WithLength(ListOf(a), r.AvFILLp + 1)
<1>1. PICK L : L = ListOf(a)
  OBVIOUS
<1>2. PICK n \in Nat : n = r.AvFILLp + 1
  BY Window
<1>3. PICK s : s = WithLength(L, n)
  OBVIOUS
<1>4. /\ L \in Seq(Values) /\ Len(L) = a.AvFILLp + 1
      /\ \A i \in 1 .. a.AvFILLp + 1 : L[i] = At(a, i - 1)
  BY <1>1, ListIs
<1>5. HasLength(s, L, n)
  BY <1>3, <1>4, LengthIs
<1>6. s \in Seq(Values) /\ Len(s) = r.AvFILLp + 1
  BY <1>2, <1>5 DEF HasLength
<1>7. ASSUME NEW i \in 1 .. r.AvFILLp + 1 PROVE At(r, i - 1) = s[i]
  <2>1. a.AvFILLp \in Int /\ i \in Int /\ i - 1 \in 0 .. r.AvFILLp /\ i \in 1 .. n
    BY <1>2, Window
  <2>2. s[i] = IF i <= Len(L) THEN L[i] ELSE NoElem
    BY <1>5, <2>1 DEF HasLength
  <2>3. At(r, i - 1) = IF i - 1 <= a.AvFILLp THEN At(a, i - 1) ELSE NoElem
    BY <2>1
  <2> QED BY <1>4, <2>1, <2>2, <2>3
<1>8. ListOf(r) = s
  BY <1>6, <1>7, SameList
<1> QED BY <1>1, <1>2, <1>3, <1>8

LEMMA FillLists ==
  ASSUME NEW a, Shape(a), Tidy(a), NEW fill \in Int, fill >= -1, ~HasSlack(a, fill),
         NEW r, r = av_fill(a, fill)
  PROVE  r.AvFILLp = fill /\ ListOf(r) = WithLength(ListOf(a), fill + 1)
<1>0. /\ a.off \in Nat /\ a.AvMAX \in Int /\ a.AvFILLp \in Int
      /\ -1 <= a.AvFILLp /\ a.AvFILLp <= a.AvMAX
  BY Window
<1>1. Shape(r)
  BY FillKeeps
<1>2. CASE fill <= a.AvMAX
  <2>1. PICK S : S = fill + 1 .. a.AvFILLp
    OBVIOUS
  <2>2. PICK b : b = PutNull(a, S)
    OBVIOUS
  <2>3. r = [b EXCEPT !.AvFILLp = fill]
    BY <1>2, <2>1, <2>2 DEF av_fill
  <2>4. Shape(b) /\ b.off = a.off
    BY <2>2, PutNullKeeps
  <2>5. r.slot = b.slot /\ r.off = b.off /\ r.AvFILLp = fill
    BY <2>3, <2>4 DEF Shape
  <2>6. ASSUME NEW i \in 0 .. r.AvFILLp
        PROVE  At(r, i) = IF i <= a.AvFILLp THEN At(a, i) ELSE NoElem
    <3>1. i \in 0 .. a.AvMAX /\ i \notin S /\ i \in Int
      BY <1>0, <1>2, <2>1, <2>5
    <3>2. At(b, i) = At(a, i)
      BY <2>2, <3>1, NullAt
    <3>3. At(r, i) = At(b, i)
      BY <2>5 DEF At
    <3>4. CASE i <= a.AvFILLp
      BY <3>2, <3>3, <3>4
    <3>5. CASE ~(i <= a.AvFILLp)
      <4>1. PICK m \in DOMAIN a.slot : m = a.off + i /\ At(a, i) = a.slot[m]
        BY <3>1, SlotOf
      <4>2. m \in 0 .. a.off + a.AvMAX /\ m > a.off + a.AvFILLp
        BY <1>0, <3>1, <3>5, <4>1, Window
      <4> QED BY <3>2, <3>3, <3>5, <4>1, <4>2 DEF Tidy
    <3> QED BY <3>4, <3>5
  <2>7. ListOf(r) = WithLength(ListOf(a), r.AvFILLp + 1)
    BY <1>1, <2>6, LengthLists
  <2> QED BY <2>5, <2>7
<1>3. CASE ~(fill <= a.AvMAX)
  <2>1. fill \in Nat /\ NoElem \in Values /\ fill > a.AvFILLp
    BY <1>0, <1>3 DEF Values
  <2>2. r = av_store(a, fill, NoElem)
    BY <1>3 DEF av_fill
  <2>3. /\ r.AvFILLp = IF fill <= a.AvFILLp THEN a.AvFILLp ELSE fill
        /\ \A i \in 0 .. r.AvFILLp :
              At(r, i) = IF i = fill THEN NoElem ELSE IF i <= a.AvFILLp THEN At(a, i) ELSE NoElem
    BY <2>1, <2>2, StoreAt
  <2>4. r.AvFILLp = fill
    BY <1>0, <2>1, <2>3
  <2>5. \A i \in 0 .. r.AvFILLp : At(r, i) = IF i <= a.AvFILLp THEN At(a, i) ELSE NoElem
    BY <1>0, <2>1, <2>3, <2>4
  <2>6. ListOf(r) = WithLength(ListOf(a), r.AvFILLp + 1)
    BY <1>1, <2>5, LengthLists
  <2> QED BY <2>4, <2>6
<1> QED BY <1>2, <1>3

\* The first elements of a.
LEMMA FirstLists ==
  ASSUME NEW a, Shape(a), NEW r, Shape(r), r.AvFILLp <= a.AvFILLp,
         \A i \in 0 .. r.AvFILLp : At(r, i) = At(a, i)
  PROVE  ListOf(r) = SubSeq(ListOf(a), 1, r.AvFILLp + 1)
<1>1. PICK L : L = ListOf(a)
  OBVIOUS
<1>2. PICK n \in Nat : n = r.AvFILLp + 1
  BY Window
<1>3. PICK s : s = SubSeq(L, 1, n)
  OBVIOUS
<1>4. /\ L \in Seq(Values) /\ Len(L) = a.AvFILLp + 1
      /\ \A i \in 1 .. a.AvFILLp + 1 : L[i] = At(a, i - 1)
  BY <1>1, ListIs
<1>5. n \in 0 .. Len(L) /\ r.AvFILLp \in Int /\ a.AvFILLp \in Int
  BY <1>2, <1>4, Window
<1>6. s \in Seq(Values) /\ Len(s) = n /\ \A i \in 1 .. n : s[i] = L[i]
  BY <1>3, <1>4, <1>5, FirstOnes
<1>7. ASSUME NEW i \in 1 .. r.AvFILLp + 1 PROVE At(r, i - 1) = s[i]
  <2>1. i \in Int /\ i - 1 \in 0 .. r.AvFILLp /\ i \in 1 .. n /\ i \in 1 .. a.AvFILLp + 1
    BY <1>2, <1>5
  <2>2. s[i] = L[i] /\ L[i] = At(a, i - 1)
    BY <1>4, <1>6, <2>1
  <2> QED BY <2>1, <2>2
<1>8. ListOf(r) = s
  BY <1>2, <1>6, <1>7, SameList
<1> QED BY <1>1, <1>2, <1>3, <1>8

LEMMA PopLists ==
  ASSUME NEW a, Shape(a), a.AvFILLp >= 0, NEW r, r = av_pop(a)
  PROVE  ListOf(r) = SubSeq(ListOf(a), 1, Len(ListOf(a)) - 1)
<1>0. /\ a.off \in Nat /\ a.AvMAX \in Int /\ a.AvFILLp \in Int
      /\ -1 <= a.AvFILLp /\ a.AvFILLp <= a.AvMAX
  BY Window
<1>1. PICK b : b = PutNull(a, {a.AvFILLp})
  OBVIOUS
<1>2. r = [b EXCEPT !.AvFILLp = @ - 1]
  BY <1>1 DEF av_pop
<1>3. Shape(b) /\ b.off = a.off /\ b.AvFILLp = a.AvFILLp
  BY <1>1, PutNullKeeps
<1>4. r.slot = b.slot /\ r.off = b.off /\ r.AvFILLp = a.AvFILLp - 1
  BY <1>2, <1>3 DEF Shape
<1>5. Shape(r)
  BY PopKeeps
<1>6. ASSUME NEW i \in 0 .. r.AvFILLp PROVE At(r, i) = At(a, i)
  <2>1. i \in 0 .. a.AvMAX /\ i \notin {a.AvFILLp}
    BY <1>0, <1>4
  <2>2. At(b, i) = At(a, i)
    BY <1>1, <2>1, NullAt
  <2> QED BY <1>4, <2>2 DEF At
<1>7. r.AvFILLp <= a.AvFILLp /\ r.AvFILLp + 1 = Len(ListOf(a)) - 1
  BY <1>0, <1>4, ListIs
<1>8. ListOf(r) = SubSeq(ListOf(a), 1, r.AvFILLp + 1)
  BY <1>5, <1>6, <1>7, FirstLists
<1> QED BY <1>7, <1>8

LEMMA ShiftLists ==
  ASSUME NEW a, Shape(a), a.AvFILLp >= 0, NEW r, r = av_shift(a)
  PROVE  ListOf(r) = SubSeq(ListOf(a), 1 + 1, Len(ListOf(a)))
<1>0. /\ a.off \in Nat /\ a.AvMAX \in Int /\ a.AvFILLp \in Int
      /\ -1 <= a.AvFILLp /\ a.AvFILLp <= a.AvMAX
  BY Window
<1>1. PICK b : b = PutNull(a, {0})
  OBVIOUS
<1>2. r = [b EXCEPT !.off = @ + 1, !.AvMAX = @ - 1, !.AvFILLp = @ - 1]
  BY <1>1 DEF av_shift
<1>3. Shape(b) /\ b.off = a.off /\ b.AvFILLp = a.AvFILLp
  BY <1>1, PutNullKeeps
<1>4. r.slot = b.slot /\ r.off = b.off + 1 /\ r.AvFILLp = a.AvFILLp - 1
  BY <1>2, <1>3 DEF Shape
<1>5. Shape(r)
  BY ShiftKeeps
<1>6. ASSUME NEW i \in 0 .. r.AvFILLp PROVE At(r, i) = At(a, i + 1)
  <2>1. PICK k \in 0 .. a.AvMAX : k = i + 1 /\ k \notin {0}
    BY <1>0, <1>4
  <2>2. At(b, k) = At(a, k)
    BY <1>1, <2>1, NullAt
  <2>3. a.off + 1 + i = a.off + (i + 1)
    BY <1>0
  <2> QED BY <1>3, <1>4, <2>1, <2>2, <2>3 DEF At
<1>7. PICK L : L = ListOf(a)
  OBVIOUS
<1>8. /\ L \in Seq(Values) /\ Len(L) = a.AvFILLp + 1
      /\ \A i \in 1 .. a.AvFILLp + 1 : L[i] = At(a, i - 1)
  BY <1>7, ListIs
<1>9. PICK s : s = SubSeq(L, 1 + 1, Len(L))
  OBVIOUS
<1>10. 1 \in 0 .. Len(L)
  BY <1>0, <1>8
<1>11. /\ s \in Seq(Values) /\ Len(s) = Len(L) - 1
       /\ \A i \in 1 .. Len(L) - 1 : s[i] = L[1 + i]
  BY <1>8, <1>9, <1>10, LastOnes
<1>12. ASSUME NEW i \in 1 .. r.AvFILLp + 1 PROVE At(r, i - 1) = s[i]
  <2>1. i - 1 \in 0 .. r.AvFILLp /\ i \in 1 .. Len(L) - 1 /\ i \in Int
    BY <1>0, <1>4, <1>8
  <2>2. i - 1 + 1 = i /\ 1 + i \in 1 .. a.AvFILLp + 1 /\ 1 + i - 1 = i
    BY <1>0, <1>8, <2>1
  <2>3. At(r, i - 1) = At(a, i)
    BY <1>6, <2>1, <2>2
  <2>4. L[1 + i] = At(a, i)
    BY <1>8, <2>2
  <2> QED BY <1>11, <2>1, <2>3, <2>4
<1>13. Len(s) = r.AvFILLp + 1
  BY <1>0, <1>4, <1>8, <1>11
<1>14. ListOf(r) = s
  BY <1>5, <1>11, <1>12, <1>13, SameList
<1> QED BY <1>7, <1>9, <1>14

LEMMA EmptyLists ==
  ASSUME NEW r, r.AvFILLp = -1
  PROVE  ListOf(r) = <<>>
<1>1. 1 .. r.AvFILLp + 1 = {}
  OBVIOUS
<1> QED BY <1>1 DEF ListOf

LEMMA ClearLists ==
  ASSUME NEW a, Shape(a)
  PROVE  ListOf(av_clear(a)) = <<>>
<1>1. PICK b : b = PutNull(a, 0 .. a.AvFILLp)
  OBVIOUS
<1>2. av_clear(a) = [b EXCEPT !.off = 0, !.AvMAX = @ + a.off, !.AvFILLp = -1]
  BY <1>1 DEF av_clear
<1>3. Shape(b)
  BY <1>1, PutNullKeeps
<1>4. av_clear(a).AvFILLp = -1
  BY <1>2, <1>3 DEF Shape
<1> QED BY <1>4, EmptyLists

LEMMA NoLength ==
  ASSUME NEW s \in Seq(Values)
  PROVE  WithLength(s, 0) = <<>>
<1>1. PICK r : r = WithLength(s, 0)
  OBVIOUS
<1>2. HasLength(r, s, 0)
  BY <1>1, LengthIs
<1> QED BY <1>1, <1>2, EmptyList DEF HasLength

-----------------------------------------------------------------------------
(* Deleting.                                                               *)

LEMMA MaxIs ==
  ASSUME NEW S, S \subseteq Int, NEW m \in S, \A x \in S : m >= x
  PROVE  Max(S) = m
<1>1. PICK c : c = Max(S)
  OBVIOUS
<1>2. c \in S /\ \A x \in S : c >= x
  BY <1>1 DEF Max
<1>3. c >= m /\ m >= c /\ c \in Int /\ m \in Int
  BY <1>2
<1> QED BY <1>1, <1>3

LEMMA SameMax ==
  ASSUME NEW S
  PROVE  Abstract!Max(S) = Max(S)
BY DEF Abstract!Max, Max

\* What Delete() makes of s.
Deleted(s, k) ==
  IF k < Len(s) - 1
    THEN [s EXCEPT ![k + 1] = NoElem]
    ELSE SubSeq(s, 1, Max({0} \cup {i \in 1 .. k : s[i] # NoElem}))

LEMMA DeleteLists ==
  ASSUME NEW a, Shape(a), NEW k \in Nat, k <= a.AvFILLp, NEW r, r = av_delete(a, k)
  PROVE  ListOf(r) = Deleted(ListOf(a), k)
<1>0. /\ a.off \in Nat /\ a.AvMAX \in Int /\ a.AvFILLp \in Int
      /\ -1 <= a.AvFILLp /\ a.AvFILLp <= a.AvMAX
  BY Window
<1>1. Shape(r)
  BY DeleteKeeps
<1>2. PICK b : b = PutNull(a, {k})
  OBVIOUS
<1>3. Shape(b) /\ b.off = a.off /\ b.AvFILLp = a.AvFILLp
  BY <1>2, PutNullKeeps
<1>4. \A i \in 0 .. a.AvMAX : At(b, i) = IF i = k THEN NoElem ELSE At(a, i)
  <2> SUFFICES ASSUME NEW i \in 0 .. a.AvMAX
               PROVE  At(b, i) = IF i = k THEN NoElem ELSE At(a, i)
    OBVIOUS
  <2>1. PICK S : S = {k}
    OBVIOUS
  <2>2. At(b, i) = IF i \in S THEN NoElem ELSE At(a, i)
    BY <1>2, <2>1, NullAt
  <2> QED BY <2>1, <2>2
<1>5. PICK L : L = ListOf(a)
  OBVIOUS
<1>6. /\ L \in Seq(Values) /\ Len(L) = a.AvFILLp + 1
      /\ \A i \in 1 .. a.AvFILLp + 1 : L[i] = At(a, i - 1)
  BY <1>5, ListIs
<1>7. CASE k < a.AvFILLp
  <2>1. r = b
    BY <1>2, <1>7 DEF av_delete
  <2>2. PICK s : s = [L EXCEPT ![k + 1] = NoElem]
    OBVIOUS
  <2>3. k + 1 \in 1 .. Len(L) /\ NoElem \in Values
    BY <1>0, <1>6, <1>7 DEF Values
  <2>4. /\ s \in Seq(Values) /\ Len(s) = Len(L)
        /\ \A j \in 1 .. Len(L) : s[j] = IF j = k + 1 THEN NoElem ELSE L[j]
    <3>1. /\ [L EXCEPT ![k + 1] = NoElem] \in Seq(Values)
          /\ Len([L EXCEPT ![k + 1] = NoElem]) = Len(L)
          /\ \A j \in 1 .. Len(L) :
               [L EXCEPT ![k + 1] = NoElem][j] = IF j = k + 1 THEN NoElem ELSE L[j]
      BY <1>6, <2>3, ExceptSeq
    <3> QED BY <2>2, <3>1
  <2>5. ASSUME NEW i \in 1 .. r.AvFILLp + 1 PROVE At(r, i - 1) = s[i]
    <3>1. i \in Int /\ i - 1 \in 0 .. a.AvMAX /\ i \in 1 .. Len(L) /\ i \in 1 .. a.AvFILLp + 1
      BY <1>0, <1>3, <1>6, <2>1
    <3>2. At(r, i - 1) = IF i - 1 = k THEN NoElem ELSE At(a, i - 1)
      BY <1>4, <2>1, <3>1
    <3>3. s[i] = IF i = k + 1 THEN NoElem ELSE At(a, i - 1)
      BY <1>6, <2>4, <3>1
    <3> QED BY <3>1, <3>2, <3>3
  <2>6. ListOf(r) = s
    BY <1>1, <1>3, <1>6, <2>1, <2>4, <2>5, SameList
  <2>7. k < Len(L) - 1
    BY <1>0, <1>6, <1>7
  <2> QED BY <1>5, <2>2, <2>6, <2>7 DEF Deleted
<1>8. CASE ~(k < a.AvFILLp)
  <2>1. PICK I : I = {j \in 0 .. k - 1 : At(a, j) # NoElem}
    OBVIOUS
  <2>2. PICK m : m = Max({-1} \cup I)
    OBVIOUS
  <2>3. I \subseteq 0 .. k - 1
    BY <2>1
  <2>4. m \in {-1} \cup I /\ \A x \in I : m >= x
    BY <2>2, <2>3, MaxOfIndices
  <2>5. r = [b EXCEPT !.AvFILLp = m]
    BY <1>2, <1>8, <2>1, <2>2 DEF av_delete
  <2>6. r.slot = b.slot /\ r.off = b.off /\ r.AvFILLp = m
    BY <1>3, <2>5 DEF Shape
  <2>7. m \in Int /\ -1 <= m /\ m < k
    BY <2>3, <2>4
  <2>8. ASSUME NEW i \in 0 .. r.AvFILLp PROVE At(r, i) = At(a, i)
    <3>1. i \in 0 .. a.AvMAX /\ i # k
      BY <1>0, <2>6, <2>7
    <3> QED BY <1>4, <2>6, <3>1 DEF At
  <2>9. ListOf(r) = SubSeq(L, 1, m + 1)
    <3>1. r.AvFILLp <= a.AvFILLp
      BY <1>0, <2>6, <2>7
    <3> QED BY <1>1, <1>5, <2>6, <2>8, <3>1, FirstLists
  <2>10. PICK J : J = {i \in 1 .. k : L[i] # NoElem}
    OBVIOUS
  <2>11. \A i \in 1 .. k : i - 1 \in 0 .. k - 1 /\ L[i] = At(a, i - 1)
    BY <1>0, <1>6
  <2>12. m + 1 \in {0} \cup J
    <3>1. CASE m = -1
      BY <3>1
    <3>2. CASE m \in I
      <4>1. m + 1 \in 1 .. k /\ m + 1 - 1 = m
        BY <2>3, <2>7, <3>2
      <4>2. At(a, m) # NoElem
        BY <2>1, <3>2
      <4>3. PICK n : n = m + 1
        OBVIOUS
      <4>4. n \in 1 .. k /\ L[n] = At(a, m)
        <5>1. n \in 1 .. k /\ n - 1 = m
          BY <2>7, <4>1, <4>3
        <5> QED BY <2>11, <5>1
      <4>5. L[n] # NoElem
        BY <4>2, <4>4
      <4>6. n \in J
        BY <2>10, <4>4, <4>5
      <4> QED BY <4>3, <4>6
    <3> QED BY <2>4, <3>1, <3>2
  <2>13. \A x \in {0} \cup J : m + 1 >= x /\ x \in Int
    <3>1. m + 1 >= 0
      BY <2>7
    <3>2. ASSUME NEW x \in J PROVE m + 1 >= x /\ x \in Int
      <4>1. x \in 1 .. k /\ L[x] # NoElem
        BY <2>10
      <4>2. x - 1 \in I
        BY <2>1, <2>11, <4>1
      <4> QED BY <2>4, <2>7, <4>1, <4>2
    <3> QED BY <3>1, <3>2
  <2>14. Max({0} \cup J) = m + 1
    BY <2>12, <2>13, MaxIs
  <2>15. ~(k < Len(L) - 1)
    BY <1>0, <1>6, <1>8
  <2> QED BY <1>5, <2>9, <2>10, <2>14, <2>15 DEF Deleted
<1> QED BY <1>7, <1>8

-----------------------------------------------------------------------------
(* Slots are written.                                                      *)

\* A window on a block, its slots with whatever values.
Block(a) ==
  /\ DOMAIN a = Fields
  /\ a.off \in Nat /\ a.AvMAX \in Int /\ a.AvFILLp \in Int
  /\ DOMAIN a.slot = 0 .. a.off + a.AvMAX

LEMMA ShapeIsBlock ==
  ASSUME NEW a, Shape(a)
  PROVE  Block(a)
BY DEF Shape, Block, Fields

LEMMA SlotsBlock ==
  ASSUME NEW a, Block(a), NEW s, NEW r, r = [a EXCEPT !.slot = s], DOMAIN s = DOMAIN a.slot
  PROVE  /\ Block(r) /\ r.off = a.off /\ r.AvMAX = a.AvMAX /\ r.AvFILLp = a.AvFILLp
<1>1. /\ DOMAIN r = Fields /\ r.slot = s /\ r.off = a.off /\ r.AvMAX = a.AvMAX
      /\ r.AvFILLp = a.AvFILLp
  BY DEF Block, Fields
<1> QED BY <1>1 DEF Block

\* The element i of r, which is a with the slots s, is at m.
LEMMA SlotsAt ==
  ASSUME NEW a, Block(a), NEW s, NEW r, r = [a EXCEPT !.slot = s],
         DOMAIN s = DOMAIN a.slot, NEW i \in Int, a.off + i >= 0, i <= a.AvMAX
  PROVE  \E m \in DOMAIN a.slot : m = a.off + i /\ m - a.off = i
                                     /\ At(a, i) = a.slot[m] /\ At(r, i) = s[m]
<1>1. r.slot = s /\ r.off = a.off
  BY DEF Block, Fields
<1>2. PICK m : m = a.off + i
  OBVIOUS
<1>3. m \in DOMAIN a.slot /\ m - a.off = i
  BY <1>2 DEF Block
<1>4. At(a, i) = a.slot[m] /\ At(r, i) = s[m]
  BY <1>1, <1>2 DEF At
<1> QED BY <1>2, <1>3, <1>4

LEMMA EmptyAt ==
  ASSUME NEW a, Block(a), NEW E, NEW r, r = PutNull(a, E)
  PROVE  /\ Block(r) /\ r.off = a.off /\ r.AvMAX = a.AvMAX /\ r.AvFILLp = a.AvFILLp
         /\ \A i \in Int :
              a.off + i >= 0 /\ i <= a.AvMAX => At(r, i) = IF i \in E THEN NoElem ELSE At(a, i)
<1>1. PICK s : s = [j \in DOMAIN a.slot |-> IF j - a.off \in E THEN NoElem ELSE a.slot[j]]
  OBVIOUS
<1>2. r = [a EXCEPT !.slot = s]
  BY <1>1 DEF PutNull, Put
<1>3. DOMAIN s = DOMAIN a.slot
  BY <1>1
<1>4. ASSUME NEW i \in Int, a.off + i >= 0, i <= a.AvMAX
      PROVE  At(r, i) = IF i \in E THEN NoElem ELSE At(a, i)
  <2>1. PICK m \in DOMAIN a.slot : m - a.off = i /\ At(a, i) = a.slot[m] /\ At(r, i) = s[m]
    BY <1>2, <1>3, <1>4, SlotsAt
  <2>2. s[m] = IF m - a.off \in E THEN NoElem ELSE a.slot[m]
    BY <1>1
  <2> QED BY <2>1, <2>2
<1>5. Block(r) /\ r.off = a.off /\ r.AvMAX = a.AvMAX /\ r.AvFILLp = a.AvFILLp
  BY <1>2, <1>3, SlotsBlock
<1> QED BY <1>4, <1>5

LEMMA PutListAt ==
  ASSUME NEW a, Block(a), a.AvFILLp <= a.AvMAX, NEW offset \in Nat, NEW new \in Seq(Elem), NEW r, r = PutList(a, offset, new)
  PROVE  /\ r.AvFILLp = a.AvFILLp
         /\ \A i \in 0 .. a.AvFILLp :
              At(r, i) = IF i < offset \/ offset + Len(new) <= i THEN At(a, i)
                                                                 ELSE new[i - offset + 1]
<1>0. /\ a.off \in Nat /\ a.AvMAX \in Int /\ a.AvFILLp \in Int
      /\ a.AvFILLp <= a.AvMAX
  BY DEF Block
<1>1. PICK S : S = offset .. offset + Len(new) - 1
  OBVIOUS
<1>2. PICK s : s = [j \in DOMAIN a.slot |->
                     IF j - a.off \in S THEN new[j - a.off - offset + 1] ELSE a.slot[j]]
  OBVIOUS
<1>3. r = [a EXCEPT !.slot = s]
  BY <1>1, <1>2 DEF PutList, Put
<1>4. r.AvFILLp = a.AvFILLp
  BY <1>3 DEF Block, Fields
<1>5. ASSUME NEW i \in 0 .. a.AvFILLp
      PROVE  At(r, i) = IF i < offset \/ offset + Len(new) <= i THEN At(a, i)
                                                                ELSE new[i - offset + 1]
  <2>1. DOMAIN s = DOMAIN a.slot /\ i \in Int /\ a.off + i >= 0 /\ i <= a.AvMAX
    BY <1>0, <1>2
  <2>2. PICK m \in DOMAIN a.slot : m - a.off = i /\ At(a, i) = a.slot[m] /\ At(r, i) = s[m]
    BY <1>3, <2>1, SlotsAt
  <2>3. s[m] = IF m - a.off \in S THEN new[m - a.off - offset + 1] ELSE a.slot[m]
    BY <1>2
  <2>4. At(r, i) = IF i \in S THEN new[i - offset + 1] ELSE At(a, i)
    BY <2>2, <2>3
  <2>5. i \in S <=> ~(i < offset \/ offset + Len(new) <= i)
    <3>1. Len(new) \in Nat
      OBVIOUS
    <3> QED BY <1>1, <2>1, <3>1
  <2> QED BY <2>4, <2>5
<1> QED BY <1>4, <1>5

-----------------------------------------------------------------------------
\* Room for n elements is made at the start: the others are n further up.
LEMMA UnshiftAt ==
  ASSUME NEW a, Shape(a), NEW n \in Nat
  PROVE  /\ av_unshift(a, n).AvFILLp = a.AvFILLp + n
         /\ \A x \in n .. av_unshift(a, n).AvFILLp : At(av_unshift(a, n), x) = At(a, x - n)
<1>0. /\ a.off \in Nat /\ a.AvMAX \in Int /\ a.AvFILLp \in Int
      /\ -1 <= a.AvFILLp /\ a.AvFILLp <= a.AvMAX
  BY Window
<1> DEFINE i == Min({n, a.off})
           b == [a EXCEPT !.off = @ - i, !.AvMAX = @ + i, !.AvFILLp = @ + i]
           fill == b.AvFILLp
           slide == Max({fill, 0})
           num == n - i + slide
           c == av_extend(b, fill + num)
           s == [j \in DOMAIN c.slot |->
                   IF j - c.off \in 0 .. fill + num
                     THEN IF j - c.off < num THEN NoElem ELSE At(c, j - c.off - num)
                     ELSE c.slot[j]]
           r == av_unshift(a, n)
<1> HIDE DEF i
<1>12. r = IF n = i THEN b
           ELSE [[[c EXCEPT !.AvFILLp = @ + num] EXCEPT !.slot = s]
                   EXCEPT !.AvMAX = @ - slide, !.AvFILLp = @ - slide, !.off = @ + slide]
  BY DEF av_unshift, Put, i
<1> HIDE DEF r
<1>11. \A m \in DOMAIN c.slot :
         m - c.off \in 0 .. fill + num /\ ~(m - c.off < num) => s[m] = At(c, m - c.off - num)
  OBVIOUS
<1> HIDE DEF s
<1>10. c = av_extend(b, fill + num)
  OBVIOUS
<1> HIDE DEF c
<1>9. num = n - i + slide
  OBVIOUS
<1> HIDE DEF num
<1>8. slide = Max({fill, 0})
  OBVIOUS
<1> HIDE DEF slide
<1>7. fill = b.AvFILLp
  OBVIOUS
<1> HIDE DEF fill
<1>3. b = [a EXCEPT !.off = @ - i, !.AvMAX = @ + i, !.AvFILLp = @ + i]
  OBVIOUS
<1> HIDE DEF b
<1>1. i = Min({n, a.off})
  BY DEF i
<1>2. i \in Nat /\ i <= n /\ i <= a.off /\ (i = n \/ i = a.off)
  <2>1. n \in Int /\ a.off \in Int
    BY <1>0
  <2>2. i \in {n, a.off} /\ i <= n /\ i <= a.off
    BY <1>1, <2>1, MinOfTwo
  <2> QED BY <1>0, <2>2
<1>4. /\ DOMAIN b = Fields /\ b.slot = a.slot /\ b.off = a.off - i
      /\ b.AvMAX = a.AvMAX + i /\ b.AvFILLp = a.AvFILLp + i
  BY <1>3 DEF Shape, Fields
<1>5. Shape(b)
  <2>1. /\ b.off \in Nat /\ b.AvMAX \in Int /\ b.off + b.AvMAX = a.off + a.AvMAX
        /\ b.AvFILLp \in Int /\ -1 <= b.AvFILLp /\ b.AvFILLp <= b.AvMAX
    BY <1>0, <1>2, <1>4
  <2> QED BY <1>4, <2>1, WindowKeeps
<1>6. ASSUME NEW x \in i .. b.AvFILLp PROVE At(b, x) = At(a, x - i)
  <2>1. a.off - i + x = a.off + (x - i)
    BY <1>0, <1>2
  <2> QED BY <1>4, <2>1 DEF At
<1>13. fill \in Int /\ fill >= -1 /\ fill = a.AvFILLp + i
  BY <1>0, <1>2, <1>4, <1>7
<1>14. slide \in Nat /\ slide >= fill /\ (slide = fill \/ slide = 0)
  <2>1. Max({fill, 0}) \in {fill, 0} /\ Max({fill, 0}) >= fill /\ Max({fill, 0}) >= 0
    <3>1. fill \in Int
      BY <1>13
    <3> QED BY <3>1, MaxOfTwo
  <2> QED BY <1>8, <1>13, <2>1
<1>15. CASE n = i
  BY <1>4, <1>6, <1>12, <1>15 DEF r
<1>16. CASE n # i
  <2>1. num \in Nat /\ num > slide /\ fill + num \in Nat /\ num - slide = n - i
    BY <1>2, <1>9, <1>13, <1>14, <1>16
  <2>2. Shape(c) /\ c.AvMAX >= fill + num /\ c.AvFILLp = fill
    <3>1. fill + num \in Int
      BY <2>1
    <3> QED BY <1>5, <1>7, <1>10, <3>1, ExtendKeeps
  <2>3. ASSUME NEW x \in 0 .. fill PROVE At(c, x) = At(b, x)
    <3>1. fill + num \in Int
      BY <2>1
    <3> QED BY <1>5, <1>7, <1>10, <3>1, ExtendAt
  <2>4. r.slot = s /\ r.off = c.off + slide /\ r.AvFILLp = fill + num - slide
    <3>1. DOMAIN c = Fields
      BY <2>2 DEF Shape, Fields
    <3>2. PICK d : d = [[c EXCEPT !.AvFILLp = @ + num] EXCEPT !.slot = s]
      OBVIOUS
    <3>3. /\ DOMAIN d = Fields /\ d.slot = s /\ d.off = c.off /\ d.AvFILLp = fill + num
      BY <2>2, <3>1, <3>2 DEF Fields
    <3>4. r = [d EXCEPT !.AvMAX = @ - slide, !.AvFILLp = @ - slide, !.off = @ + slide]
      BY <1>12, <1>16, <3>2
    <3>5. r.slot = d.slot
      BY <3>3, <3>4 DEF Fields
    <3>6. r.off = d.off + slide
      BY <3>3, <3>4 DEF Fields
    <3>7. r.AvFILLp = d.AvFILLp - slide
      BY <3>3, <3>4 DEF Fields
    <3> QED BY <1>13, <1>14, <2>1, <3>3, <3>5, <3>6, <3>7
  <2>5. r.AvFILLp = a.AvFILLp + n
    BY <1>0, <1>2, <1>9, <1>13, <1>14, <2>4
  <2>6. ASSUME NEW x \in n .. r.AvFILLp PROVE At(r, x) = At(a, x - n)
    <3>0. x \in Int /\ x >= n /\ x <= a.AvFILLp + n
      BY <1>0, <2>5
    <3>1. c.off \in Nat /\ c.AvMAX \in Int /\ DOMAIN c.slot = 0 .. c.off + c.AvMAX
      BY <2>2, Window
    <3>2. PICK m : m = c.off + slide + x
      OBVIOUS
    <3>3. m - c.off = slide + x /\ m \in DOMAIN c.slot
      <4>1. c.off \in Int /\ slide \in Int /\ x \in Int
        BY <1>14, <3>0, <3>1
      <4>2. m - c.off = slide + x
        BY <3>2, <4>1
      <4>3. 0 <= slide + x /\ slide + x <= fill + num
        BY <1>0, <1>2, <1>13, <1>14, <2>1, <3>0
      <4>4. 0 <= m /\ m <= c.off + c.AvMAX /\ m \in Int
        <5>1. num \in Int /\ fill \in Int /\ slide + x <= c.AvMAX
          BY <1>13, <2>1, <2>2, <3>1, <4>1, <4>3
        <5> QED BY <3>1, <3>2, <4>1, <4>3, <5>1
      <4>5. m \in 0 .. c.off + c.AvMAX
        BY <3>1, <4>4
      <4> QED BY <3>1, <4>2, <4>5
    <3>4. slide + x \in 0 .. fill + num /\ ~(slide + x < num)
      BY <1>0, <1>2, <1>13, <1>14, <2>1, <3>0
    <3>5. PICK y : y = slide + x - num
      OBVIOUS
    <3>6. s[m] = At(c, y)
      <4>1. s[m] = At(c, m - c.off - num)
        BY <1>11, <3>3, <3>4
      <4>2. m - c.off - num = y
        <5>1. PICK z : z = m - c.off
          OBVIOUS
        <5>2. z = slide + x
          BY <3>3, <5>1
        <5>3. z - num = y
          BY <1>14, <2>1, <3>0, <3>5, <5>2
        <5> QED BY <5>1, <5>3
      <4>3. At(c, m - c.off - num) = At(c, y)
        BY <4>2, Zenon
      <4> QED BY <4>1, <4>3
    <3>7. At(r, x) = s[m]
      BY <2>4, <3>2 DEF At
    <3>8. y = x - (n - i) /\ y \in 0 .. fill /\ y \in i .. b.AvFILLp /\ y - i = x - n
      BY <1>0, <1>2, <1>7, <1>13, <1>14, <2>1, <3>0, <3>5
    <3> QED BY <1>6, <2>3, <3>6, <3>7, <3>8
  <2> QED BY <2>5, <2>6 DEF r
<1> QED BY <1>15, <1>16 DEF r

LEMMA ElemsAreValues ==
  ASSUME NEW new \in Seq(Elem)
  PROVE  new \in Seq(Values)
<1>1. Elem \subseteq Values
  BY DEF Values
<1> QED BY <1>1, SeqMonotonic

LEMMA UnshiftLists ==
  ASSUME NEW a, Shape(a), NEW new \in Seq(Elem), NEW r, r = pp_unshift(a, new)
  PROVE  ListOf(r) = new \o ListOf(a)
<1>1. PICK n \in Nat : n = Len(new)
  OBVIOUS
<1>2. PICK b : b = av_unshift(a, n)
  OBVIOUS
<1>3. Shape(b) /\ b.AvFILLp >= n - 1
  BY <1>2, UnshiftKeeps
<1>4. /\ b.AvFILLp = a.AvFILLp + n
      /\ \A i \in n .. b.AvFILLp : At(b, i) = At(a, i - n)
  BY <1>2, UnshiftAt
<1>5. r = PutList(b, 0, new)
  <2>1. b.off \in Nat /\ DOMAIN b.slot = 0 .. b.off + b.AvMAX
    BY <1>3, Window
  <2>2. \A j \in DOMAIN b.slot :
          /\ j - b.off + 1 = j - b.off - 0 + 1
          /\ 0 .. Len(new) - 1 = 0 .. 0 + Len(new) - 1
    BY <2>1
  <2>3. [j \in DOMAIN b.slot |->
           IF j - b.off \in 0 .. Len(new) - 1 THEN new[j - b.off + 1] ELSE b.slot[j]]
        = [j \in DOMAIN b.slot |->
           IF j - b.off \in 0 .. 0 + Len(new) - 1 THEN new[j - b.off - 0 + 1] ELSE b.slot[j]]
    BY <2>2
  <2> QED BY <1>1, <1>2, <2>3 DEF pp_unshift, PutList, Put
<1>6. Shape(r)
  BY UnshiftListKeeps
<1>7. /\ r.AvFILLp = b.AvFILLp
      /\ \A i \in 0 .. b.AvFILLp :
           At(r, i) = IF i < 0 \/ 0 + Len(new) <= i THEN At(b, i) ELSE new[i - 0 + 1]
  <2>1. Block(b) /\ b.AvFILLp <= b.AvMAX
    BY <1>3, ShapeIsBlock, Window
  <2> QED BY <1>5, <2>1, PutListAt
<1>8. PICK L : L = ListOf(a)
  OBVIOUS
<1>9. /\ L \in Seq(Values) /\ Len(L) = a.AvFILLp + 1
      /\ \A i \in 1 .. a.AvFILLp + 1 : L[i] = At(a, i - 1)
  BY <1>8, ListIs
<1>10. PICK s : s = new \o L
  OBVIOUS
<1>11. /\ s \in Seq(Values) /\ Len(s) = Len(new) + Len(L)
       /\ \A i \in 1 .. Len(new) + Len(L) : s[i] = IF i <= Len(new) THEN new[i] ELSE L[i - Len(new)]
  BY <1>9, <1>10, ElemsAreValues, Joined
<1>12. a.AvFILLp \in Int /\ a.AvFILLp >= -1
  BY Window
<1>13. Len(s) = r.AvFILLp + 1
  BY <1>1, <1>4, <1>7, <1>9, <1>11, <1>12
<1>14. ASSUME NEW i \in 1 .. r.AvFILLp + 1 PROVE At(r, i - 1) = s[i]
  <2>1. i \in Int /\ i - 1 \in 0 .. b.AvFILLp /\ i \in 1 .. Len(new) + Len(L)
    BY <1>1, <1>4, <1>7, <1>9, <1>12
  <2>2. PICK k : k = i - 1
    OBVIOUS
  <2>3. At(r, k) = IF k < 0 \/ 0 + Len(new) <= k THEN At(b, k) ELSE new[k - 0 + 1]
    BY <1>7, <2>1, <2>2
  <2>4. CASE i <= n
    <3>1. ~(k < 0 \/ 0 + Len(new) <= k) /\ k - 0 + 1 = i
      BY <1>1, <2>1, <2>2, <2>4
    <3>2. s[i] = new[i]
      BY <1>1, <1>11, <2>1, <2>4
    <3> QED BY <2>2, <2>3, <3>1, <3>2
  <2>5. CASE ~(i <= n)
    <3>1. /\ (k < 0 \/ 0 + Len(new) <= k) /\ k \in n .. b.AvFILLp
          /\ i - n \in 1 .. a.AvFILLp + 1 /\ k - n = i - n - 1
      BY <1>1, <1>4, <1>12, <2>1, <2>2, <2>5
    <3>2. At(r, k) = At(a, k - n)
      BY <1>4, <2>3, <3>1
    <3>3. s[i] = L[i - n]
      BY <1>1, <1>11, <2>1, <2>5
    <3>4. L[i - n] = At(a, i - n - 1)
      BY <1>9, <3>1
    <3> QED BY <2>2, <3>1, <3>2, <3>3, <3>4
  <2> QED BY <2>4, <2>5
<1>15. ListOf(r) = s
  BY <1>6, <1>11, <1>13, <1>14, SameList
<1> QED BY <1>8, <1>10, <1>15

-----------------------------------------------------------------------------
(* splice().                                                               *)

\* Elements are where those of a were, or n - length further up, and between
\* them there is room for n.
Moved(p, a, offset, length, n) ==
  /\ Block(p) /\ p.AvFILLp <= p.AvMAX /\ p.AvFILLp = a.AvFILLp + n - length
  /\ \A i \in 0 .. p.AvFILLp :
       /\ i < offset => At(p, i) = At(a, i)
       /\ offset + n <= i => At(p, i) = At(a, i - n + length)

\* What Splice() makes of s.
Spliced(s, offset, length, new) ==
  SubSeq(s, 1, offset) \o new \o SubSeq(s, offset + length + 1, Len(s))

IsSpliced(r, s, offset, length, new) ==
  /\ r \in Seq(Values) /\ Len(r) = Len(s) + Len(new) - length
  /\ \A i \in 1 .. Len(r) :
       /\ i <= offset => r[i] = s[i]
       /\ offset < i /\ i <= offset + Len(new) => r[i] = new[i - offset]
       /\ offset + Len(new) < i => r[i] = s[i - Len(new) + length]

LEMMA SplicedIs ==
  ASSUME NEW s \in Seq(Values), NEW offset \in Nat, NEW length \in Nat, offset + length <= Len(s),
         NEW new \in Seq(Values), NEW r, r = Spliced(s, offset, length, new)
  PROVE  IsSpliced(r, s, offset, length, new)
<1>0. Len(s) \in Nat /\ Len(new) \in Nat
  OBVIOUS
<1>1. PICK l \in 0 .. Len(s) : l = offset + length
  BY <1>0
<1>2. PICK h : h = SubSeq(s, 1, offset)
  OBVIOUS
<1>3. PICK t : t = SubSeq(s, l + 1, Len(s))
  OBVIOUS
<1>4. PICK u : u = h \o new
  OBVIOUS
<1>5. r = u \o t
  BY <1>1, <1>2, <1>3, <1>4 DEF Spliced
<1>6. h \in Seq(Values) /\ Len(h) = offset /\ \A i \in 1 .. offset : h[i] = s[i]
  <2>1. offset \in 0 .. Len(s)
    BY <1>0
  <2> QED BY <1>2, <2>1, FirstOnes
<1>7. /\ t \in Seq(Values) /\ Len(t) = Len(s) - l
      /\ \A i \in 1 .. Len(s) - l : t[i] = s[l + i]
  BY <1>3, LastOnes
<1>8. /\ u \in Seq(Values) /\ Len(u) = Len(h) + Len(new)
      /\ \A i \in 1 .. Len(h) + Len(new) : u[i] = IF i <= Len(h) THEN h[i] ELSE new[i - Len(h)]
  BY <1>4, <1>6, Joined
<1>9. /\ r \in Seq(Values) /\ Len(r) = Len(u) + Len(t)
      /\ \A i \in 1 .. Len(u) + Len(t) : r[i] = IF i <= Len(u) THEN u[i] ELSE t[i - Len(u)]
  <2>1. u \in Seq(Values) /\ t \in Seq(Values)
    BY <1>7, <1>8
  <2> QED BY <1>5, <2>1, Joined
<1>10. Len(u) = offset + Len(new) /\ Len(r) = Len(s) + Len(new) - length
  <2>1. Len(u) = offset + Len(new)
    BY <1>6, <1>8
  <2>2. Len(t) = Len(s) - (offset + length)
    BY <1>1, <1>7
  <2>3. Len(r) = Len(u) + Len(t)
    BY <1>9
  <2> QED BY <1>0, <2>1, <2>2, <2>3
<1>11. ASSUME NEW i \in 1 .. Len(r), i <= offset PROVE r[i] = s[i]
  <2>1. i \in 1 .. Len(h) + Len(new) /\ i \in 1 .. Len(u) + Len(t) /\ i <= Len(u) /\ i <= Len(h)
        /\ i \in 1 .. offset
    BY <1>0, <1>6, <1>9, <1>10, <1>11
  <2>2. r[i] = u[i]
    BY <1>9, <2>1
  <2>3. u[i] = h[i]
    BY <1>8, <2>1
  <2> QED BY <1>6, <2>1, <2>2, <2>3
<1>12. ASSUME NEW i \in 1 .. Len(r), offset < i, i <= offset + Len(new) PROVE r[i] = new[i - offset]
  <2>1. i \in 1 .. Len(h) + Len(new) /\ i \in 1 .. Len(u) + Len(t) /\ i <= Len(u) /\ ~(i <= Len(h))
    BY <1>0, <1>6, <1>9, <1>10, <1>12
  <2>2. r[i] = u[i]
    BY <1>9, <2>1
  <2>3. u[i] = new[i - Len(h)]
    BY <1>8, <2>1
  <2> QED BY <1>6, <2>2, <2>3
<1>13. ASSUME NEW i \in 1 .. Len(r), offset + Len(new) < i PROVE r[i] = s[i - Len(new) + length]
  <2>1. /\ i \in 1 .. Len(u) + Len(t) /\ ~(i <= Len(u)) /\ i - Len(u) \in 1 .. Len(s) - l
        /\ l + (i - Len(u)) = i - Len(new) + length
    BY <1>0, <1>1, <1>7, <1>9, <1>10, <1>13
  <2>2. r[i] = t[i - Len(u)]
    BY <1>9, <2>1
  <2>3. t[i - Len(u)] = s[l + (i - Len(u))]
    BY <1>7, <2>1
  <2> QED BY <2>1, <2>2, <2>3
<1> QED BY <1>9, <1>10, <1>11, <1>12, <1>13 DEF IsSpliced

LEMMA MovedLists ==
  ASSUME NEW a, Shape(a), NEW offset \in Nat, NEW length \in Nat, offset + length <= a.AvFILLp + 1,
         NEW new \in Seq(Elem), NEW p, Moved(p, a, offset, length, Len(new)),
         NEW r, r = PutList(p, offset, new), Shape(r)
  PROVE  ListOf(r) = Spliced(ListOf(a), offset, length, new)
<1>1. PICK n \in Nat : n = Len(new)
  OBVIOUS
<1>2. PICK L : L = ListOf(a)
  OBVIOUS
<1>3. /\ L \in Seq(Values) /\ Len(L) = a.AvFILLp + 1
      /\ \A i \in 1 .. a.AvFILLp + 1 : L[i] = At(a, i - 1)
  BY <1>2, ListIs
<1>4. PICK s : s = Spliced(L, offset, length, new)
  OBVIOUS
<1>5. IsSpliced(s, L, offset, length, new)
  BY <1>3, <1>4, ElemsAreValues, SplicedIs
<1>6. /\ Block(p) /\ p.AvFILLp <= p.AvMAX /\ p.AvFILLp = a.AvFILLp + n - length
      /\ \A i \in 0 .. p.AvFILLp :
           /\ i < offset => At(p, i) = At(a, i)
           /\ offset + n <= i => At(p, i) = At(a, i - n + length)
  BY <1>1 DEF Moved
<1>7. /\ r.AvFILLp = p.AvFILLp
      /\ \A i \in 0 .. p.AvFILLp :
           At(r, i) = IF i < offset \/ offset + Len(new) <= i THEN At(p, i)
                                                              ELSE new[i - offset + 1]
  BY <1>6, PutListAt
<1>8. a.AvFILLp \in Int /\ a.AvFILLp >= -1
  BY Window
<1>9. s \in Seq(Values) /\ Len(s) = r.AvFILLp + 1
  <2>1. s \in Seq(Values) /\ Len(s) = Len(L) + n - length
    BY <1>1, <1>5 DEF IsSpliced
  <2> QED BY <1>3, <1>6, <1>7, <1>8, <2>1
<1>10. ASSUME NEW i \in 1 .. r.AvFILLp + 1 PROVE At(r, i - 1) = s[i]
  <2>1. PICK k : k = i - 1
    OBVIOUS
  <2>2. i \in Int /\ k \in 0 .. p.AvFILLp /\ i \in 1 .. Len(s) /\ i = k + 1
    BY <1>6, <1>7, <1>8, <1>9, <2>1
  <2>3. /\ i <= offset => s[i] = L[i]
        /\ offset < i /\ i <= offset + n => s[i] = new[i - offset]
        /\ offset + n < i => s[i] = L[i - n + length]
    BY <1>1, <1>5, <2>2 DEF IsSpliced
  <2>4. At(r, k) = IF k < offset \/ offset + n <= k THEN At(p, k) ELSE new[k - offset + 1]
    BY <1>1, <1>7, <2>2
  <2>5. CASE i <= offset
    <3>1. k < offset /\ i \in 1 .. a.AvFILLp + 1
      BY <1>8, <2>2, <2>5
    <3> QED BY <1>3, <1>6, <2>1, <2>2, <2>3, <2>4, <2>5, <3>1
  <2>6. CASE offset < i /\ i <= offset + n
    <3>1. ~(k < offset \/ offset + n <= k) /\ k - offset + 1 = i - offset
      BY <2>2, <2>6
    <3> QED BY <2>1, <2>3, <2>4, <2>6, <3>1
  <2>7. CASE offset + n < i
    <3>1. PICK m : m = i - n + length
      OBVIOUS
    <3>2. /\ offset + n <= k /\ m \in 1 .. a.AvFILLp + 1 /\ m - 1 = k - n + length
      BY <1>6, <1>8, <2>2, <2>7, <3>1
    <3>3. s[i] = L[m] /\ L[m] = At(a, m - 1)
      BY <1>3, <2>3, <2>7, <3>1, <3>2
    <3>4. At(r, k) = At(a, k - n + length)
      BY <1>6, <2>2, <2>4, <3>2
    <3> QED BY <2>1, <3>2, <3>3, <3>4
  <2> QED BY <2>2, <2>5, <2>6, <2>7
<1>11. ListOf(r) = s
  BY <1>9, <1>10, SameList
<1> QED BY <1>2, <1>4, <1>11

-----------------------------------------------------------------------------
(* Where Shrink() and Expand() leave the elements.                          *)

\* The slots of r are those of a, with other ends to the window.
LEMMA WindowAt ==
  ASSUME NEW a, Block(a), NEW r, DOMAIN r = Fields, r.slot = a.slot,
         r.off \in Nat, r.AvMAX \in Int, r.off + r.AvMAX = a.off + a.AvMAX, r.AvFILLp \in Int,
         NEW i \in Int
  PROVE  /\ Block(r)
         /\ At(r, i) = At(a, r.off - a.off + i)
<1>1. Block(r)
  BY DEF Block
<1>2. a.off \in Nat
  BY DEF Block
<1>3. r.off + i = a.off + (r.off - a.off + i)
  BY <1>2
<1> QED BY <1>1, <1>3 DEF At

LEMMA ShrinkMoved ==
  ASSUME NEW a, Shape(a), NEW offset \in Nat, NEW length \in Nat, NEW new \in Seq(Elem),
         length > Len(new), offset + length <= a.AvFILLp + 1
  PROVE  \E p : Moved(p, a, offset, length, Len(new))
                /\ Shrink(a, offset, length, new) = PutList(p, offset, new)
<1> DEFINE n == Len(new)
           gone == length - n
           after == a.AvFILLp + 1 - (offset + length)
           b == [a EXCEPT !.AvFILLp = @ - gone]
           UpS == gone .. gone + offset - 1
           UpE == 0 .. gone - 1
           ups == [j \in DOMAIN b.slot |->
                     IF j - b.off \in UpS THEN At(a, j - b.off - gone) ELSE b.slot[j]]
           upc == [b EXCEPT !.slot = ups]
           upq == PutNull(upc, UpE)
           up == [upq EXCEPT !.off = @ + gone, !.AvMAX = @ - gone]
           DownS == offset + n .. offset + n + after - 1
           DownE == b.AvFILLp + 1 .. b.AvFILLp + gone
           downs == [j \in DOMAIN b.slot |->
                       IF j - b.off \in DownS THEN At(a, j - b.off + gone) ELSE b.slot[j]]
           downc == [b EXCEPT !.slot = downs]
           down == PutNull(downc, DownE)
           moved == IF offset < after THEN up ELSE down
<1>0. /\ a.off \in Nat /\ a.AvMAX \in Int /\ a.AvFILLp \in Int
      /\ -1 <= a.AvFILLp /\ a.AvFILLp <= a.AvMAX
  BY DEF Shape
<1>1. n \in Nat /\ gone \in Nat /\ gone > 0 /\ n = length - gone
      /\ after \in Nat /\ offset + length + after = a.AvFILLp + 1
  BY <1>0
<1>2. Shrink(a, offset, length, new) = PutList(moved, offset, new)
  BY DEF Shrink, PutList, Put
<1> HIDE DEF n, gone, after
<1>3. /\ DOMAIN b = Fields /\ b.slot = a.slot /\ b.off = a.off /\ b.AvMAX = a.AvMAX
      /\ b.AvFILLp = a.AvFILLp - gone
  BY DEF Shape, Fields
<1> HIDE DEF b
<1>4. Block(b) /\ \A x : At(b, x) = At(a, x)
  <2>1. b.AvFILLp \in Int
    BY <1>0, <1>1, <1>3
  <2>2. Block(a)
    BY ShapeIsBlock
  <2> QED BY <1>3, <2>1, <2>2 DEF Block, At
<1>5. Moved(up, a, offset, length, n)
  <2>1. DOMAIN ups = DOMAIN b.slot
    OBVIOUS
  <2>2. \A m \in DOMAIN b.slot :
          ups[m] = IF m - b.off \in UpS THEN At(a, m - b.off - gone) ELSE b.slot[m]
    OBVIOUS
  <2> HIDE DEF ups
  <2>3. /\ Block(upc) /\ upc.off = a.off /\ upc.AvMAX = a.AvMAX
        /\ upc.AvFILLp = a.AvFILLp - gone
    BY <1>3, <1>4, <2>1, SlotsBlock
  <2>4. ASSUME NEW x \in Int, a.off + x >= 0, x <= a.AvMAX
        PROVE  At(upc, x) = IF x \in UpS THEN At(a, x - gone) ELSE At(a, x)
    <3>1. b.off + x >= 0 /\ x <= b.AvMAX
      BY <1>3, <2>4
    <3>2. PICK m \in DOMAIN b.slot : m - b.off = x /\ At(b, x) = b.slot[m] /\ At(upc, x) = ups[m]
      BY <1>4, <2>1, <3>1, SlotsAt
    <3>3. ups[m] = IF x \in UpS THEN At(a, x - gone) ELSE b.slot[m]
      BY <2>2, <3>2
    <3> QED BY <1>4, <3>2, <3>3
  <2> HIDE DEF upc
  <2>5. /\ Block(upq) /\ upq.off = a.off /\ upq.AvMAX = a.AvMAX
        /\ upq.AvFILLp = a.AvFILLp - gone
        /\ \A x \in Int :
             a.off + x >= 0 /\ x <= a.AvMAX => At(upq, x) = IF x \in UpE THEN NoElem ELSE At(upc, x)
    <3>1. upq = PutNull(upc, UpE)
      OBVIOUS
    <3> HIDE DEF upq, UpE
    <3>2. /\ Block(upq) /\ upq.off = upc.off /\ upq.AvMAX = upc.AvMAX /\ upq.AvFILLp = upc.AvFILLp
          /\ \A x \in Int :
               upc.off + x >= 0 /\ x <= upc.AvMAX
                 => At(upq, x) = IF x \in UpE THEN NoElem ELSE At(upc, x)
      BY <2>3, <3>1, EmptyAt
    <3> QED BY <2>3, <3>2
  <2> HIDE DEF upq
  <2>6. /\ DOMAIN up = Fields /\ up.slot = upq.slot /\ up.off = a.off + gone
        /\ up.AvMAX = a.AvMAX - gone /\ up.AvFILLp = a.AvFILLp - gone
    BY <2>5 DEF Block, Fields
  <2> HIDE DEF up
  <2>7. /\ up.off \in Nat /\ up.AvMAX \in Int /\ up.off + up.AvMAX = upq.off + upq.AvMAX
        /\ up.AvFILLp \in Int /\ up.off - upq.off = gone
        /\ up.AvFILLp <= up.AvMAX
    <3>0. gone \in Nat /\ upq.off = a.off
      BY <1>1, <2>5
    <3>1. up.off \in Nat /\ up.AvMAX \in Int /\ up.AvFILLp \in Int /\ up.off - upq.off = gone
      <4>1. up.off \in Nat /\ up.off - upq.off = gone
        <5>1. up.off = upq.off + gone
          BY <2>6, <3>0
        <5>2. upq.off \in Nat
          BY <1>0, <3>0
        <5> QED BY <3>0, <5>1, <5>2
      <4>2. up.AvMAX \in Int /\ up.AvFILLp \in Int
        <5>1. up.AvMAX = a.AvMAX - gone /\ up.AvFILLp = a.AvFILLp - gone
          BY <2>6
        <5>2. a.AvMAX \in Int /\ a.AvFILLp \in Int
          BY <1>0
        <5>3. a.AvMAX - gone \in Int /\ a.AvFILLp - gone \in Int
          BY <3>0, <5>2
        <5> QED BY <5>1, <5>3
      <4> QED BY <4>1, <4>2
    <3>2. up.off + up.AvMAX = upq.off + upq.AvMAX
      BY <1>0, <1>1, <2>5, <2>6
    <3>3. up.AvFILLp <= up.AvMAX
      BY <1>0, <1>1, <2>6
    <3> QED BY <3>1, <3>2, <3>3
  <2>8. Block(up)
    BY <2>5, <2>6, <2>7 DEF Block
  <2>9. up.AvFILLp = a.AvFILLp + n - length
    <3>1. up.AvFILLp = a.AvFILLp - gone
      BY <2>6
    <3>2. a.AvFILLp \in Int /\ n \in Nat /\ gone \in Nat /\ n = length - gone
      BY <1>0, <1>1
    <3> QED BY <3>1, <3>2
  <2>10. ASSUME NEW i \in 0 .. up.AvFILLp
         PROVE  /\ i < offset => At(up, i) = At(a, i)
                /\ offset + n <= i => At(up, i) = At(a, i - n + length)
    <3>0. i \in Int /\ i >= 0 /\ i <= a.AvFILLp - gone
      BY <2>6, <2>7
    <3>1. PICK x \in Int : x = gone + i
      BY <1>1, <3>0
    <3>2. At(up, i) = At(upq, x)
      BY <2>5, <2>6, <2>7, <3>0, <3>1, WindowAt
    <3>3. a.off + x >= 0 /\ x <= a.AvMAX
      <4>1. gone \in Nat /\ a.off \in Nat /\ a.AvMAX \in Int /\ a.AvFILLp \in Int
            /\ a.AvFILLp <= a.AvMAX
        BY <1>0, <1>1
      <4>2. x >= 0 /\ x <= a.AvFILLp
        BY <3>0, <3>1, <4>1
      <4> QED BY <4>1, <4>2
    <3>4. x \notin UpE
      BY <1>1, <3>0, <3>1
    <3>5. At(up, i) = IF x \in UpS THEN At(a, x - gone) ELSE At(a, x)
      BY <2>4, <2>5, <3>2, <3>3, <3>4
    <3>6. ASSUME i < offset PROVE At(up, i) = At(a, i)
      <4>1. x \in UpS /\ x - gone = i
        BY <1>1, <3>0, <3>1, <3>6
      <4> QED BY <3>5, <4>1
    <3>7. ASSUME offset + n <= i PROVE At(up, i) = At(a, i - n + length)
      <4>1. x \notin UpS /\ x = i - n + length
        BY <1>1, <3>0, <3>1, <3>7
      <4> QED BY <3>5, <4>1
    <3> QED BY <3>6, <3>7
  <2> QED BY <2>7, <2>8, <2>9, <2>10 DEF Moved
<1>6. Moved(down, a, offset, length, n)
  <2>1. DOMAIN downs = DOMAIN b.slot
    OBVIOUS
  <2>2. \A m \in DOMAIN b.slot :
          downs[m] = IF m - b.off \in DownS THEN At(a, m - b.off + gone) ELSE b.slot[m]
    OBVIOUS
  <2> HIDE DEF downs
  <2>3. /\ Block(downc) /\ downc.off = a.off /\ downc.AvMAX = a.AvMAX
        /\ downc.AvFILLp = a.AvFILLp - gone
    BY <1>3, <1>4, <2>1, SlotsBlock
  <2>4. ASSUME NEW x \in Int, a.off + x >= 0, x <= a.AvMAX
        PROVE  At(downc, x) = IF x \in DownS THEN At(a, x + gone) ELSE At(a, x)
    <3>1. b.off + x >= 0 /\ x <= b.AvMAX
      BY <1>3, <2>4
    <3>2. PICK m \in DOMAIN b.slot : m - b.off = x /\ At(b, x) = b.slot[m] /\ At(downc, x) = downs[m]
      BY <1>4, <2>1, <3>1, SlotsAt
    <3>3. downs[m] = IF x \in DownS THEN At(a, x + gone) ELSE b.slot[m]
      BY <2>2, <3>2
    <3> QED BY <1>4, <3>2, <3>3
  <2> HIDE DEF downc
  <2>5. /\ Block(down) /\ down.off = a.off /\ down.AvMAX = a.AvMAX
        /\ down.AvFILLp = a.AvFILLp - gone
        /\ \A x \in Int :
             a.off + x >= 0 /\ x <= a.AvMAX => At(down, x) = IF x \in DownE THEN NoElem ELSE At(downc, x)
    <3>1. down = PutNull(downc, DownE)
      OBVIOUS
    <3> HIDE DEF down, DownE
    <3>2. /\ Block(down) /\ down.off = downc.off /\ down.AvMAX = downc.AvMAX /\ down.AvFILLp = downc.AvFILLp
          /\ \A x \in Int :
               downc.off + x >= 0 /\ x <= downc.AvMAX
                 => At(down, x) = IF x \in DownE THEN NoElem ELSE At(downc, x)
      BY <2>3, <3>1, EmptyAt
    <3> QED BY <2>3, <3>2
  <2> HIDE DEF down
  <2>6. down.AvFILLp = a.AvFILLp + n - length /\ down.AvFILLp <= down.AvMAX
    BY <1>0, <1>1, <2>5
  <2>7. ASSUME NEW i \in 0 .. down.AvFILLp
        PROVE  /\ i < offset => At(down, i) = At(a, i)
               /\ offset + n <= i => At(down, i) = At(a, i - n + length)
    <3>0. i \in Int /\ i >= 0 /\ i <= a.AvFILLp - gone
      BY <1>0, <1>1, <2>5
    <3>1. a.off + i >= 0 /\ i <= a.AvMAX /\ i \notin DownE
      <4>1. gone \in Nat /\ a.off \in Nat /\ a.AvMAX \in Int /\ a.AvFILLp \in Int
            /\ a.AvFILLp <= a.AvMAX
        BY <1>0, <1>1
      <4>2. a.off + i >= 0 /\ i <= a.AvMAX
        BY <3>0, <4>1
      <4>3. b.AvFILLp + 1 = a.AvFILLp - gone + 1 /\ b.AvFILLp + 1 \in Int
        BY <1>3, <4>1
      <4>4. ~(a.AvFILLp - gone + 1 <= i)
        BY <3>0, <4>1
      <4> QED BY <4>2, <4>3, <4>4
    <3>2. At(down, i) = IF i \in DownS THEN At(a, i + gone) ELSE At(a, i)
      BY <2>4, <2>5, <3>0, <3>1
    <3>3. ASSUME i < offset PROVE At(down, i) = At(a, i)
      <4>1. i \notin DownS
        BY <1>1, <3>0, <3>3
      <4> QED BY <3>2, <4>1
    <3>4. ASSUME offset + n <= i PROVE At(down, i) = At(a, i - n + length)
      <4>1. i \in DownS /\ i + gone = i - n + length
        BY <1>0, <1>1, <3>0, <3>4
      <4> QED BY <3>2, <4>1
    <3> QED BY <3>3, <3>4
  <2> QED BY <2>5, <2>6, <2>7 DEF Moved
<1> HIDE DEF up, down
<1>7. Moved(moved, a, offset, length, n)
  BY <1>5, <1>6
<1> HIDE DEF moved
<1> QED BY <1>2, <1>7 DEF n

LEMMA ExpandMoved ==
  ASSUME NEW a, Shape(a), NEW offset \in Nat, NEW length \in Nat, NEW new \in Seq(Elem),
         length <= Len(new), offset + length <= a.AvFILLp + 1
  PROVE  \E p : Moved(p, a, offset, length, Len(new))
                /\ Expand(a, offset, length, new) = PutList(p, offset, new)
<1> DEFINE n == Len(new)
           diff == n - length
           after == a.AvFILLp + 1 - (offset + length)
           low == [a EXCEPT !.off = @ - diff, !.AvMAX = @ + diff, !.AvFILLp = @ + diff]
           DownS == 0 .. offset - 1
           downs == [j \in DOMAIN low.slot |->
                       IF j - low.off \in DownS THEN At(a, j - low.off) ELSE low.slot[j]]
           down == [low EXCEPT !.slot = downs]
           b == IF a.AvFILLp + diff >= a.AvMAX THEN av_extend(a, a.AvFILLp + diff) ELSE a
           c == [b EXCEPT !.AvFILLp = @ + diff]
           UpS == offset + n .. offset + n + after - 1
           ups == [j \in DOMAIN c.slot |->
                     IF j - c.off \in UpS THEN At(b, j - c.off - diff) ELSE c.slot[j]]
           up == [c EXCEPT !.slot = ups]
           IsDown == diff > 0 /\ offset < after /\ diff <= a.off
           moved == CASE diff = 0 -> a
                      [] IsDown -> down
                      [] OTHER -> up
<1>0. /\ a.off \in Nat /\ a.AvMAX \in Int /\ a.AvFILLp \in Int
      /\ -1 <= a.AvFILLp /\ a.AvFILLp <= a.AvMAX
  BY DEF Shape
<1>1. n \in Nat /\ diff \in Nat /\ n = length + diff
      /\ after \in Nat /\ offset + length + after = a.AvFILLp + 1
  BY <1>0
<1>2. Expand(a, offset, length, new) = PutList(moved, offset, new)
  BY DEF Expand, PutList, Put
<1> HIDE DEF n, diff, after
<1>b. Block(a)
  BY ShapeIsBlock
<1>3. ASSUME diff = 0 PROVE Moved(a, a, offset, length, n)
  <2>1. n = length
    BY <1>1, <1>3
  <2>2. a.AvFILLp = a.AvFILLp + n - length
    BY <1>0, <2>1
  <2>3. ASSUME NEW i \in 0 .. a.AvFILLp
        PROVE  At(a, i) = At(a, i - n + length)
    <3>1. i = i - n + length
      BY <2>1
    <3> QED BY <3>1
  <2> QED BY <1>0, <1>b, <2>2, <2>3 DEF Moved
<1>4. ASSUME IsDown PROVE Moved(down, a, offset, length, n)
  <2>1. /\ DOMAIN low = Fields /\ low.slot = a.slot /\ low.off = a.off - diff
        /\ low.AvMAX = a.AvMAX + diff /\ low.AvFILLp = a.AvFILLp + diff
    BY DEF Shape, Fields
  <2> HIDE DEF low
  <2>2. low.off \in Nat /\ low.off - a.off = 0 - diff
    <3>1. diff <= a.off
      BY <1>4
    <3>2. diff \in Nat /\ a.off \in Nat
      BY <1>0, <1>1
    <3>3. low.off = a.off - diff
      BY <2>1
    <3> QED BY <3>1, <3>2, <3>3
  <2>3. low.AvMAX \in Int /\ low.AvFILLp \in Int /\ low.AvFILLp <= low.AvMAX
        /\ low.AvFILLp = a.AvFILLp + n - length
    <3>1. low.AvMAX = a.AvMAX + diff /\ low.AvFILLp = a.AvFILLp + diff
      BY <2>1
    <3>2. diff \in Nat /\ n \in Nat /\ n = length + diff
      BY <1>1
    <3> QED BY <1>0, <3>1, <3>2
  <2>4. low.off + low.AvMAX = a.off + a.AvMAX
    BY <1>0, <1>1, <2>1
  <2>5. Block(low)
    BY <1>b, <2>1, <2>2, <2>3, <2>4 DEF Block
  <2>6. DOMAIN downs = DOMAIN low.slot
    OBVIOUS
  <2>7. \A m \in DOMAIN low.slot :
          downs[m] = IF m - low.off \in DownS THEN At(a, m - low.off) ELSE low.slot[m]
    OBVIOUS
  <2> HIDE DEF downs
  <2>8. /\ Block(down) /\ down.off = low.off /\ down.AvMAX = low.AvMAX
        /\ down.AvFILLp = low.AvFILLp
    BY <2>5, <2>6, SlotsBlock
  <2>9. ASSUME NEW i \in Int, i >= 0, i <= low.AvMAX
        PROVE  At(down, i) = IF i \in DownS THEN At(a, i) ELSE At(a, i - diff)
    <3>1. low.off + i >= 0
      BY <2>2, <2>9
    <3>2. PICK m \in DOMAIN low.slot :
            m - low.off = i /\ At(low, i) = low.slot[m] /\ At(down, i) = downs[m]
      BY <2>5, <2>6, <2>9, <3>1, SlotsAt
    <3>3. downs[m] = IF i \in DownS THEN At(a, i) ELSE low.slot[m]
      BY <2>7, <3>2
    <3>4. At(low, i) = At(a, low.off - a.off + i)
      BY <1>b, <2>1, <2>2, <2>3, <2>4, WindowAt
    <3>5. low.off - a.off + i = i - diff
      BY <1>1, <2>2
    <3> QED BY <3>2, <3>3, <3>4, <3>5
  <2> HIDE DEF down
  <2>10. ASSUME NEW i \in 0 .. down.AvFILLp
         PROVE  /\ i < offset => At(down, i) = At(a, i)
                /\ offset + n <= i => At(down, i) = At(a, i - n + length)
    <3>1. i \in Int /\ i >= 0 /\ i <= low.AvMAX
      BY <2>3, <2>8
    <3>2. At(down, i) = IF i \in DownS THEN At(a, i) ELSE At(a, i - diff)
      BY <2>9, <3>1
    <3>3. i < offset => i \in DownS
      BY <3>1
    <3>4. offset + n <= i => i \notin DownS /\ i - diff = i - n + length
      BY <1>1, <3>1
    <3> QED BY <3>2, <3>3, <3>4
  <2>11. down.AvFILLp = a.AvFILLp + n - length /\ down.AvFILLp <= down.AvMAX
    BY <2>3, <2>8
  <2> QED BY <2>8, <2>10, <2>11 DEF Moved
<1>5. Moved(up, a, offset, length, n)
  <2>0. a.AvFILLp + diff \in Int
    BY <1>0, <1>1
  <2>1. /\ Shape(b) /\ b.AvMAX >= a.AvFILLp + diff /\ b.AvFILLp = a.AvFILLp
        /\ \A i \in 0 .. a.AvFILLp : At(b, i) = At(a, i)
    <3>1. CASE a.AvFILLp + diff >= a.AvMAX
      <4>1. b = av_extend(a, a.AvFILLp + diff)
        BY <3>1
      <4>2. PICK key \in Int : key = a.AvFILLp + diff
        BY <2>0
      <4>3. \A i \in 0 .. a.AvFILLp : At(av_extend(a, key), i) = At(a, i)
        BY ExtendAt
      <4>4. /\ Shape(av_extend(a, key)) /\ av_extend(a, key).AvMAX >= key
            /\ av_extend(a, key).AvFILLp = a.AvFILLp
        BY ExtendKeeps
      <4> QED BY <4>1, <4>2, <4>3, <4>4
    <3>2. CASE ~(a.AvFILLp + diff >= a.AvMAX)
      <4>1. b = a /\ a.AvMAX >= a.AvFILLp + diff
        BY <1>0, <2>0, <3>2
      <4> QED BY <4>1
    <3> QED BY <3>1, <3>2
  <2> HIDE DEF b
  <2>2. Block(b)
    BY <2>1, ShapeIsBlock
  <2>3. /\ DOMAIN c = Fields /\ c.slot = b.slot /\ c.off = b.off /\ c.AvMAX = b.AvMAX
        /\ c.AvFILLp = a.AvFILLp + diff
    BY <2>1, <2>2 DEF Block, Fields
  <2> HIDE DEF c
  <2>4. Block(c) /\ \A x : At(c, x) = At(b, x)
    BY <2>0, <2>2, <2>3 DEF Block, At
  <2>5. DOMAIN ups = DOMAIN c.slot
    OBVIOUS
  <2>6. \A m \in DOMAIN c.slot :
          ups[m] = IF m - c.off \in UpS THEN At(b, m - c.off - diff) ELSE c.slot[m]
    OBVIOUS
  <2> HIDE DEF ups
  <2>7. /\ Block(up) /\ up.off = c.off /\ up.AvMAX = c.AvMAX /\ up.AvFILLp = c.AvFILLp
    BY <2>4, <2>5, SlotsBlock
  <2>8. c.off \in Nat /\ c.AvMAX \in Int /\ c.AvFILLp \in Int /\ c.AvFILLp <= c.AvMAX
    BY <2>0, <2>1, <2>3, <2>4 DEF Block
  <2>9. ASSUME NEW i \in Int, i >= 0, i <= c.AvFILLp
        PROVE  At(up, i) = IF i \in UpS THEN At(b, i - diff) ELSE At(b, i)
    <3>1. c.off + i >= 0 /\ i <= c.AvMAX
      BY <2>8, <2>9
    <3>2. PICK m \in DOMAIN c.slot :
            m - c.off = i /\ At(c, i) = c.slot[m] /\ At(up, i) = ups[m]
      BY <2>4, <2>5, <2>9, <3>1, SlotsAt
    <3>3. ups[m] = IF i \in UpS THEN At(b, i - diff) ELSE c.slot[m]
      BY <2>6, <3>2
    <3> QED BY <2>4, <3>2, <3>3
  <2> HIDE DEF up
  <2>10. ASSUME NEW i \in 0 .. up.AvFILLp
         PROVE  /\ i < offset => At(up, i) = At(a, i)
                /\ offset + n <= i => At(up, i) = At(a, i - n + length)
    <3>1. i \in Int /\ i >= 0 /\ i <= c.AvFILLp
      BY <2>7, <2>8
    <3>2. At(up, i) = IF i \in UpS THEN At(b, i - diff) ELSE At(b, i)
      BY <2>9, <3>1
    <3>3. ASSUME i < offset PROVE At(up, i) = At(a, i)
      <4>1. i \notin UpS /\ i \in 0 .. a.AvFILLp
        BY <1>0, <1>1, <3>1, <3>3
      <4> QED BY <2>1, <3>2, <4>1
    <3>4. ASSUME offset + n <= i PROVE At(up, i) = At(a, i - n + length)
      <4>0. i <= a.AvFILLp + diff
        BY <2>3, <3>1
      <4>1. PICK x \in Int : x = i - diff
        BY <1>1, <3>1
      <4>2. i \in UpS /\ x \in 0 .. a.AvFILLp /\ x = i - n + length
        BY <1>0, <1>1, <3>1, <3>4, <4>0, <4>1
      <4> QED BY <2>1, <3>2, <4>1, <4>2
    <3> QED BY <3>3, <3>4
  <2>11. up.AvFILLp = a.AvFILLp + n - length /\ up.AvFILLp <= up.AvMAX
    <3>1. up.AvFILLp = a.AvFILLp + diff
      BY <2>3, <2>7
    <3> QED BY <1>0, <1>1, <2>7, <2>8, <3>1
  <2> QED BY <2>7, <2>10, <2>11 DEF Moved
<1>6. Moved(moved, a, offset, length, n)
  <2> HIDE DEF down, up, IsDown
  <2>1. CASE diff = 0
    <3>0. ~IsDown
      BY <1>1, <2>1 DEF IsDown
    <3>1. moved = a
      BY <2>1, <3>0
    <3>2. Moved(a, a, offset, length, n)
      BY <1>3, <2>1
    <3> HIDE DEF moved
    <3> QED BY <3>1, <3>2
  <2>2. CASE diff # 0
    <3>1. moved = IF IsDown THEN down ELSE up
      BY <2>2
    <3> HIDE DEF moved
    <3> QED BY <1>4, <1>5, <3>1
  <2> QED BY <2>1, <2>2
<1> HIDE DEF moved
<1> QED BY <1>2, <1>6 DEF n

LEMMA SpliceLists ==
  ASSUME NEW a, Shape(a), NEW offset \in Nat, NEW len \in Nat, NEW new \in Seq(Elem),
         offset <= a.AvFILLp + 1, NEW r, r = pp_splice(a, offset, len, new)
  PROVE  ListOf(r) = Spliced(ListOf(a), offset, Min({len, a.AvFILLp + 1 - offset}), new)
<1> DEFINE rest == a.AvFILLp + 1 - offset
           length == Min({len, rest})
           b == IF a.slot = <<>> /\ len > length THEN av_extend(a, 0) ELSE a
<1>1. a.AvFILLp \in Int /\ rest \in Nat
  BY DEF Shape
<1>2. length \in Nat /\ length <= rest
  <2> HIDE DEF rest
  <2>1. len \in Int /\ rest \in Int
    BY <1>1
  <2>2. length \in {len, rest} /\ length <= rest
    BY <2>1, MinOfTwo
  <2> QED BY <1>1, <2>2
<1>3. offset + length <= a.AvFILLp + 1
  BY <1>1, <1>2
<1>4. r = IF length > Len(new) THEN Shrink(b, offset, length, new)
                               ELSE Expand(b, offset, length, new)
  BY DEF pp_splice
<1>5. Shape(r)
  BY SpliceKeeps
<1>6. Shape(b) /\ b.AvFILLp = a.AvFILLp /\ ListOf(b) = ListOf(a)
  <2> HIDE DEF length
  <2>1. CASE a.slot = <<>> /\ len > length
    <3>0. PICK key \in Int : key = 0
      OBVIOUS
    <3>1. PICK q : q = av_extend(a, key)
      OBVIOUS
    <3>2. Shape(q) /\ q.AvFILLp = a.AvFILLp
      BY <3>1, ExtendKeeps
    <3>3. \A i \in 0 .. a.AvFILLp : At(q, i) = At(a, i)
      <4>1. \A i \in 0 .. a.AvFILLp : At(av_extend(a, key), i) = At(a, i)
        BY ExtendAt
      <4> QED BY <3>1, <4>1
    <3>4. ListOf(q) = ListOf(a)
      <4>1. /\ ListOf(a) \in Seq(Values) /\ Len(ListOf(a)) = a.AvFILLp + 1
            /\ \A i \in 1 .. a.AvFILLp + 1 : ListOf(a)[i] = At(a, i - 1)
        BY ListIs
      <4>2. ASSUME NEW i \in 1 .. q.AvFILLp + 1 PROVE At(q, i - 1) = ListOf(a)[i]
        <5>1. i \in 1 .. a.AvFILLp + 1 /\ i - 1 \in 0 .. a.AvFILLp
          BY <1>1, <3>2
        <5> QED BY <3>3, <4>1, <5>1
      <4> QED BY <3>2, <4>1, <4>2, SameList
    <3> QED BY <2>1, <3>0, <3>1, <3>2, <3>4
  <2>2. CASE ~(a.slot = <<>> /\ len > length)
    BY <2>2
  <2> QED BY <2>1, <2>2
<1> HIDE DEF length, rest, b
<1>7. Len(new) \in Nat
  OBVIOUS
<1>8. offset + length <= b.AvFILLp + 1
  BY <1>3, <1>6
<1>9. PICK p : Moved(p, b, offset, length, Len(new)) /\ r = PutList(p, offset, new)
  <2>1. CASE length > Len(new)
    BY <1>2, <1>4, <1>6, <1>8, <2>1, ShrinkMoved
  <2>2. CASE ~(length > Len(new))
    <3>1. length <= Len(new)
      BY <1>2, <1>7, <2>2
    <3> QED BY <1>2, <1>4, <1>6, <1>8, <2>2, <3>1, ExpandMoved
  <2> QED BY <2>1, <2>2
<1>10. ListOf(r) = Spliced(ListOf(b), offset, length, new)
  BY <1>2, <1>5, <1>6, <1>8, <1>9, MovedLists
<1> QED BY <1>6, <1>10 DEF length, rest

-----------------------------------------------------------------------------
(* The actions do what those of a list do.                                  *)

LEMMA StoreIs ==
  ASSUME ArrayInv, ~Slack, NEW k \in Nat, NEW v \in Elem, Store(k, v)
  PROVE  Abstract!Store(k, v)
<1>1. /\ Shape(av) /\ Tidy(av) /\ v \in Values /\ ~HasSlack(av, k)
      /\ av' = av_store(av, k, v)
  BY DEF ArrayInv, Values, Store, MayGrow, Becomes
<1>2. ListOf(av') = Stored(ListOf(av), k, v)
  BY <1>1, StoreLists
<1> QED BY <1>2 DEF Abstract!Store, ListOf, Stored

LEMMA PushIs ==
  ASSUME ArrayInv, ~Slack, NEW v \in Elem, Push(v)
  PROVE  Abstract!Push(v)
<1>1. PICK k \in Nat : k = av.AvFILLp + 1
  BY DEF ArrayInv, Shape
<1>2. Abstract!Store(k, v)
  BY <1>1, StoreIs DEF Push
<1>3. Len(ListOf(av)) = k
  BY <1>1, ListIs DEF ArrayInv
<1> QED BY <1>2, <1>3 DEF Abstract!Push, ListOf

LEMMA PopIs ==
  ASSUME ArrayInv, Pop
  PROVE  Abstract!Pop
<1>1. Shape(av) /\ av.AvFILLp >= 0 /\ av' = av_pop(av)
  BY DEF ArrayInv, Pop, Becomes
<1>2. ListOf(av') = SubSeq(ListOf(av), 1, Len(ListOf(av)) - 1)
  BY <1>1, PopLists
<1>3. Len(ListOf(av)) = av.AvFILLp + 1 /\ av.AvFILLp \in Int
  BY <1>1, ListIs, Window
<1>4. ListOf(av) # <<>>
  <2>1. Len(ListOf(av)) # 0
    BY <1>1, <1>3
  <2> QED BY <2>1
<1> QED BY <1>2, <1>4 DEF Abstract!Pop, Abstract!UpTo, ListOf

LEMMA ShiftIs ==
  ASSUME ArrayInv, Shift
  PROVE  Abstract!Shift
<1>1. Shape(av) /\ av.AvFILLp >= 0 /\ av' = av_shift(av)
  BY DEF ArrayInv, Shift, Becomes
<1>2. ListOf(av') = SubSeq(ListOf(av), 1 + 1, Len(ListOf(av)))
  BY <1>1, ShiftLists
<1>3. Len(ListOf(av)) = av.AvFILLp + 1 /\ av.AvFILLp \in Int
  BY <1>1, ListIs, Window
<1>4. ListOf(av) # <<>>
  <2>1. Len(ListOf(av)) # 0
    BY <1>1, <1>3
  <2> QED BY <2>1
<1> QED BY <1>2, <1>4 DEF Abstract!Shift, Abstract!After, ListOf

LEMMA UnshiftIs ==
  ASSUME ArrayInv, NEW new \in Seq(Elem), Unshift(new)
  PROVE  Abstract!Unshift(new)
<1>1. Shape(av) /\ av' = pp_unshift(av, new)
  BY DEF ArrayInv, Unshift, Becomes
<1>2. ListOf(av') = new \o ListOf(av)
  BY <1>1, UnshiftLists
<1> QED BY <1>2 DEF Abstract!Unshift, ListOf

LEMMA FillIs ==
  ASSUME ArrayInv, ~Slack, NEW fill \in Int, fill >= -1, Fill(fill)
  PROVE  Abstract!SetLength(fill + 1)
<1>1. Shape(av) /\ Tidy(av) /\ ~HasSlack(av, fill) /\ av' = av_fill(av, fill)
  BY DEF ArrayInv, Fill, MayGrow, Becomes
<1>2. ListOf(av') = WithLength(ListOf(av), fill + 1)
  BY <1>1, FillLists
<1> QED BY <1>2 DEF Abstract!SetLength, Abstract!UpTo, ListOf, WithLength

LEMMA ClearIs ==
  ASSUME ArrayInv, Clear \/ Undef
  PROVE  Abstract!SetLength(0)
<1>1. Shape(av)
  BY DEF ArrayInv
<1>2. ListOf(av') = <<>>
  <2>1. CASE Clear
    <3>1. av' = av_clear(av)
      BY <2>1 DEF Clear, Becomes
    <3> QED BY <1>1, <3>1, ClearLists
  <2>2. CASE Undef
    <3>1. av'.AvFILLp = -1
      BY <2>2 DEF Undef, Becomes, NoBlock
    <3> QED BY <3>1, EmptyLists
  <2> QED BY <2>1, <2>2
<1>3. ListOf(av) \in Seq(Values)
  BY <1>1, ListIs
<1>4. WithLength(ListOf(av), 0) = <<>>
  BY <1>3, NoLength
<1>5. ListOf(av') = WithLength(ListOf(av), 0)
  BY <1>2, <1>4
<1> QED BY <1>5 DEF Abstract!SetLength, Abstract!UpTo, ListOf, WithLength

LEMMA DeleteIs ==
  ASSUME ArrayInv, NEW k \in Nat, DeleteElem(k)
  PROVE  Abstract!Delete(k)
<1>1. Shape(av) /\ k <= av.AvFILLp /\ av' = av_delete(av, k)
  BY DEF ArrayInv, DeleteElem, Becomes
<1>2. ListOf(av') = Deleted(ListOf(av), k)
  BY <1>1, DeleteLists
<1>3. Len(ListOf(av)) = av.AvFILLp + 1 /\ av.AvFILLp \in Int
  BY <1>1, ListIs, Window
<1>4. k < Len(ListOf(av))
  BY <1>1, <1>3
<1>5. \A S : Abstract!Max(S) = Max(S)
  BY SameMax
<1> QED BY <1>2, <1>4, <1>5 DEF Abstract!Delete, Abstract!UpTo, ListOf, Deleted

LEMMA SpliceIs ==
  ASSUME ArrayInv, NEW offset \in Nat, NEW len \in Nat, NEW new \in Seq(Elem),
         Splice(offset, len, new)
  PROVE  Abstract!Splice(offset, len, new)
<1>1. Shape(av) /\ offset <= av.AvFILLp + 1 /\ av' = pp_splice(av, offset, len, new)
  BY DEF ArrayInv, Splice, Becomes
<1>2. ListOf(av') = Spliced(ListOf(av), offset, Min({len, av.AvFILLp + 1 - offset}), new)
  BY <1>1, SpliceLists
<1>3. Len(ListOf(av)) = av.AvFILLp + 1
  BY <1>1, ListIs
<1>4. \A S : Abstract!Min(S) = Min(S)
  BY DEF Abstract!Min, Min
<1>5. ListOf(av') = Spliced(ListOf(av), offset, Abstract!Min({len, Len(ListOf(av)) - offset}), new)
  <2>1. Len(ListOf(av)) - offset = av.AvFILLp + 1 - offset
    <3>1. PICK l : l = Len(ListOf(av))
      OBVIOUS
    <3>2. l = av.AvFILLp + 1
      BY <1>3, <3>1
    <3>3. av.AvFILLp \in Int
      BY <1>1, Window
    <3>4. l - offset = av.AvFILLp + 1 - offset
      BY <3>2, <3>3
    <3> QED BY <3>1, <3>4
  <2>2. PICK S : S = {len, av.AvFILLp + 1 - offset}
    OBVIOUS
  <2>3. S = {len, Len(ListOf(av)) - offset}
    BY <2>1, <2>2
  <2>4. ListOf(av') = Spliced(ListOf(av), offset, Min(S), new)
    BY <1>2, <2>2
  <2>5. ListOf(av') = Spliced(ListOf(av), offset, Abstract!Min(S), new)
    BY <1>4, <2>4
  <2> QED BY <2>3, <2>5
<1>6. offset <= Len(ListOf(av))
  BY <1>1, <1>3
<1> QED BY <1>5, <1>6 DEF Abstract!Splice, Abstract!UpTo, Abstract!After, ListOf, Spliced

LEMMA EachIs ==
  ASSUME ArrayInv, ~Slack, ArrayNext
  PROVE  EachDoesItsOwn
<1>0. /\ MaxIndex \in Nat /\ av.AvFILLp \in Int
      /\ \A new \in Lists : new \in Seq(Elem)
  BY ArrayAssumption DEF ArrayInv, Shape, ArrayAssumption
<1>1. ASSUME NEW k \in 0 .. MaxIndex, NEW v \in Elem, Store(k, v) PROVE Abstract!Store(k, v)
  BY <1>0, <1>1, StoreIs
<1>2. ASSUME NEW v \in Elem, Push(v) PROVE Abstract!Push(v)
  BY <1>2, PushIs
<1>3. ASSUME NEW new \in Lists, Unshift(new) PROVE Abstract!Unshift(new)
  BY <1>0, <1>3, UnshiftIs
<1>4. ASSUME NEW fill \in -1 .. MaxIndex, Fill(fill) PROVE Abstract!SetLength(fill + 1)
  <2>1. fill \in Int /\ fill >= -1
    BY <1>0
  <2> QED BY <1>4, <2>1, FillIs
<1>5. ASSUME NEW k \in 0 .. MaxIndex, DeleteElem(k) PROVE Abstract!Delete(k)
  BY <1>0, <1>5, DeleteIs
<1> QED BY <1>1, <1>2, <1>3, <1>4, <1>5, PopIs, ShiftIs, ClearIs DEF EachDoesItsOwn

LEMMA NextIs ==
  ASSUME ArrayInv, ~Slack, ArrayNext
  PROVE  Abstract!Operation
<1>0. /\ MaxIndex \in Nat /\ av.AvFILLp \in Int
      /\ \A new \in Lists : new \in Seq(Elem)
  BY ArrayAssumption DEF ArrayInv, Shape, ArrayAssumption
<1>e. EachDoesItsOwn
  BY EachIs
<1>1. ASSUME NEW k \in 0 .. MaxIndex, NEW v \in Elem, Store(k, v) PROVE Abstract!Operation
  BY <1>e, <1>1 DEF EachDoesItsOwn, Abstract!Operation
<1>2. ASSUME NEW v \in Elem, Push(v) PROVE Abstract!Operation
  BY <1>e, <1>2 DEF EachDoesItsOwn, Abstract!Operation
<1>3. ASSUME Pop \/ Shift PROVE Abstract!Operation
  BY <1>e, <1>3 DEF EachDoesItsOwn, Abstract!Operation
<1>4. ASSUME NEW new \in Lists, Unshift(new) PROVE Abstract!Operation
  BY <1>e, <1>4 DEF EachDoesItsOwn, Abstract!Operation
<1>5. ASSUME NEW n \in 0 .. MaxIndex + 1, Abstract!SetLength(n) PROVE Abstract!Operation
  BY <1>5 DEF Abstract!Operation
<1>6. ASSUME NEW fill \in -1 .. MaxIndex, Fill(fill) PROVE Abstract!Operation
  <2>1. fill + 1 \in 0 .. MaxIndex + 1
    BY <1>0
  <2>2. Abstract!SetLength(fill + 1)
    BY <1>e, <1>6 DEF EachDoesItsOwn
  <2> QED BY <1>5, <2>1, <2>2
<1>7. ASSUME Clear \/ Undef PROVE Abstract!Operation
  <2>1. 0 \in 0 .. MaxIndex + 1
    BY <1>0
  <2>2. Abstract!SetLength(0)
    BY <1>e, <1>7 DEF EachDoesItsOwn
  <2> QED BY <1>5, <2>1, <2>2
<1>8. ASSUME NEW k \in 0 .. MaxIndex, DeleteElem(k) PROVE Abstract!Operation
  BY <1>e, <1>8 DEF EachDoesItsOwn, Abstract!Operation
<1>9. ASSUME NEW offset \in 0 .. MaxIndex, NEW len \in 0 .. MaxIndex, NEW new \in Lists,
             Splice(offset, len, new)
      PROVE  Abstract!Operation
  <2>1. Abstract!Splice(offset, len, new)
    BY <1>0, <1>9, SpliceIs
  <2> QED BY <2>1 DEF Abstract!Operation
<1> QED BY <1>1, <1>2, <1>3, <1>4, <1>6, <1>7, <1>8, <1>9 DEF ArrayNext

\* As long as no array with spare slots at both ends is made larger, arrays
\* do what a list promises, whatever is moved within the block or to a larger
\* one, and each operation but splice() what its own name says.
THEOREM ArraysAreLists == ~Slack => (ArraySpec => IsAList)
<1> SUFFICES ASSUME ~Slack PROVE ArraySpec => IsAList
  OBVIOUS
<1>1. ArrayInit => [i \in 1 .. av.AvFILLp + 1 |-> At(av, i - 1)] = <<>>
  <2> SUFFICES ASSUME ArrayInit PROVE ListOf(av) = <<>>
    BY DEF ListOf
  <2>1. av.AvFILLp = -1
    BY DEF ArrayInit, NoBlock
  <2> QED BY <2>1, EmptyLists
<1>2. ArrayInv /\ [ArrayNext]_av
        => [Abstract!Next]_([i \in 1 .. av.AvFILLp + 1 |-> At(av, i - 1)])
  <2> SUFFICES ASSUME ArrayInv, [ArrayNext]_av
               PROVE  [Abstract!Next]_([i \in 1 .. av.AvFILLp + 1 |-> At(av, i - 1)])
    OBVIOUS
  <2>1. CASE ArrayNext
    <3>1. Abstract!Operation
      BY <2>1, NextIs
    <3> QED BY <3>1 DEF Abstract!Next
  <2>2. CASE UNCHANGED av
    BY <2>2
  <2> QED BY <2>1, <2>2
<1>3. ArrayInv /\ [ArrayNext]_av => [EachDoesItsOwn]_av
  BY EachIs
<1> QED BY <1>1, <1>2, <1>3, InitArray, NextArray, PTL DEF ArraySpec, IsAList, Abstract!Spec

-----------------------------------------------------------------------------
(* Signal handlers inside the system calls of a handle.                    *)

\* The handle is not a terminal's, and no handler takes off one layer alone.
Plain == ~LineBuffered /\ ~HandlerPops

\* The handle is there with both of its layers.
Whole == f.ifp /\ f.isOpen /\ f.top = "on" /\ f.unix = "on"

\* The handler has closed the handle, the layers wait for perlio_async_run().
ClosedInUse ==
  ~f.ifp /\ ~f.isOpen /\ f.top = "cleared" /\ f.unix = "cleared" /\ ~f.buf

\* Between two steps of the functions that are active the handle is whole,
\* with the buffer that they use; a handler may have closed it.
ActiveIsWhole ==
  /\ op.at \in {"write", "read", "flush", "syscall"} => Whole
  /\ op.at \in {"write", "read", "syscall"} => f.buf
  /\ op.at = "flush" => f.buf \/ op.name = "close"
  /\ op.at = "handler" => (Whole /\ f.buf) \/ ClosedInUse

\* The layers are in use while a handler runs, and then only.
LockedInHandler == f.lockcnt = IF op.at = "handler" THEN 1 ELSE 0

\* Which functions are active for what, and no flush goes unchecked.
CallIsOfMode ==
  /\ op.at = "write" => op.name = "print" /\ f.mode = "w"
  /\ op.at = "read" => op.name = "read" /\ f.mode = "r"
  /\ op.at = "flush" => op.name \in {"print", "close"} /\ (op.name = "print" => f.mode = "w")
  /\ op.at \in {"syscall", "handler"} =>
       IF f.mode = "w" THEN op.name \in {"print", "close"} ELSE op.name = "read"
  /\ op.line = 0 /\ ~op.unchecked

AsyncInv ==
  AsyncTypeOK /\ ActiveIsWhole /\ LockedInHandler /\ CallIsOfMode /\ IdleIsWhole

LEMMA Places ==
  AsyncTypeOK => /\ op.at \in {"idle", "write", "flush", "read", "syscall", "handler"}
                 /\ op.name \in {"", "print", "read", "close"}
                 /\ f.mode \in {"r", "w"}
  BY DEF AsyncTypeOK, Handles, Calls

-----------------------------------------------------------------------------
(* The values of the fields.                                               *)

LEMMA Numbers ==
  ASSUME AsyncTypeOK
  PROVE  /\ f.lockcnt \in Nat /\ f.n \in 0 .. BufSize
         /\ op.count \in 0 .. MaxCount /\ op.line \in 0 .. MaxCount
         /\ op.p \in 0 .. BufSize /\ op.asked \in 0 .. BufSize
         /\ BufSize \in Nat \ {0} /\ MaxCount \in Nat
  BY AsyncAssumption DEF AsyncAssumption, AsyncTypeOK, Handles, Calls

LEMMA NewNumber ==
  ASSUME NEW h \in Handles, NEW x \in 0 .. BufSize
  PROVE  [h EXCEPT !.n = x] \in Handles
  BY DEF Handles

LEMMA NewLock ==
  ASSUME NEW h \in Handles, NEW x \in Nat
  PROVE  [h EXCEPT !.lockcnt = x] \in Handles
  BY DEF Handles

LEMMA NoOpIsCall == NoOp \in Calls
<1>1. 0 \in 0 .. BufSize /\ 0 \in 0 .. MaxCount
  BY AsyncAssumption DEF AsyncAssumption
<1> QED
  BY <1>1 DEF NoOp, Calls

LEMMA LeastIs ==
  ASSUME NEW i \in Int, NEW j \in Int
  PROVE  Least(i, j) \in {i, j} /\ Least(i, j) <= i /\ Least(i, j) <= j
  BY DEF Least

LEMMA InvHolds == AsyncInv => HandlersAreHarmless
<1> SUFFICES ASSUME AsyncInv PROVE HandlersAreHarmless
  OBVIOUS
<1>1. op.at \in {"idle", "write", "flush", "read", "syscall", "handler"}
  BY Places DEF AsyncInv
<1>2. op.at # "idle" => f.top # "gone"
  BY <1>1 DEF AsyncInv, ActiveIsWhole, Whole, ClosedInUse
<1>3. op.at = "syscall" => f.buf /\ f.unix = "on"
  BY DEF AsyncInv, ActiveIsWhole, Whole
<1>4. op.at = "write" => f.buf
  BY DEF AsyncInv, ActiveIsWhole
<1> QED
  BY <1>2, <1>3, <1>4 DEF AsyncInv, HandlersAreHarmless, UsesLiveMemory

LEMMA InitInv == AsyncInit => AsyncInv
<1> SUFFICES ASSUME op = NoOp, NEW mode \in {"r", "w"}, f = Fresh(mode) PROVE AsyncInv
  BY DEF AsyncInit
<1>1. AsyncTypeOK
  <2>1. 0 \in 0 .. BufSize /\ 0 \in 0 .. MaxCount /\ 0 \in Nat
    BY AsyncAssumption
  <2>2. f \in Handles
    BY <2>1 DEF Fresh, Handles, Layers
  <2>3. ~f.buf => f.n = 0
    BY DEF Fresh
  <2>4. op \in Calls
    BY <2>1 DEF NoOp, Calls
  <2> QED
    BY <2>2, <2>3, <2>4 DEF AsyncTypeOK
<1>2. ActiveIsWhole /\ LockedInHandler /\ IdleIsWhole
  BY DEF ActiveIsWhole, LockedInHandler, IdleIsWhole, Fresh, NoOp
<1>3. CallIsOfMode
  BY DEF CallIsOfMode, NoOp
<1> QED
  BY <1>1, <1>2, <1>3 DEF AsyncInv

LEMMA AsyncWriteKeeps ==
  ASSUME AsyncInv, NEW count \in 1 .. MaxCount, AsyncWrite(count, 0)
  PROVE  AsyncInv'
<1>1. f' \in Handles
  BY DEF AsyncInv, AsyncTypeOK, Handles, AsyncWrite, Usable, NoOp
<1>2. ~f'.buf => f'.n = 0
  BY DEF AsyncInv, AsyncTypeOK, Handles, ActiveIsWhole, AsyncWrite, Usable, NoOp
<1>3. op' \in Calls
  <2>1. count \in 0 .. MaxCount /\ 0 \in 0 .. MaxCount /\ 0 \in 0 .. BufSize
    BY Numbers DEF AsyncInv
  <2>2. op' = [at |-> "write", name |-> "print", count |-> count, line |-> 0,
               p |-> 0, asked |-> 0, unchecked |-> FALSE]
    BY DEF AsyncWrite, NoOp
  <2> QED
    BY <2>1, <2>2 DEF Calls
<1>4. ActiveIsWhole'
  BY DEF AsyncInv, IdleIsWhole, AsyncTypeOK, Handles, Calls, ActiveIsWhole, Whole,
         ClosedInUse,
         AsyncWrite, Usable, NoOp
<1>5. LockedInHandler'
  BY DEF AsyncInv, AsyncTypeOK, Handles, Calls, LockedInHandler, AsyncWrite, Usable, NoOp
<1>6. CallIsOfMode'
  BY DEF AsyncInv, AsyncTypeOK, Handles, Calls, CallIsOfMode, AsyncWrite, Usable, NoOp
<1>7. IdleIsWhole'
  BY DEF AsyncInv, AsyncTypeOK, Handles, Calls, IdleIsWhole, AsyncWrite, Usable, NoOp
<1> QED
  BY <1>1, <1>2, <1>3, <1>4, <1>5, <1>6, <1>7 DEF AsyncInv, AsyncTypeOK

LEMMA AsyncReadKeeps ==
  ASSUME AsyncInv, NEW count \in 1 .. MaxCount, AsyncRead(count)
  PROVE  AsyncInv'
<1>1. f' \in Handles
  BY DEF AsyncInv, AsyncTypeOK, Handles, AsyncRead, Usable, NoOp
<1>2. ~f'.buf => f'.n = 0
  BY DEF AsyncInv, AsyncTypeOK, Handles, ActiveIsWhole, AsyncRead, Usable, NoOp
<1>3. op' \in Calls
  <2>1. count \in 0 .. MaxCount /\ 0 \in 0 .. MaxCount /\ 0 \in 0 .. BufSize
    BY Numbers DEF AsyncInv
  <2>2. op' = [at |-> "read", name |-> "read", count |-> count, line |-> 0,
               p |-> 0, asked |-> 0, unchecked |-> FALSE]
    BY DEF AsyncRead, NoOp
  <2> QED
    BY <2>1, <2>2 DEF Calls
<1>4. ActiveIsWhole'
  BY DEF AsyncInv, IdleIsWhole, AsyncTypeOK, Handles, Calls, ActiveIsWhole, Whole,
         ClosedInUse,
         AsyncRead, Usable, NoOp
<1>5. LockedInHandler'
  BY DEF AsyncInv, AsyncTypeOK, Handles, Calls, LockedInHandler, AsyncRead, Usable, NoOp
<1>6. CallIsOfMode'
  BY DEF AsyncInv, AsyncTypeOK, Handles, Calls, CallIsOfMode, AsyncRead, Usable, NoOp
<1>7. IdleIsWhole'
  BY DEF AsyncInv, AsyncTypeOK, Handles, Calls, IdleIsWhole, AsyncRead, Usable, NoOp
<1> QED
  BY <1>1, <1>2, <1>3, <1>4, <1>5, <1>6, <1>7 DEF AsyncInv, AsyncTypeOK

LEMMA CloseKeeps ==
  ASSUME AsyncInv, Close
  PROVE  AsyncInv'
<1>1. f' \in Handles
  BY DEF AsyncInv, AsyncTypeOK, Handles, Close, Usable, NoOp
<1>2. ~f'.buf => f'.n = 0
  BY DEF AsyncInv, AsyncTypeOK, Handles, ActiveIsWhole, Close, Usable, NoOp
<1>3. op' \in Calls
  BY NoOpIsCall DEF Close, Calls
<1>4. ActiveIsWhole'
  BY DEF AsyncInv, IdleIsWhole, AsyncTypeOK, Handles, Calls, ActiveIsWhole, Whole,
         ClosedInUse,
         Close, Usable, NoOp
<1>5. LockedInHandler'
  BY DEF AsyncInv, AsyncTypeOK, Handles, Calls, LockedInHandler, Close, Usable, NoOp
<1>6. CallIsOfMode'
  BY DEF AsyncInv, AsyncTypeOK, Handles, Calls, CallIsOfMode, Close, Usable, NoOp
<1>7. IdleIsWhole'
  BY DEF AsyncInv, AsyncTypeOK, Handles, Calls, IdleIsWhole, Close, Usable, NoOp
<1> QED
  BY <1>1, <1>2, <1>3, <1>4, <1>5, <1>6, <1>7 DEF AsyncInv, AsyncTypeOK

LEMMA OpenKeeps ==
  ASSUME AsyncInv, Open
  PROVE  AsyncInv'
<1>1. f' \in Handles
  <2>1. 0 \in 0 .. BufSize /\ 0 \in Nat
    BY AsyncAssumption DEF AsyncAssumption
  <2> QED
    BY <2>1 DEF Open, Fresh, Handles, Layers
<1>2. ~f'.buf => f'.n = 0
  BY DEF Open, Fresh
<1>3. op' \in Calls
  BY DEF AsyncInv, AsyncTypeOK, Calls, Open, Fresh
<1>4. ActiveIsWhole'
  BY DEF AsyncInv, AsyncTypeOK, Handles, Calls, ActiveIsWhole, Whole, ClosedInUse,
         Open, Fresh
<1>5. LockedInHandler'
  BY DEF Open, Fresh, LockedInHandler
<1>6. CallIsOfMode'
  BY DEF AsyncInv, AsyncTypeOK, Handles, Calls, CallIsOfMode, Open, Fresh
<1>7. IdleIsWhole'
  BY DEF Open, Fresh, IdleIsWhole
<1> QED
  BY <1>1, <1>2, <1>3, <1>4, <1>5, <1>6, <1>7 DEF AsyncInv, AsyncTypeOK

\* Without lines that end, a turn of the write loop fills the buffer.
LEMMA PlainTurn ==
  ASSUME AsyncInv, WriteTurn,
         NEW take, take = Least(op.count, BufSize - f.n)
  PROVE  /\ f' = [f EXCEPT !.n = f.n + take]
         /\ op' = [op EXCEPT !.count = op.count - take, !.line = 0,
                             !.at = IF f.n + take = BufSize THEN "flush" ELSE "write",
                             !.unchecked = FALSE, !.p = 0]
<1>1. op.line = 0
  BY DEF AsyncInv, CallIsOfMode
<1>2. (op.line > 0 /\ op.line <= take) = FALSE
  BY <1>1
<1>3. (IF op.line = 0 THEN 0 ELSE op.line - take) = 0
  BY <1>1
<1> DEFINE turn(eol, moved) ==
      /\ f' = [f EXCEPT !.n = f.n + moved]
      /\ op' = [op EXCEPT !.count = op.count - moved,
                          !.line = IF op.line = 0 THEN 0 ELSE op.line - moved,
                          !.at = IF eol \/ f.n + moved = BufSize THEN "flush" ELSE "write",
                          !.unchecked = eol, !.p = 0]
<1>4. turn(op.line > 0 /\ op.line <= take,
           IF op.line > 0 /\ op.line <= take THEN op.line ELSE take)
  BY Zenon DEF WriteTurn
<1>5. turn(FALSE, take)
  BY <1>2, <1>4, Zenon
<1> QED
  BY <1>3, <1>5, Zenon

LEMMA WriteTurnKeeps ==
  ASSUME AsyncInv, WriteTurn
  PROVE  AsyncInv'
<1>1. f' \in Handles
  <2>1. f.n + Least(op.count, BufSize - f.n) \in 0 .. BufSize
    BY Numbers DEF AsyncInv, Least
  <2>2. f' = [f EXCEPT !.n = f.n + Least(op.count, BufSize - f.n)]
    BY PlainTurn
  <2> QED
    BY <2>1, <2>2, NewNumber DEF AsyncInv, AsyncTypeOK
<1>2. ~f'.buf => f'.n = 0
  BY DEF AsyncInv, AsyncTypeOK, Handles, ActiveIsWhole, WriteTurn, Least
<1>3. op' \in Calls
  <2> DEFINE take == Least(op.count, BufSize - f.n)
  <2>1. op' = [op EXCEPT !.count = op.count - take, !.line = 0,
                         !.at = IF f.n + take = BufSize THEN "flush" ELSE "write",
                         !.unchecked = FALSE, !.p = 0]
    BY PlainTurn
  <2>2. op.count - take \in 0 .. MaxCount /\ 0 \in 0 .. MaxCount /\ 0 \in 0 .. BufSize
    BY Numbers DEF AsyncInv, Least
  <2>3. (IF f.n + take = BufSize THEN "flush" ELSE "write") \in {"flush", "write"}
    OBVIOUS
  <2> HIDE DEF take
  <2> QED
    BY <2>1, <2>2, <2>3 DEF AsyncInv, AsyncTypeOK, Calls
<1>4. ActiveIsWhole'
  BY DEF AsyncInv, AsyncTypeOK, Handles, Calls, ActiveIsWhole, Whole, ClosedInUse,
         WriteTurn, Least
<1>5. LockedInHandler'
  BY DEF AsyncInv, AsyncTypeOK, Handles, Calls, LockedInHandler, WriteTurn, Least
<1>6. CallIsOfMode'
  <2> DEFINE take == Least(op.count, BufSize - f.n)
  <2>1. op' = [op EXCEPT !.count = op.count - take, !.line = 0,
                         !.at = IF f.n + take = BufSize THEN "flush" ELSE "write",
                         !.unchecked = FALSE, !.p = 0]
    BY PlainTurn
  <2> HIDE DEF take
  <2>2. f'.mode = "w" /\ op.name = "print"
    BY DEF AsyncInv, AsyncTypeOK, Handles, CallIsOfMode, WriteTurn
  <2>3. op'.name = op.name /\ op'.at \in {"flush", "write"} /\ op'.line = 0 /\ ~op'.unchecked
    BY <2>1 DEF AsyncInv, AsyncTypeOK, Calls
  <2> QED
    BY <2>2, <2>3 DEF CallIsOfMode
<1>7. IdleIsWhole'
  BY DEF AsyncInv, AsyncTypeOK, Handles, Calls, IdleIsWhole, WriteTurn, Least
<1> QED
  BY <1>1, <1>2, <1>3, <1>4, <1>5, <1>6, <1>7 DEF AsyncInv, AsyncTypeOK

LEMMA WriteEndsKeeps ==
  ASSUME AsyncInv, WriteEnds
  PROVE  AsyncInv'
<1>1. f' \in Handles
  BY DEF AsyncInv, AsyncTypeOK, Handles, WriteEnds, NoOp
<1>2. ~f'.buf => f'.n = 0
  BY DEF AsyncInv, AsyncTypeOK, Handles, ActiveIsWhole, WriteEnds, NoOp
<1>3. op' \in Calls
  BY NoOpIsCall DEF WriteEnds
<1>4. ActiveIsWhole'
  BY DEF AsyncInv, AsyncTypeOK, Handles, Calls, ActiveIsWhole, Whole, ClosedInUse,
         WriteEnds, NoOp
<1>5. LockedInHandler'
  BY DEF AsyncInv, AsyncTypeOK, Handles, Calls, LockedInHandler, WriteEnds, NoOp
<1>6. CallIsOfMode'
  BY DEF AsyncInv, AsyncTypeOK, Handles, Calls, CallIsOfMode, WriteEnds, NoOp
<1>7. IdleIsWhole'
  BY DEF AsyncInv, ActiveIsWhole, Whole, LockedInHandler, AsyncTypeOK, Handles,
         Calls, IdleIsWhole, WriteEnds, NoOp
<1> QED
  BY <1>1, <1>2, <1>3, <1>4, <1>5, <1>6, <1>7 DEF AsyncInv, AsyncTypeOK

LEMMA ReadTurnKeeps ==
  ASSUME AsyncInv, ReadTurn
  PROVE  AsyncInv'
<1>1. f' \in Handles
  <2>1. f.n - Least(op.count, f.n) \in 0 .. BufSize
    BY Numbers DEF AsyncInv, Least
  <2> QED
    BY <2>1, NewNumber DEF AsyncInv, AsyncTypeOK, ReadTurn
<1>2. ~f'.buf => f'.n = 0
  BY DEF AsyncInv, AsyncTypeOK, Handles, ActiveIsWhole, ReadTurn, Least, NoOp
<1>3. op' \in Calls
  <2>1. op.count - Least(op.count, f.n) \in 0 .. MaxCount /\ BufSize \in 0 .. BufSize
    BY Numbers DEF AsyncInv, Least
  <2> QED
    BY <2>1, NoOpIsCall DEF AsyncInv, AsyncTypeOK, Calls, ReadTurn
<1>4. ActiveIsWhole'
  BY DEF AsyncInv, AsyncTypeOK, Handles, Calls, ActiveIsWhole, Whole, ClosedInUse,
         ReadTurn, Least, NoOp
<1>5. LockedInHandler'
  BY DEF AsyncInv, AsyncTypeOK, Handles, Calls, LockedInHandler, ReadTurn, Least, NoOp
<1>6. CallIsOfMode'
  BY DEF AsyncInv, AsyncTypeOK, Handles, Calls, CallIsOfMode, ReadTurn, Least, NoOp
<1>7. IdleIsWhole'
  BY DEF AsyncInv, ActiveIsWhole, Whole, LockedInHandler, AsyncTypeOK, Handles,
         Calls, IdleIsWhole, ReadTurn, Least, NoOp
<1> QED
  BY <1>1, <1>2, <1>3, <1>4, <1>5, <1>6, <1>7 DEF AsyncInv, AsyncTypeOK

LEMMA FlushTurnKeeps ==
  ASSUME AsyncInv, FlushTurn
  PROVE  AsyncInv'
<1>1. f' \in Handles
  BY DEF AsyncInv, AsyncTypeOK, Handles, FlushTurn
<1>2. ~f'.buf => f'.n = 0
  BY DEF AsyncInv, AsyncTypeOK, Handles, ActiveIsWhole, FlushTurn
<1>3. op' \in Calls
  <2>1. f.n - op.p \in 0 .. BufSize
    BY Numbers DEF AsyncInv, FlushTurn
  <2> QED
    BY <2>1 DEF AsyncInv, AsyncTypeOK, Calls, FlushTurn
<1>4. ActiveIsWhole'
  <2>1. f.n # 0
    BY Numbers DEF AsyncInv, FlushTurn
  <2>2. f.buf /\ Whole
    BY <2>1 DEF AsyncInv, AsyncTypeOK, ActiveIsWhole, FlushTurn
  <2>3. op'.at = "syscall" /\ f' = f
    BY DEF AsyncInv, AsyncTypeOK, Calls, FlushTurn
  <2> QED
    BY <2>2, <2>3 DEF ActiveIsWhole, Whole
<1>5. LockedInHandler'
  BY DEF AsyncInv, AsyncTypeOK, Handles, Calls, LockedInHandler, FlushTurn
<1>6. CallIsOfMode'
  BY DEF AsyncInv, AsyncTypeOK, Handles, Calls, CallIsOfMode, FlushTurn
<1>7. IdleIsWhole'
  BY DEF AsyncInv, AsyncTypeOK, Handles, Calls, IdleIsWhole, FlushTurn
<1> QED
  BY <1>1, <1>2, <1>3, <1>4, <1>5, <1>6, <1>7 DEF AsyncInv, AsyncTypeOK

LEMMA TransferredKeeps ==
  ASSUME AsyncInv, NEW k \in 1 .. BufSize, Transferred(k)
  PROVE  AsyncInv'
<1>1. f' \in Handles
  BY NewNumber DEF AsyncInv, AsyncTypeOK, Transferred
<1>2. ~f'.buf => f'.n = 0
  BY DEF AsyncInv, AsyncTypeOK, Handles, ActiveIsWhole, Transferred, Least
<1>3. op' \in Calls
  <2>1. Least(BufSize, op.p + k) \in 0 .. BufSize
    BY Numbers DEF AsyncInv, Least
  <2>2. 0 \in 0 .. BufSize
    BY Numbers DEF AsyncInv
  <2> QED
    BY <2>1, <2>2 DEF AsyncInv, AsyncTypeOK, Calls, Transferred
<1>4. ActiveIsWhole'
  BY DEF AsyncInv, AsyncTypeOK, Handles, Calls, ActiveIsWhole, Whole, ClosedInUse,
         Transferred, Least
<1>5. LockedInHandler'
  BY DEF AsyncInv, AsyncTypeOK, Handles, Calls, LockedInHandler, Transferred, Least
<1>6. CallIsOfMode'
  BY DEF AsyncInv, AsyncTypeOK, Handles, Calls, CallIsOfMode, Transferred, Least
<1>7. IdleIsWhole'
  BY DEF AsyncInv, AsyncTypeOK, Handles, Calls, IdleIsWhole, Transferred, Least
<1> QED
  BY <1>1, <1>2, <1>3, <1>4, <1>5, <1>6, <1>7 DEF AsyncInv, AsyncTypeOK

LEMMA InterruptedKeeps ==
  ASSUME AsyncInv, Interrupted
  PROVE  AsyncInv'
<1>1. f' \in Handles
  BY Numbers, NewLock DEF AsyncInv, AsyncTypeOK, Interrupted
<1>2. ~f'.buf => f'.n = 0
  BY DEF AsyncInv, AsyncTypeOK, Handles, ActiveIsWhole, Interrupted
<1>3. op' \in Calls
  BY DEF AsyncInv, AsyncTypeOK, Calls, Interrupted
<1>4. ActiveIsWhole'
  BY DEF AsyncInv, AsyncTypeOK, Handles, Calls, ActiveIsWhole, Whole, ClosedInUse,
         Interrupted
<1>5. LockedInHandler'
  <2>1. f.lockcnt = 0 /\ op'.at = "handler"
    BY DEF AsyncInv, AsyncTypeOK, Calls, LockedInHandler, Interrupted
  <2>2. f'.lockcnt = f.lockcnt + 1
    BY DEF AsyncInv, AsyncTypeOK, Handles, Interrupted
  <2> QED
    BY <2>1, <2>2 DEF LockedInHandler
<1>6. CallIsOfMode'
  BY DEF AsyncInv, AsyncTypeOK, Handles, Calls, CallIsOfMode, Interrupted
<1>7. IdleIsWhole'
  BY DEF AsyncInv, AsyncTypeOK, Handles, Calls, IdleIsWhole, Interrupted
<1> QED
  BY <1>1, <1>2, <1>3, <1>4, <1>5, <1>6, <1>7 DEF AsyncInv, AsyncTypeOK

LEMMA HandlerFlushKeeps ==
  ASSUME AsyncInv, HandlerFlush
  PROVE  AsyncInv'
<1>1. f' \in Handles
  BY Numbers, NewNumber DEF AsyncInv, AsyncTypeOK, HandlerFlush, FlushedInUse
<1>2. ~f'.buf => f'.n = 0
  BY DEF AsyncInv, AsyncTypeOK, Handles, ActiveIsWhole, HandlerFlush, InHandler,
         FlushedInUse
<1>3. op' \in Calls
  BY DEF AsyncInv, AsyncTypeOK, Calls, HandlerFlush, InHandler, FlushedInUse
<1>4. ActiveIsWhole'
  BY DEF AsyncInv, AsyncTypeOK, Handles, Calls, ActiveIsWhole, Whole, ClosedInUse,
         HandlerFlush, InHandler, FlushedInUse
<1>5. LockedInHandler'
  BY DEF AsyncInv, AsyncTypeOK, Handles, Calls, LockedInHandler, HandlerFlush,
         InHandler, FlushedInUse
<1>6. CallIsOfMode'
  BY DEF AsyncInv, AsyncTypeOK, Handles, Calls, CallIsOfMode, HandlerFlush, InHandler,
         FlushedInUse
<1>7. IdleIsWhole'
  BY DEF AsyncInv, AsyncTypeOK, Handles, Calls, IdleIsWhole, HandlerFlush, InHandler,
         FlushedInUse
<1> QED
  BY <1>1, <1>2, <1>3, <1>4, <1>5, <1>6, <1>7 DEF AsyncInv, AsyncTypeOK

LEMMA HandlerWritesKeeps ==
  ASSUME AsyncInv, NEW count \in 1 .. MaxCount, HandlerWrites(count)
  PROVE  AsyncInv'
<1>1. f' \in Handles
  <2>1. (IF f.n + count < BufSize THEN f.n + count ELSE 0) \in 0 .. BufSize
    BY Numbers DEF AsyncInv
  <2> QED
    BY <2>1, NewNumber DEF AsyncInv, AsyncTypeOK, HandlerWrites
<1>2. ~f'.buf => f'.n = 0
  BY DEF AsyncInv, Whole, ClosedInUse, AsyncTypeOK, Handles, ActiveIsWhole,
         HandlerWrites, InHandler
<1>3. op' \in Calls
  BY DEF AsyncInv, AsyncTypeOK, Calls, HandlerWrites, InHandler
<1>4. ActiveIsWhole'
  BY DEF AsyncInv, AsyncTypeOK, Handles, Calls, ActiveIsWhole, Whole, ClosedInUse,
         HandlerWrites, InHandler
<1>5. LockedInHandler'
  BY DEF AsyncInv, AsyncTypeOK, Handles, Calls, LockedInHandler, HandlerWrites, InHandler
<1>6. CallIsOfMode'
  BY DEF AsyncInv, AsyncTypeOK, Handles, Calls, CallIsOfMode, HandlerWrites, InHandler
<1>7. IdleIsWhole'
  BY DEF AsyncInv, AsyncTypeOK, Handles, Calls, IdleIsWhole, HandlerWrites, InHandler
<1> QED
  BY <1>1, <1>2, <1>3, <1>4, <1>5, <1>6, <1>7 DEF AsyncInv, AsyncTypeOK

\* A handler that closes a whole handle leaves layers that are in use.
LEMMA ClosedByHandler ==
  ASSUME NEW h \in Handles, h.lockcnt = 1, h.unix = "on"
  PROVE  Closed(h) = [h EXCEPT !.isOpen = FALSE, !.unix = "cleared", !.buf = FALSE,
                               !.n = 0, !.top = "cleared", !.ifp = FALSE]
<1> DEFINE u == [h EXCEPT !.isOpen = FALSE, !.unix = "cleared"]
<1>1. ASSUME NEW g, NEW layer, g.lockcnt = 1
      PROVE  Popped(g, layer) = [g EXCEPT ![layer] = "cleared"]
  BY <1>1 DEF Popped
<1>2. [h EXCEPT !.isOpen = FALSE].lockcnt = 1 /\ BufReleased(u).lockcnt = 1
  BY DEF BufReleased, Handles
<1>3. Popped([h EXCEPT !.isOpen = FALSE], "unix") = u
  BY <1>1, <1>2 DEF Handles
<1>4. Popped(BufReleased(u), "top") = [BufReleased(u) EXCEPT !.top = "cleared"]
  BY <1>1, <1>2 DEF Handles
<1>5. Closed(h) = [[BufReleased(u) EXCEPT !.top = "cleared"] EXCEPT !.ifp = FALSE]
  BY <1>3, <1>4 DEF Closed
<1> QED
  BY <1>5 DEF BufReleased, Handles

LEMMA HandlerClosesKeeps ==
  ASSUME AsyncInv, HandlerRemoves("close")
  PROVE  AsyncInv'
<1>1. f' \in Handles
  <2>1. FlushedInUse(f) \in Handles
    BY Numbers, NewNumber DEF AsyncInv, AsyncTypeOK, FlushedInUse
  <2>2. FlushedInUse(f).lockcnt = 1 /\ FlushedInUse(f).unix = "on"
    BY DEF AsyncInv, AsyncTypeOK, Handles, LockedInHandler, ActiveIsWhole, Whole, ClosedInUse,
           HandlerRemoves, InHandler, FlushedInUse
  <2>3. f' = [FlushedInUse(f) EXCEPT !.isOpen = FALSE, !.unix = "cleared", !.buf = FALSE,
                                     !.n = 0, !.top = "cleared", !.ifp = FALSE]
    BY <2>1, <2>2, ClosedByHandler DEF HandlerRemoves
  <2>4. 0 \in 0 .. BufSize
    BY Numbers DEF AsyncInv
  <2> QED
    BY <2>1, <2>3, <2>4 DEF Handles, Layers
<1>2. ~f'.buf => f'.n = 0
  BY DEF AsyncInv, AsyncTypeOK, Handles, ActiveIsWhole, HandlerRemoves, InHandler,
         FlushedInUse, Closed, Popped, BufReleased
<1>3. op' \in Calls
  BY DEF AsyncInv, AsyncTypeOK, Calls, HandlerRemoves, InHandler, FlushedInUse, Closed,
         Popped, BufReleased
<1>4. ActiveIsWhole'
  <2>1. FlushedInUse(f) \in Handles
    BY Numbers, NewNumber DEF AsyncInv, AsyncTypeOK, FlushedInUse
  <2>2. FlushedInUse(f).lockcnt = 1 /\ FlushedInUse(f).unix = "on"
    BY DEF AsyncInv, AsyncTypeOK, Handles, LockedInHandler, ActiveIsWhole, Whole, ClosedInUse,
           HandlerRemoves, InHandler, FlushedInUse
  <2>3. f' = [FlushedInUse(f) EXCEPT !.isOpen = FALSE, !.unix = "cleared", !.buf = FALSE,
                                     !.n = 0, !.top = "cleared", !.ifp = FALSE]
    BY <2>1, <2>2, ClosedByHandler DEF HandlerRemoves
  <2>4. ClosedInUse'
    BY <2>1, <2>3 DEF ClosedInUse, Handles
  <2> QED
    BY <2>4 DEF ActiveIsWhole, HandlerRemoves, InHandler
<1>5. LockedInHandler'
  BY DEF AsyncInv, AsyncTypeOK, Handles, Calls, LockedInHandler, HandlerRemoves,
         InHandler, FlushedInUse, Closed, Popped, BufReleased
<1>6. CallIsOfMode'
  BY DEF AsyncInv, AsyncTypeOK, Handles, Calls, CallIsOfMode, HandlerRemoves,
         InHandler, FlushedInUse, Closed, Popped, BufReleased
<1>7. IdleIsWhole'
  BY DEF AsyncInv, AsyncTypeOK, Handles, Calls, IdleIsWhole, HandlerRemoves, InHandler,
         FlushedInUse, Closed, Popped, BufReleased
<1> QED
  BY <1>1, <1>2, <1>3, <1>4, <1>5, <1>6, <1>7 DEF AsyncInv, AsyncTypeOK

LEMMA HandlerDiesKeeps ==
  ASSUME AsyncInv, HandlerDies
  PROVE  AsyncInv'
<1>1. f' \in Handles
  <2>1. f.lockcnt - 1 \in Nat
    BY DEF AsyncInv, LockedInHandler, HandlerDies
  <2> QED
    BY <2>1, NewLock DEF AsyncInv, AsyncTypeOK, HandlerDies
<1>2. ~f'.buf => f'.n = 0
  BY DEF AsyncInv, AsyncTypeOK, Handles, ActiveIsWhole, HandlerDies, NoOp
<1>3. op' \in Calls
  BY NoOpIsCall DEF HandlerDies
<1>4. ActiveIsWhole'
  BY DEF AsyncInv, AsyncTypeOK, Handles, Calls, ActiveIsWhole, Whole, ClosedInUse,
         HandlerDies, NoOp
<1>5. LockedInHandler'
  <2>1. f.lockcnt = 1 /\ op'.at = "idle"
    BY DEF AsyncInv, LockedInHandler, HandlerDies, NoOp
  <2>2. f'.lockcnt = f.lockcnt - 1
    BY DEF AsyncInv, AsyncTypeOK, Handles, HandlerDies
  <2> QED
    BY <2>1, <2>2 DEF LockedInHandler
<1>6. CallIsOfMode'
  BY DEF AsyncInv, AsyncTypeOK, Handles, Calls, CallIsOfMode, HandlerDies, NoOp
<1>7. IdleIsWhole'
  <2>1. f' = [f EXCEPT !.lockcnt = @ - 1] /\ f'.lockcnt = 0
    BY <1>5 DEF LockedInHandler, HandlerDies, NoOp
  <2>2. /\ f'.ifp = f.ifp /\ f'.isOpen = f.isOpen /\ f'.top = f.top /\ f'.unix = f.unix
        /\ f'.buf = f.buf
    BY <2>1 DEF AsyncInv, AsyncTypeOK, Handles
  <2>3. (Whole /\ f.buf) \/ ClosedInUse
    BY DEF AsyncInv, ActiveIsWhole, HandlerDies
  <2> QED
    BY <2>1, <2>2, <2>3 DEF Whole, ClosedInUse, IdleIsWhole
<1> QED
  BY <1>1, <1>2, <1>3, <1>4, <1>5, <1>6, <1>7 DEF AsyncInv, AsyncTypeOK

-----------------------------------------------------------------------------
(* The ends of a flush, well or not.                                       *)

\* A handle that close() is done with, whether or not a handler has closed it
\* in the meantime.
LEMMA ClosedAfterUse ==
  ASSUME NEW h \in Handles, h.lockcnt = 0,
         h.unix = "on" \/ (h.unix = "gone" /\ ~h.isOpen)
  PROVE  /\ Closed(h) \in Handles
         /\ Closed(h).lockcnt = 0 /\ Closed(h).n = 0
         /\ ~Closed(h).ifp /\ ~Closed(h).isOpen /\ ~Closed(h).buf
         /\ Closed(h).unix = "gone" /\ Closed(h).top = "gone"
<1> DEFINE u == IF h.unix = "on" THEN [h EXCEPT !.isOpen = FALSE, !.unix = "gone"] ELSE h
<1>1. ASSUME NEW g, NEW layer, g.lockcnt = 0
      PROVE  Popped(g, layer) = [g EXCEPT ![layer] = "gone"]
  BY <1>1 DEF Popped
<1>2. [h EXCEPT !.isOpen = FALSE].lockcnt = 0 /\ BufReleased(u).lockcnt = 0
  BY DEF BufReleased, Handles
<1>3. Popped([h EXCEPT !.isOpen = FALSE], "unix") = [h EXCEPT !.isOpen = FALSE, !.unix = "gone"]
  BY <1>1, <1>2 DEF Handles
<1>4. Popped(BufReleased(u), "top") = [BufReleased(u) EXCEPT !.top = "gone"]
  BY <1>1, <1>2
<1>5. Closed(h) = [[BufReleased(u) EXCEPT !.top = "gone"] EXCEPT !.ifp = FALSE]
  BY <1>3, <1>4 DEF Closed
<1>6. u \in Handles /\ ~u.isOpen /\ u.unix = "gone"
  BY DEF Handles, Layers
<1>7. 0 \in 0 .. BufSize
  BY AsyncAssumption DEF AsyncAssumption
<1> HIDE DEF u
<1> QED
  BY <1>2, <1>5, <1>6, <1>7 DEF BufReleased, Handles, Layers

LEMMA BackKeeps ==
  ASSUME AsyncInv, NEW h \in Handles, NEW ok \in BOOLEAN, Back(h, ok),
         h.lockcnt = 0, h.n = 0 \/ h.buf,
         \/ h.ifp /\ h.isOpen /\ h.top = "on" /\ h.unix = "on"
         \/ ~ok /\ ~h.ifp /\ ~h.isOpen /\ h.top = "cleared" /\ h.unix = "gone" /\ ~h.buf,
         op.name \in {"print", "close"}, op.name = "print" => h.mode = "w",
         ok /\ op.name = "print" => h.buf
  PROVE  AsyncInv'
<1>1. CASE op.name = "close"
  <2>1. f' = Closed(h) /\ op' = NoOp
    BY <1>1 DEF Back
  <2>2. /\ f' \in Handles /\ f'.lockcnt = 0 /\ f'.n = 0
        /\ ~f'.ifp /\ ~f'.isOpen /\ ~f'.buf /\ f'.unix = "gone" /\ f'.top = "gone"
    BY <2>1, ClosedAfterUse
  <2>3. ActiveIsWhole' /\ LockedInHandler' /\ CallIsOfMode' /\ IdleIsWhole'
    BY <2>1, <2>2
    DEF ActiveIsWhole, LockedInHandler, CallIsOfMode, IdleIsWhole, NoOp
  <2> QED
    BY <2>1, <2>2, <2>3, NoOpIsCall DEF AsyncInv, AsyncTypeOK
<1>2. CASE op.name = "print" /\ ok
  <2>1. f' = h /\ op' = [op EXCEPT !.at = "write"]
    BY <1>2 DEF Back
  <2>2. op' \in Calls
    BY <2>1 DEF AsyncInv, AsyncTypeOK, Calls
  <2>3. op'.at = "write" /\ op'.name = "print" /\ op'.line = 0 /\ ~op'.unchecked
    BY <1>2, <2>1 DEF AsyncInv, AsyncTypeOK, CallIsOfMode, Calls
  <2>4. ActiveIsWhole' /\ LockedInHandler' /\ CallIsOfMode' /\ IdleIsWhole'
    BY <1>2, <2>1, <2>3
    DEF ActiveIsWhole, Whole, LockedInHandler, CallIsOfMode, IdleIsWhole
  <2> QED
    BY <2>1, <2>2, <2>4 DEF AsyncInv, AsyncTypeOK
<1>3. CASE op.name = "print" /\ ~ok
  <2>1. f' = h /\ op' = NoOp
    BY <1>3 DEF Back, AsyncInv, CallIsOfMode
  <2>2. ActiveIsWhole' /\ LockedInHandler' /\ CallIsOfMode' /\ IdleIsWhole'
    BY <2>1 DEF ActiveIsWhole, LockedInHandler, CallIsOfMode, IdleIsWhole, NoOp
  <2> QED
    BY <2>1, <2>2, NoOpIsCall DEF AsyncInv, AsyncTypeOK
<1> QED
  BY <1>1, <1>2, <1>3

LEMMA Flushed ==
  ASSUME NEW g \in Handles, g.n = 0 \/ g.buf
  PROVE  /\ FlushedInUse(g) \in Handles
         /\ FlushedInUse(g).n = 0 \/ FlushedInUse(g).buf
         /\ \A x \in {"mode", "ifp", "isOpen", "top", "unix", "lockcnt", "buf"} :
              FlushedInUse(g)[x] = g[x]
<1>1. 0 \in 0 .. BufSize
  BY AsyncAssumption DEF AsyncAssumption
<1>2. CASE g.mode = "w"
  <2>1. FlushedInUse(g) = [g EXCEPT !.n = 0]
    BY <1>2 DEF FlushedInUse
  <2> QED
    BY <1>1, <2>1 DEF Handles
<1>3. CASE g.mode # "w"
  <2>1. FlushedInUse(g) = g
    BY <1>3 DEF FlushedInUse
  <2> QED
    BY <2>1
<1> QED
  BY <1>2, <1>3

LEMMA FlushEndsKeeps ==
  ASSUME AsyncInv, FlushEnds
  PROVE  AsyncInv'
<1> DEFINE h == FlushedInUse(f)
<1>1. /\ h \in Handles /\ (h.n = 0 \/ h.buf)
      /\ h.mode = f.mode /\ h.ifp = f.ifp /\ h.isOpen = f.isOpen /\ h.top = f.top
      /\ h.unix = f.unix /\ h.lockcnt = f.lockcnt /\ h.buf = f.buf
  BY Flushed DEF AsyncInv, AsyncTypeOK
<1>2. Back(h, TRUE)
  BY DEF FlushEnds
<1>3. Whole /\ f.lockcnt = 0
  BY DEF AsyncInv, ActiveIsWhole, LockedInHandler, FlushEnds
<1>4. /\ op.name \in {"print", "close"} /\ (op.name = "print" => f.mode = "w")
      /\ op.name = "print" => f.buf
  BY DEF AsyncInv, ActiveIsWhole, CallIsOfMode, FlushEnds
<1> HIDE DEF h
<1> QED
  BY <1>1, <1>2, <1>3, <1>4, BackKeeps DEF Whole

LEMMA SyscallFailsKeeps ==
  ASSUME AsyncInv, SyscallFails
  PROVE  AsyncInv'
<1>1. Whole /\ f.lockcnt = 0 /\ Fails(f)
  BY DEF AsyncInv, ActiveIsWhole, LockedInHandler, SyscallFails
<1>2. CASE f.mode = "w"
  <2> DEFINE h == FlushedInUse(f)
  <2>1. /\ h \in Handles /\ (h.n = 0 \/ h.buf)
        /\ h.mode = f.mode /\ h.ifp = f.ifp /\ h.isOpen = f.isOpen /\ h.top = f.top
        /\ h.unix = f.unix /\ h.lockcnt = f.lockcnt /\ h.buf = f.buf
    BY Flushed DEF AsyncInv, AsyncTypeOK
  <2>2. Back(h, FALSE)
    BY <1>1, <1>2 DEF Fails
  <2>3. op.name \in {"print", "close"}
    BY <1>2 DEF AsyncInv, CallIsOfMode, SyscallFails
  <2> HIDE DEF h
  <2> QED
    BY <1>1, <1>2, <2>1, <2>2, <2>3, BackKeeps DEF Whole
<1>3. CASE f.mode # "w"
  <2>1. f' = f /\ op' = NoOp
    BY <1>1, <1>3 DEF Fails
  <2>2. ActiveIsWhole' /\ LockedInHandler' /\ CallIsOfMode' /\ IdleIsWhole'
    BY <1>1, <2>1
    DEF Whole, ActiveIsWhole, LockedInHandler, CallIsOfMode, IdleIsWhole, NoOp
  <2> QED
    BY <2>1, <2>2, NoOpIsCall DEF AsyncInv, AsyncTypeOK
<1> QED
  BY <1>2, <1>3

\* When the handler is back, a handle that it closed is not used again.
LEMMA HandlerReturnKeeps ==
  ASSUME AsyncInv, HandlerReturn
  PROVE  AsyncInv'
<1>1. f \in Handles /\ f.lockcnt = 1 /\ op \in Calls
  BY DEF AsyncInv, AsyncTypeOK, LockedInHandler, HandlerReturn
<1>2. CASE Whole /\ f.buf
  <2>1. perlio_async_run(f) = f
    BY <1>2 DEF perlio_async_run, Whole
  <2>2. f' = [f EXCEPT !.lockcnt = @ - 1] /\ op' = [op EXCEPT !.at = "syscall"]
    BY <1>1, <1>2, <2>1 DEF HandlerReturn, Whole, Handles
  <2>3. f' \in Handles /\ f'.lockcnt = 0 /\ f'.mode = f.mode /\ Whole' /\ f'.buf /\ f'.n = f.n
    BY <1>1, <1>2, <2>2 DEF Whole, Handles
  <2>4. op' \in Calls /\ op'.at = "syscall" /\ op'.name = op.name /\ op'.line = op.line
        /\ op'.unchecked = op.unchecked
    BY <1>1, <2>2 DEF Calls
  <2>5. CallIsOfMode'
    BY <2>3, <2>4 DEF AsyncInv, CallIsOfMode, HandlerReturn
  <2>6. ActiveIsWhole' /\ LockedInHandler' /\ IdleIsWhole'
    BY <2>3, <2>4 DEF ActiveIsWhole, Whole, LockedInHandler, IdleIsWhole
  <2> QED
    BY <2>3, <2>4, <2>5, <2>6 DEF AsyncInv, AsyncTypeOK
<1>3. CASE ClosedInUse
  <2> DEFINE h == [perlio_async_run(f) EXCEPT !.lockcnt = @ - 1]
  <2>1. perlio_async_run(f) = [f EXCEPT !.unix = "gone"]
    BY <1>3 DEF perlio_async_run, ClosedInUse
  <2>2. /\ h \in Handles /\ h.lockcnt = 0 /\ h.mode = f.mode /\ h.n = f.n
        /\ ~h.ifp /\ ~h.isOpen /\ h.top = "cleared" /\ h.unix = "gone" /\ ~h.buf
    <3>1. [f EXCEPT !.unix = "gone"].lockcnt - 1 = 0
      BY <1>1 DEF Handles
    <3>2. h = [[f EXCEPT !.unix = "gone"] EXCEPT !.lockcnt = 0]
      BY <2>1, <3>1
    <3> HIDE DEF h
    <3> QED
      BY <1>1, <1>3, <3>2 DEF ClosedInUse, Handles, Layers
  <2>3. Fails(h)
    BY <2>2 DEF HandlerReturn
  <2>4. h.n = 0
    BY <1>3, <2>2 DEF AsyncInv, AsyncTypeOK, ClosedInUse
  <2> HIDE DEF h
  <2>5. CASE h.mode = "w"
    <3> DEFINE g == FlushedInUse(h)
    <3>1. /\ g \in Handles /\ (g.n = 0 \/ g.buf)
          /\ g.mode = h.mode /\ g.ifp = h.ifp /\ g.isOpen = h.isOpen /\ g.top = h.top
          /\ g.unix = h.unix /\ g.lockcnt = h.lockcnt /\ g.buf = h.buf
      BY <2>2, <2>4, Flushed
    <3>2. Back(g, FALSE)
      BY <2>3, <2>5 DEF Fails
    <3>3. op.name \in {"print", "close"}
      BY <2>2, <2>5 DEF AsyncInv, CallIsOfMode, HandlerReturn
    <3> HIDE DEF g
    <3> QED
      BY <2>2, <2>5, <3>1, <3>2, <3>3, BackKeeps
  <2>6. CASE h.mode # "w"
    <3>1. f' = h /\ op' = NoOp
      BY <2>3, <2>6 DEF Fails
    <3>2. ActiveIsWhole' /\ LockedInHandler' /\ CallIsOfMode' /\ IdleIsWhole'
      BY <2>2, <3>1 DEF ActiveIsWhole, LockedInHandler, CallIsOfMode, IdleIsWhole, NoOp
    <3> QED
      BY <2>2, <2>4, <3>1, <3>2, NoOpIsCall DEF AsyncInv, AsyncTypeOK
  <2> QED
    BY <2>5, <2>6
<1> QED
  BY <1>2, <1>3 DEF AsyncInv, ActiveIsWhole, HandlerReturn

-----------------------------------------------------------------------------

LEMMA NextInv ==
  ASSUME Plain, AsyncInv, [AsyncNext]_async_vars
  PROVE  AsyncInv'
<1>1. ASSUME NEW count \in 1 .. MaxCount, NEW line \in 0 .. IF LineBuffered THEN count ELSE 0,
             AsyncWrite(count, line)
      PROVE  AsyncInv'
  <2>1. line = 0
    BY DEF Plain
  <2> QED
    BY <1>1, <2>1, AsyncWriteKeeps
<1>2. ASSUME NEW how \in {"close"} \cup IF HandlerPops THEN {"pop"} ELSE {},
             HandlerRemoves(how)
      PROVE  AsyncInv'
  <2>1. how = "close"
    BY DEF Plain
  <2> QED
    BY <1>2, <2>1, HandlerClosesKeeps
<1>3. CASE Handler
  BY <1>2, <1>3, HandlerFlushKeeps, HandlerWritesKeeps, HandlerReturnKeeps, HandlerDiesKeeps
  DEF Handler
<1>4. CASE UNCHANGED async_vars
  BY <1>4
  DEF async_vars, AsyncInv, AsyncTypeOK, ActiveIsWhole, Whole, ClosedInUse, LockedInHandler,
      CallIsOfMode, IdleIsWhole
<1> QED
  BY <1>1, <1>3, <1>4, AsyncReadKeeps, CloseKeeps, OpenKeeps, WriteTurnKeeps, WriteEndsKeeps,
     ReadTurnKeeps, FlushTurnKeeps, FlushEndsKeeps, TransferredKeeps, SyscallFailsKeeps,
     InterruptedKeeps
  DEF AsyncNext

\* The variables of the handle and of the functions active on it keep their
\* types, for any size of the buffer and any lengths.
THEOREM HandleTypes ==
  ASSUME Plain
  PROVE  AsyncSpec => []AsyncTypeOK
<1>1. AsyncInv /\ [AsyncNext]_async_vars => AsyncInv'
  BY NextInv
<1>2. AsyncInv => AsyncTypeOK
  BY DEF AsyncInv
<1> QED
  BY <1>1, <1>2, InitInv, PTL DEF AsyncSpec

\* For any size of the buffer and any lengths, whatever a handler does inside
\* a read, a write or a close: no function uses what has been freed, and the
\* handle is whole or closed when the functions are done.
THEOREM Harmless ==
  ASSUME Plain
  PROVE  AsyncSpec => []HandlersAreHarmless
<1>1. AsyncInv /\ [AsyncNext]_async_vars => AsyncInv'
  BY NextInv
<1> QED
  BY <1>1, InvHolds, InitInv, PTL DEF AsyncSpec

-----------------------------------------------------------------------------
(* Division.                                                               *)

LEMMA Division ==
  ASSUME NEW n \in Int, NEW m \in Int, m > 0
  PROVE  /\ n \div m \in Int /\ n % m \in Int /\ 0 <= n % m /\ n % m < m
         /\ n = m * (n \div m) + (n % m)
<1>1. n \div m \in Int /\ n % m \in Int /\ 0 <= n % m /\ n % m < m
  OBVIOUS
<1>2. (n \div m) * m + (n % m) = n
  <2>1. ASSUME NEW k \in Int, k > 0
        PROVE  (n \div k) * k + (n % k) = n
    BY <2>1, SMTT(60)
  <2> QED BY <2>1
<1> QED BY <1>1, <1>2

LEMMA Quotient ==
  ASSUME NEW m \in Nat, m > 0, NEW q \in Int, NEW r \in Int, 0 <= r, r < m
  PROVE  (m * q + r) % m = r /\ (m * q + r) \div m = q
OBVIOUS

LEMMA SmallRest ==
  ASSUME NEW m \in Nat, NEW n \in Int, 0 <= n, n < m
  PROVE  n % m = n
OBVIOUS

LEMMA NegRest ==
  ASSUME NEW m \in Nat, NEW n \in Int, n < 0, 0 - n <= m
  PROVE  n % m = n + m
OBVIOUS

LEMMA Wrapped ==
  ASSUME NEW m \in Nat, NEW n \in Int, m <= n, n < m + m
  PROVE  n % m = n - m
OBVIOUS

LEMMA Monotone ==
  ASSUME NEW a \in Nat, NEW b \in Nat, NEW c \in Nat, a <= b
  PROVE  a * c <= b * c
OBVIOUS

LEMMA Half ==
  ASSUME NEW m \in Nat
  PROVE  m \div 2 \in Nat /\ 2 * (m \div 2) <= m /\ m <= 2 * (m \div 2) + 1
OBVIOUS

-----------------------------------------------------------------------------
(* Numbers.                                                                   *)

LEMMA Width ==
  /\ M \in Nat /\ M > 0 /\ M % 2 = 0 /\ M = 2 * (M \div 2) /\ M \div 2 \in Nat
  /\ IV_MIN = 0 - M \div 2 /\ IV_MAX = M \div 2 - 1 /\ UV_MAX = M - 1
<1>1. H \in Nat /\ H > 0 /\ H % 2 = 0
  BY ArithAssumption
<1>2. PICK h \in Int : H = 2 * h
  <2>1. \A k \in Nat : k % 2 = 0 => k = 2 * (k \div 2) /\ k \div 2 \in Int
    OBVIOUS
  <2> QED BY <1>1, <2>1
<1>3. M \in Nat /\ M > 0
  BY <1>1 DEF M
<1>4. M = 2 * (h * H)
  BY <1>1, <1>2 DEF M
<1>5. PICK k \in Int : M = 2 * k
  BY <1>1, <1>4
<1>6. M % 2 = 0 /\ M = 2 * (M \div 2) /\ M \div 2 \in Nat
  <2> HIDE DEF M
  <2> QED BY <1>3, <1>5
<1> QED BY <1>3, <1>6 DEF IV_MIN, IV_MAX, UV_MAX

\* What a number is, as a record.
LEMMA NumbersAre ==
  /\ \A n : IV(n).n = n /\ IV(n).is = "IV" /\ UV(n).n = n /\ UV(n).is = "UV"
  /\ \A n \in IV_MIN .. IV_MAX : IV(n) \in Integer
  /\ \A n \in 0 .. UV_MAX : UV(n) \in Integer
  /\ \A a \in Integer : /\ (a.is = "IV" /\ a.n \in IV_MIN .. IV_MAX) \/ (a.is = "UV" /\ a.n \in 0 .. UV_MAX)
                        /\ a.n \in Int
<1>1. \A n : IV(n).n = n /\ IV(n).is = "IV" /\ UV(n).n = n /\ UV(n).is = "UV"
  BY DEF IV, UV
<1>2. (\A n \in IV_MIN .. IV_MAX : IV(n) \in Integer) /\ \A n \in 0 .. UV_MAX : UV(n) \in Integer
  BY DEF IV, UV, Integer
<1>3. \A a \in Integer : (a.is = "IV" /\ a.n \in IV_MIN .. IV_MAX) \/ (a.is = "UV" /\ a.n \in 0 .. UV_MAX)
  BY DEF Integer
<1>4. IV_MIN .. IV_MAX \subseteq Int /\ 0 .. UV_MAX \subseteq Int
  BY Width
<1> QED BY <1>1, <1>2, <1>3, <1>4

LEMMA SETuIs ==
  ASSUME NEW u \in 0 .. UV_MAX
  PROVE  SETu(u) \in Integer /\ SETu(u).n = u
<1>1. CASE u <= IV_MAX
  <2>1. u \in IV_MIN .. IV_MAX
    BY <1>1, Width
  <2> QED BY <1>1, <2>1, NumbersAre DEF SETu
<1>2. CASE ~(u <= IV_MAX)
  BY <1>2, NumbersAre DEF SETu
<1> QED BY <1>1, <1>2

\* A sign and an absolute value become a number.
LEMMA SignedIs ==
  ASSUME NEW ok \in BOOLEAN, NEW u \in 0 .. UV_MAX
  PROVE  Is(Signed(ok, u), IF ok THEN u ELSE 0 - u)
<1>1. CASE ok
  <2>1. u \in IV_MIN .. UV_MAX
    BY Width
  <2> QED BY <1>1, <2>1, SETuIs DEF Signed, Is
<1>2. CASE ~ok /\ u <= M \div 2
  <2>1. 0 - u \in IV_MIN .. IV_MAX /\ 0 - u \in IV_MIN .. UV_MAX
    BY <1>2, Width
  <2> QED BY <1>2, <2>1, NumbersAre DEF Signed, Negated, Is
<1>3. CASE ~ok /\ ~(u <= M \div 2)
  <2>1. 0 - u \notin IV_MIN .. UV_MAX
    BY <1>3, Width
  <2> QED BY <1>3, <2>1 DEF Signed, Negated, Is
<1> QED BY <1>1, <1>2, <1>3

-----------------------------------------------------------------------------
(* Integer operators: operands.                                            *)

LEMMA Quarter ==
  /\ M \div 4 \in Nat /\ M \div 4 > 0 /\ M = 4 * (M \div 4) /\ M \div 2 = 2 * (M \div 4)
  /\ H \in Nat /\ H > 0 /\ H = 2 * (H \div 2) /\ H \div 2 \in Nat
  /\ M = 4 * ((H \div 2) * (H \div 2))
<1>1. H \in Nat /\ H > 0 /\ H % 2 = 0
  BY ArithAssumption
<1>2. PICK h \in Nat : H = 2 * h /\ h = H \div 2
  <2>1. \A k \in Nat : k % 2 = 0 => k = 2 * (k \div 2) /\ k \div 2 \in Nat
    OBVIOUS
  <2> QED BY <1>1, <2>1
<1>3. h > 0
  BY <1>1, <1>2
<1>4. PICK s \in Nat : s = h * h /\ s > 0
  BY <1>2, <1>3
<1>5. M = 4 * s
  <2>1. \A k \in Nat : (2 * k) * (2 * k) = 4 * (k * k)
    OBVIOUS
  <2> QED BY <1>2, <1>4, <2>1 DEF M
<1> HIDE DEF M
<1>6. M \div 4 = s /\ M \div 2 = 2 * s
  BY <1>4, <1>5
<1> QED BY <1>1, <1>2, <1>4, <1>5, <1>6

\* The casts, of a number that fits the other type.
LEMMA Casts ==
  ASSUME NEW n \in Int
  PROVE  /\ 0 <= n /\ n <= UV_MAX => AsUV(n) = n
         /\ n < 0 /\ 0 - n <= M => AsUV(n) = n + M
         /\ n \in IV_MIN .. IV_MAX => AsIV(n) = n
         /\ AsUV(n) \in 0 .. UV_MAX
         /\ AsIV(n) \in IV_MIN .. IV_MAX
<1>1. M \in Nat /\ M > 0 /\ M = 2 * (M \div 2) /\ M \div 2 \in Nat
      /\ IV_MIN = 0 - M \div 2 /\ IV_MAX = M \div 2 - 1 /\ UV_MAX = M - 1
  BY Width
<1> HIDE DEF M, IV_MIN, IV_MAX, UV_MAX
<1>2. 0 <= n /\ n <= UV_MAX => AsUV(n) = n
  BY <1>1, SmallRest DEF AsUV
<1>3. n < 0 /\ 0 - n <= M => AsUV(n) = n + M
  BY <1>1, NegRest DEF AsUV
<1>4. AsUV(n) \in 0 .. UV_MAX
  BY <1>1, Division DEF AsUV
<1>5. n \in IV_MIN .. IV_MAX => AsIV(n) = n
  BY <1>1, <1>2, <1>3 DEF AsIV
<1>6. AsIV(n) \in IV_MIN .. IV_MAX
  BY <1>1, <1>4 DEF AsIV
<1> QED BY <1>2, <1>3, <1>4, <1>5, <1>6

\* The number with a sign and an absolute value.
WithSign(ok, u) == IF ok THEN u ELSE 0 - u

LEMMA SignIs ==
  ASSUME NEW ok \in BOOLEAN, NEW u \in 0 .. UV_MAX
  PROVE  Is(Signed(ok, u), WithSign(ok, u))
BY SignedIs DEF WithSign

\* An operand is its sign and its absolute value.
LEMMA Operand ==
  ASSUME NEW a \in Integer
  PROVE  /\ uvok(a) \in BOOLEAN /\ auv(a) \in 0 .. UV_MAX /\ a.n = WithSign(uvok(a), auv(a))
         /\ ~uvok(a) => auv(a) <= M \div 2 /\ auv(a) > 0
         /\ a.n \in Int
         /\ uvok(a) <=> a.n >= 0
<1>1. M \in Nat /\ M > 0 /\ M = 2 * (M \div 2) /\ M \div 2 \in Nat
      /\ IV_MIN = 0 - M \div 2 /\ IV_MAX = M \div 2 - 1 /\ UV_MAX = M - 1
  BY Width
<1>2. /\ (a.is = "IV" /\ a.n \in IV_MIN .. IV_MAX) \/ (a.is = "UV" /\ a.n \in 0 .. UV_MAX)
      /\ a.n \in Int
  BY NumbersAre
<1> HIDE DEF M, IV_MIN, IV_MAX, UV_MAX
<1>3. uvok(a) \in BOOLEAN
  BY DEF uvok
<1>4. CASE uvok(a)
  <2>1. auv(a) = a.n
    BY <1>4 DEF auv
  <2>2. a.n >= 0 /\ a.n <= UV_MAX
    BY <1>1, <1>2, <1>4 DEF uvok
  <2> QED BY <1>1, <1>2, <1>3, <1>4, <2>1, <2>2 DEF WithSign
<1>5. CASE ~uvok(a)
  <2>1. a.is = "IV" /\ a.n < 0 /\ a.n >= IV_MIN
    BY <1>2, <1>5 DEF uvok
  <2>2. auv(a) = 0 - a.n
    <3>1. 0 - a.n \in Int /\ 0 <= 0 - a.n /\ 0 - a.n <= UV_MAX
      BY <1>1, <1>2, <2>1
    <3>2. AsUV(0 - a.n) = 0 - a.n
      BY <3>1, Casts
    <3> QED BY <3>2, <1>5 DEF auv
  <2> QED BY <1>1, <1>2, <1>3, <1>5, <2>1, <2>2 DEF WithSign
<1> QED BY <1>3, <1>4, <1>5

-----------------------------------------------------------------------------
(* Sums.                                                                   *)

LEMMA SumOfIs ==
  ASSUME NEW xok \in BOOLEAN, NEW x \in 0 .. UV_MAX, NEW yok \in BOOLEAN, NEW y \in 0 .. UV_MAX
  PROVE  Is(SumOf(xok, x, yok, y), WithSign(xok, x) + WithSign(yok, y))
<1>1. M \in Nat /\ M > 0 /\ M = 2 * (M \div 2) /\ M \div 2 \in Nat
      /\ IV_MIN = 0 - M \div 2 /\ IV_MAX = M \div 2 - 1 /\ UV_MAX = M - 1
  BY Width
<1>2. x \in Int /\ y \in Int /\ 0 <= x /\ 0 <= y /\ x <= UV_MAX /\ y <= UV_MAX
  BY <1>1
<1> HIDE DEF M, IV_MIN, IV_MAX, UV_MAX
<1>3. CASE xok = yok /\ x + y <= UV_MAX
  <2>1. AsUV(x + y) = x + y /\ x + y \in 0 .. UV_MAX
    BY <1>1, <1>2, <1>3, Casts
  <2>2. SumOf(xok, x, yok, y) = Signed(xok, x + y)
    BY <1>2, <1>3, <2>1 DEF SumOf
  <2>3. WithSign(xok, x) + WithSign(yok, y) = WithSign(xok, x + y)
    BY <1>2, <1>3 DEF WithSign
  <2>4. Is(Signed(xok, x + y), WithSign(xok, x + y))
    BY <2>1, SignIs
  <2> QED BY <2>2, <2>3, <2>4
<1>4. CASE xok = yok /\ x + y > UV_MAX
  <2>1. AsUV(x + y) = x + y - M
    <3>1. M <= x + y /\ x + y < M + M /\ x + y \in Int
      BY <1>1, <1>2, <1>4
    <3> QED BY <3>1, <1>1, Wrapped DEF AsUV
  <2>2. SumOf(xok, x, yok, y) = Double
    <3>1. ~(AsUV(x + y) >= x)
      BY <2>1, <1>1, <1>2
    <3> QED BY <3>1, <1>4 DEF SumOf
  <2>3. WithSign(xok, x) + WithSign(yok, y) \notin IV_MIN .. UV_MAX
    BY <1>1, <1>2, <1>4 DEF WithSign
  <2> QED BY <2>2, <2>3 DEF Is
<1>5. CASE xok # yok /\ x >= y
  <2>1. AsUV(x - y) = x - y /\ x - y \in 0 .. UV_MAX
    BY <1>1, <1>2, <1>5, Casts
  <2>2. SumOf(xok, x, yok, y) = Signed(xok, x - y)
    BY <1>5, <2>1 DEF SumOf
  <2>3. WithSign(xok, x) + WithSign(yok, y) = WithSign(xok, x - y)
    BY <1>2, <1>5 DEF WithSign
  <2>4. Is(Signed(xok, x - y), WithSign(xok, x - y))
    BY <2>1, SignIs
  <2> QED BY <2>2, <2>3, <2>4
<1>6. CASE xok # yok /\ x < y
  <2>1. AsUV(y - x) = y - x /\ y - x \in 0 .. UV_MAX
    BY <1>1, <1>2, <1>6, Casts
  <2>2. PICK ok \in BOOLEAN : ok = ~xok
    OBVIOUS
  <2>3. SumOf(xok, x, yok, y) = Signed(ok, y - x)
    <3>1. ~(x >= y)
      BY <1>2, <1>6
    <3> QED BY <1>6, <2>1, <2>2, <3>1 DEF SumOf
  <2>4. WithSign(xok, x) + WithSign(yok, y) = WithSign(ok, y - x)
    BY <1>2, <1>6, <2>2 DEF WithSign
  <2>5. Is(Signed(ok, y - x), WithSign(ok, y - x))
    BY <2>1, SignIs
  <2> QED BY <2>3, <2>4, <2>5
<1>7. (x + y <= UV_MAX \/ x + y > UV_MAX) /\ (x >= y \/ x < y)
  BY <1>1, <1>2
<1>8. xok = yok \/ xok # yok
  OBVIOUS
<1> QED BY <1>3, <1>4, <1>5, <1>6, <1>7, <1>8, Zenon

LEMMA SmallIs ==
  ASSUME NEW a \in Integer, Small(a)
  PROVE  a.n \in Int /\ 0 - M \div 4 <= a.n /\ a.n < M \div 4
<1>1. PICK q \in Nat : q = M \div 4 /\ q > 0 /\ M = 4 * q /\ M \div 2 = 2 * q
  BY Quarter
<1>2. IV_MIN = 0 - 2 * q /\ IV_MAX = 2 * q - 1
  BY <1>1, Width
<1>3. a.n \in Int /\ IV_MIN <= a.n /\ a.n <= IV_MAX /\ AsUV(a.n) \div q \in {0, 3}
  <2>1. a.is = "IV" /\ a.n \in Int
    BY NumbersAre DEF Small
  <2>2. a.n \in IV_MIN .. IV_MAX
    BY <2>1, NumbersAre
  <2> QED BY <1>1, <2>1, <2>2 DEF Small
<1> HIDE DEF M, IV_MIN, IV_MAX
<1>4. a.n >= 0 => AsUV(a.n) = a.n
  BY <1>1, <1>2, <1>3, Casts, Width
<1>5. a.n < 0 => AsUV(a.n) = a.n + M
  BY <1>1, <1>2, <1>3, Casts
<1>6. PICK u \in Int : u = AsUV(a.n) /\ u \div q \in {0, 3}
  BY <1>1, <1>3, <1>4, <1>5
<1>7. u = q * (u \div q) + (u % q) /\ 0 <= u % q /\ u % q < q /\ u % q \in Int
  BY <1>1, Division
<1>8. (0 <= u /\ u < q) \/ (3 * q <= u /\ u < 4 * q)
  <2>1. CASE u \div q = 0
    <3>1. q * 0 = 0
      BY <1>1
    <3> QED BY <2>1, <3>1, <1>1, <1>7
  <2>2. CASE u \div q = 3
    BY <2>2, <1>1, <1>7
  <2> QED BY <1>6, <2>1, <2>2
<1> QED BY <1>1, <1>2, <1>3, <1>4, <1>5, <1>6, <1>8

LEMMA SumsExact == ArithTypeOK => SumIsExact
<1> SUFFICES ASSUME ArithTypeOK, Held, NEW b \in Integer
             PROVE  Is(pp_add(sv, b), sv.n + b.n) /\ Is(pp_subtract(sv, b), sv.n - b.n)
  BY DEF SumIsExact
<1>1. sv \in Integer
  BY DEF ArithTypeOK, Held, Double
<1>2. PICK xok \in BOOLEAN, yok \in BOOLEAN, nok \in BOOLEAN :
        xok = uvok(sv) /\ yok = uvok(b) /\ nok = ~uvok(b)
  BY <1>1, Operand
<1>3. PICK x \in 0 .. UV_MAX, y \in 0 .. UV_MAX : x = auv(sv) /\ y = auv(b)
  BY <1>1, Operand
<1>4. /\ sv.n = WithSign(xok, x) /\ b.n = WithSign(yok, y)
      /\ sv.n \in Int /\ b.n \in Int
  BY <1>1, <1>2, <1>3, Operand
<1>5. CASE Small(sv) /\ Small(b)
  <2>1. PICK q \in Nat : q = M \div 4 /\ M = 4 * q /\ M \div 2 = 2 * q
    BY Quarter
  <2>2. /\ IV_MIN = 0 - 2 * q /\ IV_MAX = 2 * q - 1 /\ UV_MAX = 4 * q - 1
        /\ 0 - q <= sv.n /\ sv.n < q /\ 0 - q <= b.n /\ b.n < q
    BY <1>1, <1>5, <2>1, SmallIs, Width
  <2> HIDE DEF M, IV_MIN, IV_MAX, UV_MAX
  <2>3. /\ sv.n + b.n \in IV_MIN .. IV_MAX /\ sv.n - b.n \in IV_MIN .. IV_MAX
        /\ sv.n + b.n \in Int /\ sv.n - b.n \in Int
    BY <1>4, <2>2
  <2>4. AsIV(sv.n + b.n) = sv.n + b.n /\ AsIV(sv.n - b.n) = sv.n - b.n
    BY <2>3, Casts
  <2>5. \A n \in IV_MIN .. IV_MAX : Is(IV(n), n)
    <3>1. \A n \in IV_MIN .. IV_MAX : n \in IV_MIN .. UV_MAX
      BY <2>1, <2>2
    <3> QED BY <3>1, NumbersAre DEF Is
  <2>6. pp_add(sv, b) = IV(sv.n + b.n) /\ pp_subtract(sv, b) = IV(sv.n - b.n)
    BY <1>5, <2>4 DEF pp_add, pp_subtract
  <2> QED BY <2>3, <2>5, <2>6
<1>6. CASE ~(Small(sv) /\ Small(b))
  <2>1. /\ pp_add(sv, b) = SumOf(xok, x, yok, y)
        /\ pp_subtract(sv, b) = SumOf(xok, x, nok, y)
    BY <1>2, <1>3, <1>6 DEF pp_add, pp_subtract
  <2>2. /\ Is(SumOf(xok, x, yok, y), WithSign(xok, x) + WithSign(yok, y))
        /\ Is(SumOf(xok, x, nok, y), WithSign(xok, x) + WithSign(nok, y))
    BY SumOfIs
  <2>3. WithSign(xok, x) + WithSign(nok, y) = sv.n - b.n
    <3>1. y \in Int
      OBVIOUS
    <3>2. WithSign(nok, y) = 0 - b.n
      <4>1. CASE yok
        <5>1. b.n = y /\ WithSign(nok, y) = 0 - y
          BY <1>2, <1>4, <4>1 DEF WithSign
        <5> QED BY <5>1, <3>1
      <4>2. CASE ~yok
        <5>1. b.n = 0 - y /\ WithSign(nok, y) = y
          BY <1>2, <1>4, <4>2 DEF WithSign
        <5> QED BY <5>1, <3>1
      <4> QED BY <4>1, <4>2
    <3> QED BY <1>4, <3>2
  <2> QED BY <1>4, <2>1, <2>2, <2>3
<1> QED BY <1>5, <1>6

-----------------------------------------------------------------------------
(* Products.                                                               *)

LEMMA SignedProduct ==
  ASSUME NEW xok \in BOOLEAN, NEW x \in Nat, NEW yok \in BOOLEAN, NEW y \in Nat
  PROVE  WithSign(xok, x) * WithSign(yok, y) = IF xok = yok THEN x * y ELSE 0 - x * y
<1>1. /\ x * (0 - y) = 0 - x * y /\ (0 - x) * y = 0 - x * y /\ (0 - x) * (0 - y) = x * y
  OBVIOUS
<1>2. CASE xok /\ yok
  BY <1>2 DEF WithSign
<1>3. CASE xok /\ ~yok
  BY <1>1, <1>3 DEF WithSign
<1>4. CASE ~xok /\ yok
  BY <1>1, <1>4 DEF WithSign
<1>5. CASE ~xok /\ ~yok
  BY <1>1, <1>5 DEF WithSign
<1> QED BY <1>2, <1>3, <1>4, <1>5

LEMMA Bounded ==
  ASSUME NEW h \in Nat, NEW a \in Int, NEW b \in Int, 0 - h <= a, a <= h, 0 - h <= b, b <= h
  PROVE  0 - h * h <= a * b /\ a * b <= h * h /\ a * b \in Int
<1>1. \A u \in Nat, v \in Nat : u <= h /\ v <= h => u * v <= h * h /\ u * v \in Nat
  <2> TAKE u \in Nat, v \in Nat
  <2> SUFFICES ASSUME u <= h, v <= h
               PROVE  u * v <= h * h /\ u * v \in Nat
    OBVIOUS
  <2>1. u * v <= h * v
    BY Monotone
  <2>2. v * h <= h * h
    BY Monotone
  <2>3. v * h = h * v /\ u * v \in Nat /\ h * v \in Nat /\ h * h \in Nat
    OBVIOUS
  <2> QED BY <2>1, <2>2, <2>3
<1>2. PICK u \in Nat : u <= h /\ (a = u \/ a = 0 - u)
  <2>1. a \in Nat \/ 0 - a \in Nat
    OBVIOUS
  <2>2. a = 0 - (0 - a)
    OBVIOUS
  <2> QED BY <2>1, <2>2
<1>3. PICK v \in Nat : v <= h /\ (b = v \/ b = 0 - v)
  <2>1. b \in Nat \/ 0 - b \in Nat
    OBVIOUS
  <2>2. b = 0 - (0 - b)
    OBVIOUS
  <2> QED BY <2>1, <2>2
<1>4. /\ u * (0 - v) = 0 - u * v /\ (0 - u) * v = 0 - u * v /\ (0 - u) * (0 - v) = u * v
  OBVIOUS
<1>5. u * v <= h * h /\ u * v \in Nat
  BY <1>1, <1>2, <1>3
<1>6. a * b = u * v \/ a * b = 0 - u * v
  BY <1>2, <1>3, <1>4
<1>7. h * h \in Nat
  OBVIOUS
<1> QED BY <1>5, <1>6, <1>7

\* The product of two absolute values of which one has a high half.
LEMMA LongTimesShortIs ==
  ASSUME NEW x \in 0 .. UV_MAX, NEW y \in Nat, y < H, NEW ok \in BOOLEAN
  PROVE  Is(LongTimesShort(x, y, ok), WithSign(ok, x * y))
<1>1. /\ M \in Nat /\ M > 0 /\ H \in Nat /\ H > 0 /\ M = H * H
      /\ M = 2 * (M \div 2) /\ M \div 2 \in Nat
      /\ IV_MIN = 0 - M \div 2 /\ IV_MAX = M \div 2 - 1 /\ UV_MAX = M - 1
  BY Width, Quarter DEF M
<1>2. PICK hi, lo \in Int : hi = x \div H /\ lo = x % H /\ 0 <= lo /\ lo < H /\ x = H * hi + lo
  BY <1>1, Division
<1> HIDE DEF M, IV_MIN, IV_MAX, UV_MAX
<1>3. hi >= 0 /\ x \in Int
  <2>1. x \in Int /\ x >= 0
    BY <1>1
  <2>2. hi < 0 => H * hi <= 0 - H
    BY <1>1, <1>2
  <2> QED BY <1>1, <1>2, <2>1, <2>2
<1>4. PICK mid, low \in Nat : mid = hi * y /\ low = lo * y
  BY <1>1, <1>2, <1>3
<1>5. x * y = mid * H + low
  <2>1. \A a, b, c, d \in Int : (a * b + c) * d = (b * d) * a + c * d
    OBVIOUS
  <2> QED BY <1>1, <1>2, <1>4, <2>1
<1>6. low < M
  <2>1. low <= H * y /\ H * y = y * H
    BY <1>1, <1>2, <1>4, Monotone
  <2>2. (y + 1) * H <= H * H
    BY <1>1, Monotone
  <2>3. (y + 1) * H = y * H + H
    BY <1>1
  <2> QED BY <1>1, <1>4, <2>1, <2>2, <2>3
<1>7. LongTimesShort(x, y, ok)
        = IF mid < H /\ AsUV(low + AsUV(mid * H)) >= mid * H
            THEN Signed(ok, AsUV(low + AsUV(mid * H))) ELSE Double
  BY <1>2, <1>4 DEF LongTimesShort
<1>8. mid * H \in Nat /\ x * y \in Nat
  BY <1>1, <1>4, <1>5
<1>9. \A n \in Nat : n > UV_MAX => WithSign(ok, n) \notin IV_MIN .. UV_MAX
  BY <1>1 DEF WithSign
<1>10. CASE mid >= H
  <2>1. H * H <= mid * H
    BY <1>1, <1>4, <1>10, Monotone
  <2>2. x * y > UV_MAX
    BY <2>1, <1>1, <1>4, <1>5, <1>8
  <2>3. LongTimesShort(x, y, ok) = Double
    BY <1>1, <1>4, <1>7, <1>10
  <2> QED BY <2>2, <2>3, <1>8, <1>9 DEF Is
<1>11. CASE mid < H
  <2>1. mid * H <= UV_MAX
    <3>1. (mid + 1) * H <= H * H
      BY <1>1, <1>4, <1>11, Monotone
    <3>2. (mid + 1) * H = mid * H + H
      BY <1>1, <1>4
    <3> QED BY <3>1, <3>2, <1>1, <1>8
  <2>2. AsUV(mid * H) = mid * H
    BY <2>1, <1>8, Casts
  <2>3. PICK p \in Nat : p = mid * H /\ p <= UV_MAX /\ x * y = p + low
    BY <2>1, <1>5, <1>8
  <2>4. LongTimesShort(x, y, ok)
          = IF AsUV(low + p) >= p THEN Signed(ok, AsUV(low + p)) ELSE Double
    BY <2>2, <2>3, <1>7, <1>11
  <2>5. CASE p + low <= UV_MAX
    <3>1. AsUV(low + p) = x * y /\ x * y \in 0 .. UV_MAX
      BY <2>3, <2>5, <1>1, <1>4, Casts
    <3>2. x * y >= p
      BY <2>3, <1>4
    <3>3. LongTimesShort(x, y, ok) = Signed(ok, x * y)
      BY <2>4, <3>1, <3>2
    <3> QED BY <3>1, <3>3, SignIs
  <2>6. CASE p + low > UV_MAX
    <3>1. AsUV(low + p) = low + p - M
      <4>1. M <= low + p /\ low + p < M + M /\ low + p \in Int
        BY <2>3, <2>6, <1>1, <1>4, <1>6
      <4> QED BY <4>1, <1>1, Wrapped DEF AsUV
    <3>2. ~(AsUV(low + p) >= p)
      BY <3>1, <1>1, <1>4, <1>6, <2>3
    <3>3. LongTimesShort(x, y, ok) = Double
      BY <2>4, <3>2
    <3> QED BY <3>3, <2>3, <2>6, <1>8, <1>9 DEF Is
  <2> QED BY <2>3, <2>5, <2>6, <1>1, <1>4
<1> QED BY <1>1, <1>4, <1>10, <1>11

LEMMA ProductsExact == ArithTypeOK => ProductIsExact
<1> SUFFICES ASSUME ArithTypeOK, Held, NEW b \in Integer
             PROVE  Is(pp_multiply(sv, b), sv.n * b.n)
  BY DEF ProductIsExact
<1>1. sv \in Integer
  BY DEF ArithTypeOK, Held, Double
<1>2. /\ M \in Nat /\ M > 0 /\ H \in Nat /\ H > 0 /\ M = H * H
      /\ M = 2 * (M \div 2) /\ M \div 2 \in Nat
      /\ IV_MIN = 0 - M \div 2 /\ IV_MAX = M \div 2 - 1 /\ UV_MAX = M - 1
  BY Width, Quarter DEF M
<1>3. PICK xok \in BOOLEAN, yok \in BOOLEAN, ok \in BOOLEAN :
        xok = uvok(sv) /\ yok = uvok(b) /\ ok = (uvok(sv) = uvok(b)) /\ ok = (xok = yok)
  <2>1. uvok(sv) \in BOOLEAN /\ uvok(b) \in BOOLEAN
    BY <1>1, Operand
  <2> QED BY <2>1, Zenon
<1>4. PICK x \in 0 .. UV_MAX, y \in 0 .. UV_MAX : x = auv(sv) /\ y = auv(b)
  BY <1>1, Operand
<1>5. /\ sv.n = WithSign(xok, x) /\ b.n = WithSign(yok, y)
      /\ sv.n \in Int /\ b.n \in Int
  BY <1>1, <1>3, <1>4, Operand
<1>6. x \in Nat /\ y \in Nat /\ x <= UV_MAX /\ y <= UV_MAX
  BY <1>2
<1>7. sv.n * b.n = WithSign(ok, x * y)
  <2>1. WithSign(xok, x) * WithSign(yok, y) = IF xok = yok THEN x * y ELSE 0 - x * y
    BY <1>6, SignedProduct
  <2>2. (IF xok = yok THEN x * y ELSE 0 - x * y) = WithSign(ok, x * y)
    BY <1>3, Zenon DEF WithSign
  <2> QED BY <1>5, <2>1, <2>2
<1>8. \A n \in Nat : n > UV_MAX => WithSign(ok, n) \notin IV_MIN .. UV_MAX
  BY <1>2 DEF WithSign
<1>9. x * y \in Nat
  BY <1>6
<1>10. CASE HalfSized(sv) /\ HalfSized(b)
  <2>1. PICK h \in Nat : h = H \div 2 /\ M = 4 * (h * h) /\ H = 2 * h /\ h * h \in Nat /\ h > 0
    <3>1. \A k \in Nat : k * k \in Nat
      OBVIOUS
    <3>2. PICK k \in Nat : k = H \div 2 /\ M = 4 * (k * k) /\ H = 2 * k
      BY Quarter
    <3>3. k > 0
      BY <3>2, <1>2
    <3> QED BY <3>1, <3>2, <3>3
  <2>2. M \div 2 = 2 * (h * h) /\ h * h > 0
    <3>1. PICK s \in Nat : s = h * h /\ M = 4 * s
      BY <2>1
    <3>2. s > 0
      BY <3>1, <1>2
    <3> QED BY <3>1, <3>2, <1>2
  <2>3. 0 - h <= sv.n /\ sv.n <= h /\ 0 - h <= b.n /\ b.n <= h
    BY <1>5, <1>10, <2>1 DEF HalfSized
  <2>4. 0 - h * h <= sv.n * b.n /\ sv.n * b.n <= h * h /\ sv.n * b.n \in Int
    BY <2>3, <1>5, Bounded
  <2> HIDE DEF M, IV_MIN, IV_MAX, UV_MAX
  <2>5. sv.n * b.n \in IV_MIN .. IV_MAX
    BY <2>1, <2>2, <2>4, <1>2
  <2>6. pp_multiply(sv, b) = IV(sv.n * b.n)
    <3>1. AsIV(sv.n * b.n) = sv.n * b.n
      BY <2>4, <2>5, Casts
    <3>2. x < H /\ y < H
      <4>1. x <= h
        BY <2>3, <1>5, <1>6, <2>1 DEF WithSign
      <4>2. y <= h
        BY <2>3, <1>5, <1>6, <2>1 DEF WithSign
      <4> QED BY <4>1, <4>2, <2>1, <1>6
    <3>3. ~(x >= H) /\ ~(y >= H)
      BY <3>2, <1>2, <1>6
    <3> QED BY <3>1, <3>3, <1>4, <1>10 DEF pp_multiply
  <2>7. sv.n * b.n \in IV_MIN .. UV_MAX
    BY <2>5, <1>2
  <2> QED BY <2>5, <2>6, <2>7, NumbersAre DEF Is
<1>11. CASE ~(HalfSized(sv) /\ HalfSized(b)) /\ x >= H /\ y >= H
  <2>1. pp_multiply(sv, b) = Double
    BY <1>4, <1>11, <1>2, <1>6 DEF pp_multiply
  <2>2. x * y >= M
    <3>1. H * H <= x * H
      BY <1>2, <1>6, <1>11, Monotone
    <3>2. H * x <= y * x
      BY <1>2, <1>6, <1>11, Monotone
    <3>3. H * x = x * H /\ y * x = x * y
      BY <1>2, <1>6
    <3> QED BY <3>1, <3>2, <3>3, <1>2, <1>6
  <2> HIDE DEF M, IV_MIN, IV_MAX, UV_MAX
  <2>3. x * y > UV_MAX
    BY <2>2, <1>2, <1>9
  <2> QED BY <2>1, <2>3, <1>7, <1>8, <1>9 DEF Is
<1>12. CASE ~(HalfSized(sv) /\ HalfSized(b)) /\ x < H /\ y < H
  <2>1. x * y <= UV_MAX
    <3>1. x * y <= H * y
      BY <1>2, <1>6, <1>12, Monotone
    <3>2. (y + 1) * H <= H * H
      BY <1>2, <1>6, <1>12, Monotone
    <3>3. (y + 1) * H = H * y + H
      BY <1>2, <1>6
    <3>4. H * y \in Nat
      BY <1>2, <1>6
    <3> HIDE DEF M, UV_MAX
    <3> QED BY <3>1, <3>2, <3>3, <3>4, <1>2, <1>6, <1>9
  <2>2. AsUV(x * y) = x * y /\ x * y \in 0 .. UV_MAX
    BY <2>1, <1>9, Casts
  <2>3. pp_multiply(sv, b) = Signed(ok, x * y)
    <3>1. ~(x >= H) /\ ~(y >= H)
      BY <1>2, <1>6, <1>12
    <3> QED BY <2>2, <3>1, <1>3, <1>4, <1>12 DEF pp_multiply
  <2> QED BY <2>2, <2>3, <1>7, SignIs
<1>13. CASE ~(HalfSized(sv) /\ HalfSized(b)) /\ x < H /\ y >= H
  <2>1. pp_multiply(sv, b) = LongTimesShort(y, x, ok)
    <3>1. ~(x >= H) /\ ~(y < H)
      BY <1>2, <1>6, <1>13
    <3> QED BY <3>1, <1>3, <1>4, <1>13 DEF pp_multiply
  <2>2. Is(LongTimesShort(y, x, ok), WithSign(ok, y * x))
    BY <1>6, <1>13, LongTimesShortIs
  <2>3. y * x = x * y
    BY <1>6
  <2> QED BY <2>1, <2>2, <2>3, <1>7
<1>14. CASE ~(HalfSized(sv) /\ HalfSized(b)) /\ x >= H /\ y < H
  <2>1. pp_multiply(sv, b) = LongTimesShort(x, y, ok)
    <3>1. ~(x < H) /\ ~(y >= H)
      BY <1>2, <1>6, <1>14
    <3> QED BY <3>1, <1>3, <1>4, <1>14 DEF pp_multiply
  <2>2. Is(LongTimesShort(x, y, ok), WithSign(ok, x * y))
    BY <1>6, <1>14, LongTimesShortIs
  <2> QED BY <2>1, <2>2, <1>7
<1>15. (x < H \/ x >= H) /\ (y < H \/ y >= H)
  BY <1>2, <1>6
<1> QED BY <1>10, <1>11, <1>12, <1>13, <1>14, <1>15, Zenon

-----------------------------------------------------------------------------
(* One operand, remainders and comparisons.                                *)

LEMMA IntegerIs ==
  /\ \A n \in IV_MIN .. IV_MAX : Is(IV(n), n)
  /\ \A n \in 0 .. UV_MAX : Is(UV(n), n) /\ Is(SETu(n), n)
  /\ \A n \in Int : n > UV_MAX \/ n < IV_MIN => Is(Double, n)
<1>1. M \in Nat /\ M > 0 /\ M = 2 * (M \div 2) /\ M \div 2 \in Nat
      /\ IV_MIN = 0 - M \div 2 /\ IV_MAX = M \div 2 - 1 /\ UV_MAX = M - 1
  BY Width
<1> HIDE DEF M, IV_MIN, IV_MAX, UV_MAX
<1>2. ASSUME NEW n \in IV_MIN .. IV_MAX
      PROVE  Is(IV(n), n)
  <2>1. n \in IV_MIN .. UV_MAX
    BY <1>1
  <2> QED BY <2>1, NumbersAre DEF Is
<1>3. ASSUME NEW n \in 0 .. UV_MAX
      PROVE  Is(UV(n), n) /\ Is(SETu(n), n)
  <2>1. n \in IV_MIN .. UV_MAX
    BY <1>1
  <2> QED BY <2>1, NumbersAre, SETuIs DEF Is
<1>4. ASSUME NEW n \in Int, n > UV_MAX \/ n < IV_MIN
      PROVE  Is(Double, n)
  <2>1. n \notin IV_MIN .. UV_MAX
    BY <1>1, <1>4
  <2> QED BY <2>1 DEF Is
<1> QED BY <1>2, <1>3, <1>4

LEMMA SuccessorsExact == ArithTypeOK => SuccessorIsExact
<1> SUFFICES ASSUME ArithTypeOK, Held
             PROVE  /\ Is(sv_inc(sv), sv.n + 1) /\ Is(sv_dec(sv), sv.n - 1)
                    /\ Is(pp_negate(sv), 0 - sv.n)
                    /\ Is(pp_abs(sv), IF sv.n < 0 THEN 0 - sv.n ELSE sv.n)
  BY DEF SuccessorIsExact
<1>1. sv \in Integer
  BY DEF ArithTypeOK, Held, Double
<1>2. /\ M \in Nat /\ M > 0 /\ M = 2 * (M \div 2) /\ M \div 2 \in Nat
      /\ IV_MIN = 0 - M \div 2 /\ IV_MAX = M \div 2 - 1 /\ UV_MAX = M - 1
  BY Width
<1> HIDE DEF M, IV_MIN, IV_MAX, UV_MAX
<1>3. CASE sv.is = "IV"
  <2>1. sv.n \in Int /\ IV_MIN <= sv.n /\ sv.n <= IV_MAX /\ sv.is # "UV"
    <3>1. "IV" # "UV"
      OBVIOUS
    <3> QED BY <1>1, <1>3, <3>1, NumbersAre
  <2>2. Is(sv_inc(sv), sv.n + 1)
    <3>1. CASE sv.n = IV_MAX
      <4>1. sv_inc(sv) = SETu(IV_MAX + 1)
        BY <1>3, <2>1, <3>1 DEF sv_inc
      <4>2. IV_MAX + 1 \in 0 .. UV_MAX
        BY <1>2
      <4> QED BY <4>1, <4>2, <3>1, IntegerIs
    <3>2. CASE sv.n # IV_MAX
      <4>1. sv_inc(sv) = IV(sv.n + 1)
        BY <1>3, <2>1, <3>2 DEF sv_inc
      <4>2. sv.n + 1 \in IV_MIN .. IV_MAX
        BY <1>2, <2>1, <3>2
      <4> QED BY <4>1, <4>2, IntegerIs
    <3> QED BY <3>1, <3>2
  <2>3. Is(sv_dec(sv), sv.n - 1)
    <3>1. CASE sv.n = IV_MIN
      <4>1. sv_dec(sv) = Double
        BY <1>3, <2>1, <3>1 DEF sv_dec
      <4>2. sv.n - 1 \in Int /\ sv.n - 1 < IV_MIN
        BY <1>2, <2>1, <3>1
      <4> QED BY <4>1, <4>2, IntegerIs
    <3>2. CASE sv.n # IV_MIN
      <4>1. sv_dec(sv) = IV(sv.n - 1)
        BY <1>3, <2>1, <3>2 DEF sv_dec
      <4>2. sv.n - 1 \in IV_MIN .. IV_MAX
        BY <1>2, <2>1, <3>2
      <4> QED BY <4>1, <4>2, IntegerIs
    <3> QED BY <3>1, <3>2
  <2>4. Is(pp_negate(sv), 0 - sv.n)
    <3>1. CASE sv.n = IV_MIN
      <4>1. pp_negate(sv) = SETu(M \div 2)
        BY <1>3, <2>1, <3>1 DEF pp_negate
      <4>2. M \div 2 \in 0 .. UV_MAX /\ 0 - sv.n = M \div 2
        BY <1>2, <3>1
      <4> QED BY <4>1, <4>2, IntegerIs
    <3>2. CASE sv.n # IV_MIN
      <4>1. pp_negate(sv) = IV(0 - sv.n)
        BY <1>3, <2>1, <3>2 DEF pp_negate
      <4>2. 0 - sv.n \in IV_MIN .. IV_MAX
        BY <1>2, <2>1, <3>2
      <4> QED BY <4>1, <4>2, IntegerIs
    <3> QED BY <3>1, <3>2
  <2>5. Is(pp_abs(sv), IF sv.n < 0 THEN 0 - sv.n ELSE sv.n)
    <3>1. CASE sv.n < 0
      <4>1. AsUV(0 - (sv.n + 1)) = 0 - (sv.n + 1)
        <5>1. 0 - (sv.n + 1) \in Int /\ 0 <= 0 - (sv.n + 1) /\ 0 - (sv.n + 1) <= UV_MAX
          BY <1>2, <2>1, <3>1
        <5> QED BY <5>1, Casts
      <4>2. pp_abs(sv) = SETu(0 - sv.n)
        <5>1. ~uvok(sv)
          BY <1>3, <2>1, <3>1 DEF uvok
        <5>2. 0 - (sv.n + 1) + 1 = 0 - sv.n
          BY <2>1
        <5> QED BY <4>1, <5>1, <5>2 DEF pp_abs
      <4>3. 0 - sv.n \in 0 .. UV_MAX
        BY <1>2, <2>1, <3>1
      <4>4. Is(SETu(0 - sv.n), 0 - sv.n)
        BY <4>3, IntegerIs
      <4> QED BY <3>1, <4>2, <4>4
    <3>2. CASE ~(sv.n < 0)
      <4>1. pp_abs(sv) = SETu(sv.n)
        <5>1. uvok(sv)
          BY <2>1, <3>2 DEF uvok
        <5> QED BY <5>1 DEF pp_abs
      <4>2. sv.n \in 0 .. UV_MAX
        BY <1>2, <2>1, <3>2
      <4>3. Is(SETu(sv.n), sv.n)
        BY <4>2, IntegerIs
      <4> QED BY <3>2, <4>1, <4>3
    <3> QED BY <3>1, <3>2
  <2> QED BY <2>2, <2>3, <2>4, <2>5
<1>4. CASE sv.is = "UV"
  <2>1. sv.n \in Int /\ 0 <= sv.n /\ sv.n <= UV_MAX /\ sv.is # "IV"
    <3>1. "IV" # "UV"
      OBVIOUS
    <3> QED BY <1>1, <1>2, <1>4, <3>1, NumbersAre
  <2>2. Is(sv_inc(sv), sv.n + 1)
    <3>1. CASE sv.n = UV_MAX
      <4>1. sv_inc(sv) = Double
        BY <1>4, <2>1, <3>1 DEF sv_inc
      <4>2. sv.n + 1 \in Int /\ sv.n + 1 > UV_MAX
        BY <1>2, <2>1, <3>1
      <4> QED BY <4>1, <4>2, IntegerIs
    <3>2. CASE sv.n # UV_MAX
      <4>1. sv_inc(sv) = UV(sv.n + 1)
        BY <1>4, <2>1, <3>2 DEF sv_inc
      <4>2. sv.n + 1 \in 0 .. UV_MAX
        BY <1>2, <2>1, <3>2
      <4> QED BY <4>1, <4>2, IntegerIs
    <3> QED BY <3>1, <3>2
  <2>3. Is(sv_dec(sv), sv.n - 1)
    <3>1. CASE sv.n = 0
      <4>1. sv_dec(sv) = IV(-1) /\ sv.n - 1 = -1
        BY <1>4, <2>1, <3>1 DEF sv_dec
      <4>2. -1 \in IV_MIN .. IV_MAX
        BY <1>2
      <4> QED BY <4>1, <4>2, IntegerIs
    <3>2. CASE sv.n # 0
      <4>1. sv_dec(sv) = UV(sv.n - 1)
        BY <1>4, <2>1, <3>2 DEF sv_dec
      <4>2. sv.n - 1 \in 0 .. UV_MAX
        BY <1>2, <2>1, <3>2
      <4> QED BY <4>1, <4>2, IntegerIs
    <3> QED BY <3>1, <3>2
  <2>4. Is(pp_negate(sv), 0 - sv.n)
    <3>1. CASE sv.n = M \div 2
      <4>1. pp_negate(sv) = IV(IV_MIN)
        BY <1>4, <2>1, <3>1, <1>2 DEF pp_negate
      <4>2. IV_MIN \in IV_MIN .. IV_MAX /\ 0 - sv.n = IV_MIN
        BY <1>2, <3>1
      <4> QED BY <4>1, <4>2, IntegerIs
    <3>2. CASE sv.n <= IV_MAX
      <4>1. pp_negate(sv) = IV(0 - sv.n)
        BY <1>4, <2>1, <3>2, <1>2 DEF pp_negate
      <4>2. 0 - sv.n \in IV_MIN .. IV_MAX
        BY <1>2, <2>1, <3>2
      <4> QED BY <4>1, <4>2, IntegerIs
    <3>3. CASE sv.n > M \div 2
      <4>1. pp_negate(sv) = Double
        BY <1>4, <2>1, <3>3, <1>2 DEF pp_negate
      <4>2. 0 - sv.n \in Int /\ 0 - sv.n < IV_MIN
        BY <1>2, <2>1, <3>3
      <4> QED BY <4>1, <4>2, IntegerIs
    <3> QED BY <3>1, <3>2, <3>3, <1>2, <2>1
  <2>5. Is(pp_abs(sv), IF sv.n < 0 THEN 0 - sv.n ELSE sv.n)
    <3>1. pp_abs(sv) = SETu(sv.n)
      <4>1. uvok(sv)
        BY <1>4 DEF uvok
      <4> QED BY <4>1 DEF pp_abs
    <3>2. sv.n \in 0 .. UV_MAX /\ ~(sv.n < 0)
      BY <1>2, <2>1
    <3>3. Is(SETu(sv.n), sv.n)
      BY <3>2, IntegerIs
    <3> QED BY <3>1, <3>2, <3>3
  <2> QED BY <2>2, <2>3, <2>4, <2>5
<1> QED BY <1>1, <1>3, <1>4, NumbersAre

LEMMA ComparesExact == ArithTypeOK => ComparesAsNumbers
<1> SUFFICES ASSUME ArithTypeOK, Held, NEW b \in Integer
             PROVE  (do_ncmp(sv, b) = 1 <=> sv.n > b.n) /\ (do_ncmp(sv, b) = 0 <=> sv.n = b.n)
  BY DEF ComparesAsNumbers
<1>1. sv \in Integer
  BY DEF ArithTypeOK, Held, Double
<1>2. sv.n \in Int /\ b.n \in Int /\ IV_MAX <= UV_MAX
  <2>1. IV_MAX <= UV_MAX
    BY Width
  <2> QED BY <1>1, <2>1, NumbersAre
<1>3. "IV" # "UV"
  OBVIOUS
<1>4. CASE sv.is = b.is
  BY <1>2, <1>4 DEF do_ncmp
<1>5. CASE sv.is = "IV" /\ b.is = "UV"
  <2>1. b.n >= 0
    BY <1>3, <1>5, NumbersAre
  <2>2. sv.n <= IV_MAX /\ sv.is # b.is /\ sv.is # "UV"
    BY <1>1, <1>3, <1>5, NumbersAre
  <2>3. sv.n >= 0 => AsUV(sv.n) = sv.n
    <3>1. sv.n <= UV_MAX
      BY <2>2, <1>2, Width
    <3> QED BY <3>1, <1>2, Casts
  <2> QED BY <1>2, <1>5, <2>1, <2>2, <2>3 DEF do_ncmp
<1>6. CASE sv.is = "UV" /\ b.is = "IV"
  <2>1. sv.n >= 0
    BY <1>1, <1>3, <1>6, NumbersAre
  <2>2. b.n <= IV_MAX /\ sv.is # b.is /\ sv.is # "IV"
    BY <1>3, <1>6, NumbersAre
  <2>3. b.n >= 0 => AsUV(b.n) = b.n
    <3>1. b.n <= UV_MAX
      BY <2>2, <1>2, Width
    <3> QED BY <3>1, <1>2, Casts
  <2> QED BY <1>2, <1>6, <2>1, <2>2, <2>3 DEF do_ncmp
<1> QED BY <1>1, <1>4, <1>5, <1>6, NumbersAre

LEMMA Multiple ==
  ASSUME NEW m \in Nat, m > 0, NEW k \in Int, NEW n \in Int, n = m * k
  PROVE  n % m = 0
<1>1. PICK r \in Int : r = 0
  OBVIOUS
<1>2. (m * k + r) % m = r
  BY <1>1, Quotient
<1>3. m * k \in Int
  OBVIOUS
<1> QED BY <1>1, <1>2, <1>3

\* What is left of x, taken from the divisor where the signs differ.
Remains(xok, x, yok, y) == IF xok # yok /\ (x % y) # 0 THEN y - (x % y) ELSE (x % y)

LEMMA RestIs ==
  ASSUME NEW x \in Nat, NEW y \in Nat, y > 0, NEW xok \in BOOLEAN, NEW yok \in BOOLEAN
  PROVE  /\ Remains(xok, x, yok, y) \in 0 .. y - 1
         /\ \E k \in Int : WithSign(yok, Remains(xok, x, yok, y)) - WithSign(xok, x) = y * k
<1>1. PICK q, rest \in Int : q = x \div y /\ rest = (x % y) /\ 0 <= rest /\ rest < y /\ x = y * q + rest
  BY Division
<1>2. PICK ans : ans = Remains(xok, x, yok, y)
  OBVIOUS
<1>3. ans = IF xok # yok /\ rest # 0 THEN y - rest ELSE rest
  BY <1>1, <1>2 DEF Remains
<1>4. PICK t \in Int : t = y * q /\ x = t + rest
  BY <1>1
<1>5. y * (0 - q) = 0 - t /\ y * (0 - (q + 1)) = 0 - t - y /\ y * (q + 1) = t + y
  BY <1>1, <1>4
<1>6. ans \in 0 .. y - 1
  BY <1>1, <1>3
<1>7. ans \in Int /\ x \in Int
  BY <1>6
<1>8. /\ (\E k \in Int : t = y * k) /\ (\E k \in Int : 0 - t = y * k)
      /\ (\E k \in Int : 0 - t - y = y * k) /\ (\E k \in Int : t + y = y * k)
  <2>1. 0 - q \in Int /\ 0 - (q + 1) \in Int /\ q + 1 \in Int
    BY <1>1
  <2> QED BY <2>1, <1>1, <1>4, <1>5
<1>9. \E k \in Int : WithSign(yok, ans) - WithSign(xok, x) = y * k
  <2>1. CASE xok /\ yok
    <3>1. WithSign(yok, ans) - WithSign(xok, x) = ans - x /\ ans = rest
      BY <1>3, <2>1 DEF WithSign
    <3>2. WithSign(yok, ans) - WithSign(xok, x) = 0 - t
      BY <3>1, <1>1, <1>4
    <3> QED BY <3>2, <1>8
  <2>2. CASE ~xok /\ ~yok
    <3>1. WithSign(yok, ans) - WithSign(xok, x) = (0 - ans) - (0 - x) /\ ans = rest
      BY <1>3, <2>2 DEF WithSign
    <3>2. WithSign(yok, ans) - WithSign(xok, x) = t
      BY <3>1, <1>1, <1>4
    <3> QED BY <3>2, <1>8
  <2>3. CASE xok /\ ~yok
    <3>1. WithSign(yok, ans) - WithSign(xok, x) = (0 - ans) - x
          /\ ans = IF rest # 0 THEN y - rest ELSE rest
      BY <1>3, <2>3 DEF WithSign
    <3>2. CASE rest = 0
      <4>1. WithSign(yok, ans) - WithSign(xok, x) = 0 - t
        BY <3>1, <3>2, <1>4
      <4> QED BY <4>1, <1>8
    <3>3. CASE rest # 0
      <4>1. WithSign(yok, ans) - WithSign(xok, x) = 0 - t - y
        BY <3>1, <3>3, <1>1, <1>4
      <4> QED BY <4>1, <1>8
    <3> QED BY <3>2, <3>3
  <2>4. CASE ~xok /\ yok
    <3>1. WithSign(yok, ans) - WithSign(xok, x) = ans - (0 - x)
          /\ ans = IF rest # 0 THEN y - rest ELSE rest
      BY <1>3, <2>4 DEF WithSign
    <3>2. CASE rest = 0
      <4>1. WithSign(yok, ans) - WithSign(xok, x) = t
        BY <3>1, <3>2, <1>4
      <4> QED BY <4>1, <1>8
    <3>3. CASE rest # 0
      <4>1. WithSign(yok, ans) - WithSign(xok, x) = t + y
        BY <3>1, <3>3, <1>1, <1>4
      <4> QED BY <4>1, <1>8
    <3> QED BY <3>2, <3>3
  <2> QED BY <2>1, <2>2, <2>3, <2>4
<1> QED BY <1>2, <1>6, <1>9

LEMMA RemaindersExact == ArithTypeOK => RemainderIsExact
<1> SUFFICES ASSUME ArithTypeOK, Held, NEW b \in Integer, b.n # 0
             PROVE  /\ pp_modulo(sv, b) \in Integer /\ (pp_modulo(sv, b).n - sv.n) % auv(b) = 0
                    /\ auv(pp_modulo(sv, b)) < auv(b)
                    /\ (pp_modulo(sv, b).n > 0 => b.n > 0)
                    /\ (pp_modulo(sv, b).n < 0 => b.n < 0)
                    /\ (pp_divide(sv, b) # Double =>
                          pp_divide(sv, b) \in Integer /\ pp_divide(sv, b).n * b.n = sv.n)
  BY DEF RemainderIsExact
<1>1. sv \in Integer
  BY DEF ArithTypeOK, Held, Double
<1>2. /\ M \in Nat /\ M > 0 /\ M = 2 * (M \div 2) /\ M \div 2 \in Nat
      /\ IV_MIN = 0 - M \div 2 /\ IV_MAX = M \div 2 - 1 /\ UV_MAX = M - 1
  BY Width
<1>3. PICK xok \in BOOLEAN, yok \in BOOLEAN : xok = uvok(sv) /\ yok = uvok(b)
  <2>1. uvok(sv) \in BOOLEAN /\ uvok(b) \in BOOLEAN
    BY <1>1, Operand
  <2> QED BY <2>1
<1>4. PICK x \in 0 .. UV_MAX, y \in 0 .. UV_MAX : x = auv(sv) /\ y = auv(b)
  BY <1>1, Operand
<1>5. /\ sv.n = WithSign(xok, x) /\ b.n = WithSign(yok, y)
      /\ sv.n \in Int /\ b.n \in Int /\ (~yok => y <= M \div 2)
  BY <1>1, <1>3, <1>4, Operand
<1> HIDE DEF M, IV_MIN, IV_MAX, UV_MAX
<1>6. x \in Nat /\ y \in Nat /\ x <= UV_MAX /\ y <= UV_MAX
  BY <1>2
<1>7. y > 0
  BY <1>5, <1>6 DEF WithSign
<1>8. PICK ans : ans = Remains(xok, x, yok, y)
  OBVIOUS
<1>9. /\ ans \in 0 .. y - 1
      /\ \E k \in Int : WithSign(yok, ans) - WithSign(xok, x) = y * k
  BY <1>6, <1>7, <1>8, RestIs
<1>10. ans \in Nat /\ ans < y
  BY <1>6, <1>9
<1>11. /\ pp_modulo(sv, b) \in Integer /\ pp_modulo(sv, b).n = WithSign(yok, ans)
  <2>1. CASE yok
    <3>1. pp_modulo(sv, b) = SETu(ans)
      BY <2>1, <1>3, <1>4, <1>8 DEF pp_modulo, Remains
    <3>2. ans \in 0 .. UV_MAX
      BY <1>6, <1>10, <1>2
    <3> QED BY <2>1, <3>1, <3>2, SETuIs DEF WithSign
  <2>2. CASE ~yok
    <3>1. ans <= M \div 2
      BY <2>2, <1>2, <1>5, <1>6, <1>10
    <3>2. 0 - ans \in IV_MIN .. IV_MAX /\ 0 - ans \in Int
      BY <3>1, <1>2, <1>10
    <3>3. pp_modulo(sv, b) = IV(AsIV(0 - ans))
      BY <2>2, <3>1, <1>3, <1>4, <1>8 DEF pp_modulo, Remains
    <3>4. pp_modulo(sv, b) = IV(0 - ans)
      BY <3>2, <3>3, Casts
    <3> QED BY <2>2, <3>2, <3>4, NumbersAre DEF WithSign
  <2> QED BY <2>1, <2>2
<1>12. (pp_modulo(sv, b).n - sv.n) % auv(b) = 0
  <2>1. PICK k \in Int : pp_modulo(sv, b).n - sv.n = y * k
    BY <1>5, <1>9, <1>11
  <2>2. PICK n \in Int : n = y * k
    BY <1>6
  <2>3. n % y = 0
    BY <2>2, <1>6, <1>7, Multiple
  <2> QED BY <2>1, <2>2, <2>3, <1>4
<1>13. auv(pp_modulo(sv, b)) < auv(b)
  <2>1. PICK r \in Integer : r = pp_modulo(sv, b)
    BY <1>11
  <2>2. auv(r) \in 0 .. UV_MAX /\ uvok(r) \in BOOLEAN /\ r.n = WithSign(uvok(r), auv(r))
    BY Operand
  <2>3. auv(r) = r.n \/ auv(r) = 0 - r.n
    BY <2>2, <1>2 DEF WithSign
  <2>4. r.n = ans \/ r.n = 0 - ans
    BY <2>1, <1>11 DEF WithSign
  <2> QED BY <2>1, <2>2, <2>3, <2>4, <1>2, <1>4, <1>6, <1>10
<1>14. /\ (pp_modulo(sv, b).n > 0 => b.n > 0)
       /\ (pp_modulo(sv, b).n < 0 => b.n < 0)
  BY <1>5, <1>6, <1>7, <1>10, <1>11 DEF WithSign
<1>15. ASSUME pp_divide(sv, b) # Double
       PROVE  pp_divide(sv, b) \in Integer /\ pp_divide(sv, b).n * b.n = sv.n
  <2>1. PICK ok \in BOOLEAN : ok = (uvok(sv) = uvok(b)) /\ ok = (xok = yok)
    BY <1>3, Zenon
  <2>2. (x % y) = 0 /\ pp_divide(sv, b) = Signed(ok, x \div y)
    BY <1>4, <1>15, <2>1 DEF pp_divide
  <2>3. PICK q, rest \in Int : q = x \div y /\ rest = (x % y) /\ x = y * q + rest
    BY <1>6, <1>7, Division
  <2>4. rest = 0
    BY <2>2, <2>3
  <2>5. q >= 0
    <3>1. q < 0 => y * q <= 0 - y
      BY <1>6, <2>3
    <3> QED BY <3>1, <2>3, <2>4, <1>6, <1>7
  <2>6. q <= x
    <3>1. PICK o \in Nat : o = 1
      OBVIOUS
    <3>2. o * q <= y * q
      BY <3>1, <2>3, <2>5, <1>6, <1>7, Monotone
    <3> QED BY <3>1, <3>2, <2>3, <2>4, <2>5, <1>6
  <2>7. q \in 0 .. UV_MAX
    BY <2>3, <2>5, <2>6, <1>2, <1>6
  <2>8. Is(Signed(ok, q), WithSign(ok, q))
    BY <2>7, SignIs
  <2>9. Signed(ok, q) \in Integer /\ Signed(ok, q).n = WithSign(ok, q)
    BY <2>2, <2>3, <2>8, <1>15 DEF Is
  <2>10. WithSign(ok, q) * WithSign(yok, y) = WithSign(xok, x)
    <3>1. /\ q * y = x /\ (0 - q) * y = 0 - x /\ (0 - q) * (0 - y) = x /\ q * (0 - y) = 0 - x
      <4>1. x = q * y
        BY <2>3, <2>4, <1>6
      <4>2. (0 - q) * y = 0 - q * y /\ (0 - q) * (0 - y) = q * y /\ q * (0 - y) = 0 - q * y
        BY <2>3, <1>6
      <4> QED BY <4>1, <4>2
    <3>2. CASE xok /\ yok
      BY <3>1, <3>2, <2>1 DEF WithSign
    <3>3. CASE xok /\ ~yok
      BY <3>1, <3>3, <2>1 DEF WithSign
    <3>4. CASE ~xok /\ yok
      BY <3>1, <3>4, <2>1 DEF WithSign
    <3>5. CASE ~xok /\ ~yok
      BY <3>1, <3>5, <2>1 DEF WithSign
    <3> QED BY <3>2, <3>3, <3>4, <3>5
  <2> QED BY <2>2, <2>3, <2>9, <2>10, <1>5
<1> QED BY <1>11, <1>12, <1>13, <1>14, <1>15

-----------------------------------------------------------------------------
(* Powers of two.                                                          *)

\* A set of natural numbers has a least one.
LEMMA LeastOf ==
  ASSUME NEW T, T # {}, T \subseteq Nat
  PROVE  \E n \in T : \A m \in T : ~(m < n)
<1>1. PICK n \in T : \A m \in T : ~(<<m, n>> \in OpToRel(<, Nat))
  BY NatLessThanWellFounded, WFMin
<1>2. \A m \in T : ~(m < n)
  BY <1>1 DEF OpToRel
<1> QED BY <1>2

\* Induction on the natural numbers, for a set.
LEMMA ByInduction ==
  ASSUME NEW S, 0 \in S, \A n \in Nat : n \in S => n + 1 \in S
  PROVE  Nat \subseteq S
<1> SUFFICES ASSUME NEW x \in Nat, x \notin S
             PROVE  FALSE
  OBVIOUS
<1> DEFINE T == {n \in Nat : n \notin S}
<1>1. PICK n \in T : \A m \in T : ~(m < n)
  <2>1. T # {} /\ T \subseteq Nat
    OBVIOUS
  <2> HIDE DEF T
  <2> QED BY <2>1, LeastOf
<1>2. n \in Nat /\ n \notin S
  BY <1>1
<1>3. n # 0
  BY <1>2
<1>4. n - 1 \in Nat /\ n - 1 < n /\ n - 1 + 1 = n
  BY <1>2, <1>3
<1>5. n - 1 \in S
  BY <1>1, <1>4
<1> QED BY <1>2, <1>4, <1>5

LEMMA Doublings ==
  ASSUME NEW n \in Nat, NEW p, p[0] = 1, \A k \in 1 .. n : p[k] = p[k - 1] * 2
  PROVE  /\ \A k \in 0 .. n : p[k] \in Nat /\ p[k] > 0
         /\ \A k, l \in 0 .. n : k + l <= n => p[k + l] = p[k] * p[l]
<1>1. \A k \in 0 .. n : p[k] \in Nat /\ p[k] > 0
  <2> DEFINE S == {k \in Nat : k <= n => p[k] \in Nat /\ p[k] > 0}
  <2>1. 0 \in S
    OBVIOUS
  <2>2. ASSUME NEW k \in Nat, k \in S
        PROVE  k + 1 \in S
    <3>1. k + 1 <= n => p[k + 1] = p[k] * 2
      <4>1. k + 1 - 1 = k
        OBVIOUS
      <4>2. k + 1 <= n => k + 1 \in 1 .. n
        OBVIOUS
      <4> QED BY <4>1, <4>2
    <3>2. k + 1 <= n => p[k] \in Nat /\ p[k] > 0
      BY <2>2
    <3> QED BY <3>1, <3>2
  <2>3. Nat \subseteq S
    <3> HIDE DEF S
    <3> QED BY <2>1, <2>2, ByInduction
  <2> QED BY <2>3
<1>2. ASSUME NEW k \in 0 .. n
      PROVE  \A l \in Nat : k + l <= n => p[k + l] = p[k] * p[l]
  <2> DEFINE S == {l \in Nat : k + l <= n => p[k + l] = p[k] * p[l]}
  <2>1. 0 \in S
    BY <1>1
  <2>2. ASSUME NEW l \in Nat, l \in S
        PROVE  l + 1 \in S
    <3> SUFFICES ASSUME k + (l + 1) <= n
                 PROVE  p[k + (l + 1)] = p[k] * p[l + 1]
      OBVIOUS
    <3>1. PICK a, b, c \in Int : a = k + l /\ b = k + (l + 1) /\ c = l + 1
      OBVIOUS
    <3>2. b \in 1 .. n /\ b - 1 = a /\ c \in 1 .. n /\ c - 1 = l /\ a \in 0 .. n /\ l \in 0 .. n
      BY <3>1
    <3>3. p[b] = p[a] * 2 /\ p[c] = p[l] * 2
      BY <3>2
    <3>4. p[a] = p[k] * p[l]
      BY <2>2, <3>1, <3>2
    <3>5. PICK x, y \in Nat : x = p[k] /\ y = p[l]
      BY <1>1, <3>2
    <3>6. (x * y) * 2 = x * (y * 2)
      OBVIOUS
    <3>7. p[b] = p[k] * p[c]
      BY <3>3, <3>4, <3>5, <3>6
    <3> QED BY <3>1, <3>7
  <2>3. Nat \subseteq S
    <3> HIDE DEF S
    <3> QED BY <2>1, <2>2, ByInduction
  <2> QED BY <2>3
<1> QED BY <1>1, <1>2

\* 2 ^ k, to the number of bits of a UV.
IsPower(p) == p = [k \in 0 .. Bits |-> 2 ^ k]

LEMMA PowersAre ==
  ASSUME NEW p, IsPower(p)
  PROVE  /\ Bits \in Nat /\ Bits > 0 /\ p[0] = 1 /\ p[Bits] = M
         /\ \A k \in 0 .. Bits : p[k] = 2 ^ k /\ p[k] \in Nat /\ p[k] > 0
         /\ \A k, l \in 0 .. Bits : /\ k + l <= Bits => p[k] * p[l] = p[k + l]
                                    /\ k + l > Bits => \E c \in Nat : c > 0 /\ p[k] * p[l] = M * c
<1>1. Bits \in Nat
  BY ArithAssumption
<1>2. \A k \in 0 .. Bits : p[k] = 2 ^ k
  BY DEF IsPower
<1>3. 0 \in 0 .. Bits /\ Bits \in 0 .. Bits /\ \A k \in 1 .. Bits : k \in 0 .. Bits /\ k - 1 \in 0 .. Bits
  BY <1>1
<1>4. p[0] = 1 /\ p[Bits] = M /\ \A k \in 1 .. Bits : p[k] = p[k - 1] * 2
  BY <1>2, <1>3, BitsAssumption
<1>5. Bits > 0
  <2>1. M > 1
    BY Quarter
  <2> HIDE DEF M
  <2>2. Bits # 0
    BY <2>1, <1>4
  <2> QED BY <1>1, <2>2
<1>6. /\ \A k \in 0 .. Bits : p[k] \in Nat /\ p[k] > 0
      /\ \A k, l \in 0 .. Bits : k + l <= Bits => p[k + l] = p[k] * p[l]
  BY <1>1, <1>4, Doublings
<1> HIDE DEF M
<1>7. ASSUME NEW k \in 0 .. Bits, NEW l \in 0 .. Bits, k + l > Bits
      PROVE  \E c \in Nat : c > 0 /\ p[k] * p[l] = M * c
  <2>1. PICK a, b \in 0 .. Bits : a = Bits - k /\ b = k + l - Bits
    BY <1>1, <1>7
  <2>2. k + a = Bits /\ a + b = l
    BY <1>1, <2>1
  <2>3. p[k] * p[a] = M /\ p[a] * p[b] = p[l]
    <3>1. k + a <= Bits /\ a + b <= Bits
      BY <1>1, <2>2
    <3>2. p[k + a] = p[k] * p[a] /\ p[a + b] = p[a] * p[b]
      BY <3>1, <1>6
    <3> QED BY <3>2, <2>2, <1>4
  <2>4. PICK x, y, c \in Nat : x = p[k] /\ y = p[a] /\ c = p[b] /\ c > 0
    BY <1>6
  <2>5. x * (y * c) = (x * y) * c
    OBVIOUS
  <2> QED BY <2>3, <2>4, <2>5
<1> QED BY <1>1, <1>2, <1>4, <1>5, <1>6, <1>7

-----------------------------------------------------------------------------
(* Shifts.                                                                 *)

LEMMA DivDiv ==
  ASSUME NEW n \in Int, NEW a \in Nat, a > 0, NEW b \in Nat, b > 0
  PROVE  (n \div a) \div b = n \div (a * b) /\ n \div a \in Int /\ a * b \in Nat /\ a * b > 0
<1>1. PICK q, r \in Int : q = n \div a /\ 0 <= r /\ r < a /\ n = a * q + r
  <2>1. n \div a \in Int /\ (n % a) \in Int /\ 0 <= (n % a) /\ (n % a) < a /\ n = a * (n \div a) + (n % a)
    BY Division
  <2> QED BY <2>1
<1>2. PICK t, s \in Int : t = q \div b /\ 0 <= s /\ s < b /\ q = b * t + s
  <2>1. q \div b \in Int /\ (q % b) \in Int /\ 0 <= (q % b) /\ (q % b) < b /\ q = b * (q \div b) + (q % b)
    BY Division
  <2> QED BY <2>1
<1>3. PICK m \in Nat : m = a * b /\ m > 0
  OBVIOUS
<1>4. PICK e \in Int : e = a * s + r
  BY <1>1, <1>2
<1>5. 0 <= e /\ e < m
  <2>1. s \in Nat /\ s + 1 <= b /\ s + 1 \in Nat
    BY <1>2
  <2>2. (s + 1) * a <= b * a
    BY <2>1, Monotone
  <2>3. (s + 1) * a = a * s + a /\ b * a = m /\ a * s >= 0
    BY <2>1, <1>3
  <2> QED BY <2>2, <2>3, <1>1, <1>2, <1>4
<1>6. n = m * t + e
  <2>1. a * (b * t + s) = (a * b) * t + a * s
    BY <1>2
  <2> QED BY <2>1, <1>1, <1>2, <1>3, <1>4
<1>7. n \div m = t
  BY <1>3, <1>5, <1>6, Quotient
<1> QED BY <1>1, <1>2, <1>3, <1>7

\* A number that is divided by more than its absolute value.
LEMMA Vanishes ==
  ASSUME NEW m \in Nat, m > 0, NEW n \in Int, 0 - m <= n, n < m
  PROVE  n \div m = IF n < 0 THEN -1 ELSE 0
<1>1. CASE n < 0
  <2>1. PICK q, r \in Int : q = -1 /\ r = n + m
    OBVIOUS
  <2>2. 0 <= r /\ r < m /\ n = m * q + r
    BY <2>1, <1>1
  <2> QED BY <2>1, <2>2, <1>1, Quotient
<1>2. CASE ~(n < 0)
  <2>1. PICK q, r \in Int : q = 0 /\ r = n
    OBVIOUS
  <2>2. 0 <= r /\ r < m /\ n = m * q + r
    BY <2>1, <1>2
  <2> QED BY <2>1, <2>2, <1>2, Quotient
<1> QED BY <1>1, <1>2

\* The rest of a product, from the rest of one factor.
LEMMA RestOfProduct ==
  ASSUME NEW m \in Nat, m > 0, NEW n \in Int, NEW k \in Int
  PROVE  ((n % m) * k) % m = (n * k) % m
<1>1. PICK q, r \in Int : q = n \div m /\ r = (n % m) /\ n = m * q + r
  BY Division
<1>2. PICK t \in Int : t = r * k
  BY <1>1
<1>3. PICK a, b \in Int : a = t \div m /\ b = (t % m) /\ 0 <= b /\ b < m /\ t = m * a + b
  BY <1>2, Division
<1>4. n * k = m * (q * k + a) + b
  <2>1. (m * q + r) * k = m * (q * k) + r * k
    BY <1>1
  <2>2. m * (q * k + a) = m * (q * k) + m * a
    BY <1>1, <1>3
  <2> QED BY <2>1, <2>2, <1>1, <1>2, <1>3
<1>5. PICK c \in Int : c = q * k + a
  BY <1>1, <1>3
<1>6. (m * c + b) % m = b
  BY <1>3, <1>5, Quotient
<1> QED BY <1>1, <1>2, <1>3, <1>4, <1>5, <1>6

\* The bits of a shift that matter.
Clipped(s) == IF s >= Bits THEN Bits ELSE s

LEMMA LeftIs ==
  ASSUME NEW p, IsPower(p), NEW u \in 0 .. UV_MAX, NEW s \in Nat
  PROVE  uv_shift(u, s) = AsUV(u * p[Clipped(s)]) /\ uv_shift(u, s) \in 0 .. UV_MAX
<1>1. M \in Nat /\ M > 0 /\ UV_MAX = M - 1
  BY Width
<1>2. Bits \in Nat /\ Bits > 0 /\ p[Bits] = M /\ \A k \in 0 .. Bits : p[k] = 2 ^ k /\ p[k] \in Nat
  BY PowersAre
<1> HIDE DEF M, UV_MAX
<1>3. u \in Int /\ u * M \in Int /\ u * M = M * u
  BY <1>1
<1>4. uv_shift(u, s) = AsUV(u * p[Clipped(s)])
  <2>1. CASE s >= Bits
    <3>1. uv_shift(u, s) = 0
      BY <2>1, <1>2 DEF uv_shift
    <3>2. (u * M) % M = 0
      BY <1>1, <1>3, Multiple
    <3> QED BY <2>1, <3>1, <3>2, <1>2 DEF Clipped, AsUV
  <2>2. CASE ~(s >= Bits)
    <3>1. uv_shift(u, s) = AsUV(u * 2 ^ s)
      <4>1. s >= 0 /\ s < Bits /\ ~(-s >= Bits)
        BY <2>2, <1>2
      <4> QED BY <2>2, <4>1 DEF uv_shift
    <3>2. s \in 0 .. Bits
      BY <2>2, <1>2
    <3> QED BY <2>2, <3>1, <3>2, <1>2 DEF Clipped
  <2> QED BY <2>1, <2>2
<1>5. Clipped(s) \in 0 .. Bits
  BY <1>2 DEF Clipped
<1>6. u * p[Clipped(s)] \in Int
  BY <1>2, <1>3, <1>5
<1> QED BY <1>4, <1>6, Casts

LEMMA RightIs ==
  ASSUME NEW p, IsPower(p), NEW s \in Nat
  PROVE  /\ \A u \in 0 .. UV_MAX : /\ uv_shift(u, -s) = u \div p[Clipped(s)]
                                   /\ uv_shift(u, -s) \in 0 .. UV_MAX
         /\ \A i \in IV_MIN .. IV_MAX : /\ iv_shift(i, -s) = i \div p[Clipped(s)]
                                        /\ iv_shift(i, -s) \in IV_MIN .. IV_MAX
<1>1. M \in Nat /\ M > 0 /\ M = 2 * (M \div 2) /\ M \div 2 \in Nat
      /\ IV_MIN = 0 - M \div 2 /\ IV_MAX = M \div 2 - 1 /\ UV_MAX = M - 1
  BY Width
<1>2. /\ Bits \in Nat /\ Bits > 0 /\ p[0] = 1 /\ p[Bits] = M
      /\ \A k \in 0 .. Bits : p[k] = 2 ^ k /\ p[k] \in Nat /\ p[k] > 0
  BY PowersAre
<1> HIDE DEF M, IV_MIN, IV_MAX, UV_MAX
<1>3. Clipped(s) \in 0 .. Bits
  BY <1>2 DEF Clipped
<1>4. \A m \in Nat, n \in Int : m > 0 => /\ n >= 0 => 0 <= n \div m /\ n \div m <= n
                                         /\ n < 0 => n <= n \div m /\ n \div m < 0
  <2> TAKE m \in Nat, n \in Int
  <2> SUFFICES ASSUME m > 0
               PROVE  /\ n >= 0 => 0 <= n \div m /\ n \div m <= n
                      /\ n < 0 => n <= n \div m /\ n \div m < 0
    OBVIOUS
  <2>1. PICK q, r \in Int : q = n \div m /\ 0 <= r /\ r < m /\ n = m * q + r
    <3>1. n \div m \in Int /\ (n % m) \in Int /\ 0 <= (n % m) /\ (n % m) < m /\ n = m * (n \div m) + (n % m)
      BY Division
    <3> QED BY <3>1
  <2>2. q >= 0 => m * q >= q
    BY <2>1
  <2>3. q < 0 => m * q <= 0 - m /\ m * q <= q
    BY <2>1
  <2>4. n < 0 => n <= q
    <3>1. SUFFICES ASSUME n < 0, q < n
                   PROVE  FALSE
      BY <2>1
    <3>2. PICK d \in Nat : q = n - d /\ d >= 1
      BY <2>1, <3>1
    <3>3. m * (n - d) = m * n - m * d /\ m * d >= m /\ m * n <= n
      BY <3>1, <3>2
    <3> QED BY <2>1, <3>2, <3>3
  <2> QED BY <2>1, <2>2, <2>3, <2>4
<1>5. CASE s >= Bits
  <2>1. p[Clipped(s)] = M /\ -s < 0
    BY <1>2, <1>5 DEF Clipped
  <2>2. -(-s) >= Bits
    BY <1>2, <1>5
  <2>3. ASSUME NEW u \in 0 .. UV_MAX
        PROVE  uv_shift(u, -s) = u \div M /\ uv_shift(u, -s) \in 0 .. UV_MAX
    <3>1. uv_shift(u, -s) = 0
      <4>1. ~(-s >= 0)
        BY <1>2, <1>5
      <4> QED BY <2>2, <4>1 DEF uv_shift
    <3>2. u \in Int /\ 0 - M <= u /\ u < M /\ ~(u < 0)
      BY <1>1
    <3> QED BY <3>1, <3>2, <1>1, Vanishes
  <2>4. ASSUME NEW i \in IV_MIN .. IV_MAX
        PROVE  iv_shift(i, -s) = i \div M /\ iv_shift(i, -s) \in IV_MIN .. IV_MAX
    <3>1. iv_shift(i, -s) = IF i < 0 THEN -1 ELSE 0
      BY <2>1, <2>2 DEF iv_shift
    <3>2. i \in Int /\ 0 - M <= i /\ i < M
      BY <1>1
    <3>3. iv_shift(i, -s) = i \div M
      BY <3>1, <3>2, <1>1, Vanishes
    <3> QED BY <3>1, <3>3, <1>1
  <2> QED BY <2>1, <2>3, <2>4
<1>6. CASE ~(s > 0)
  <2>1. p[Clipped(s)] = 1 /\ 2 ^ 0 = 1
    <3>1. s = 0
      BY <1>6
    <3> QED BY <3>1, <1>2, BitsAssumption DEF Clipped
  <2>2. -s = s /\ ~(s >= Bits) /\ ~(-s >= Bits) /\ s >= 0 /\ s < Bits
    <3>1. PICK z \in Int : z = -s
      OBVIOUS
    <3>2. z = s
      BY <3>1, <1>6
    <3> QED BY <3>1, <3>2, <1>2, <1>6
  <2>3. ASSUME NEW u \in 0 .. UV_MAX
        PROVE  uv_shift(u, s) = u \div 1 /\ uv_shift(u, s) \in 0 .. UV_MAX
    <3>0. s = 0
      BY <1>6
    <3>1. u \in Int /\ u * 1 = u /\ u \div 1 = u
      BY <1>1
    <3>2. uv_shift(u, s) = AsUV(u * 2 ^ s)
      BY <2>2, <1>2 DEF uv_shift
    <3>3. AsUV(u) = u
      BY <3>1, <1>1, Casts
    <3> QED BY <2>1, <3>1, <3>2, <3>3, <3>0
  <2>4. ASSUME NEW i \in IV_MIN .. IV_MAX
        PROVE  iv_shift(i, s) = i \div 1 /\ iv_shift(i, s) \in IV_MIN .. IV_MAX
    <3>0. s = 0
      BY <1>6
    <3>1. i \in Int /\ i \div 1 = i
      BY <1>1
    <3>2. iv_shift(i, s) = AsIV(AsUV(i) * 2 ^ s)
      BY <2>2, <1>2 DEF iv_shift
    <3>3. AsUV(i) \in 0 .. UV_MAX /\ AsIV(i) = i
      BY <3>1, Casts
    <3>4. AsUV(i) \in Int /\ AsUV(i) * 1 = AsUV(i) /\ AsUV(AsUV(i)) = AsUV(i)
      <4>1. PICK u \in 0 .. UV_MAX : u = AsUV(i)
        BY <3>3
      <4>2. u \in Int /\ u * 1 = u
        BY <1>1
      <4>3. AsUV(u) = u
        BY <4>2, <1>1, Casts
      <4> QED BY <4>1, <4>2, <4>3
    <3>5. AsIV(AsUV(i)) = AsIV(i)
      BY <3>4 DEF AsIV
    <3> QED BY <2>1, <3>1, <3>2, <3>3, <3>4, <3>5, <3>0
  <2> QED BY <2>1, <2>2, <2>3, <2>4
<1>7. CASE ~(s >= Bits) /\ s > 0
  <2>1. p[Clipped(s)] = 2 ^ s /\ p[Clipped(s)] \in Nat /\ p[Clipped(s)] > 0
    BY <1>2, <1>3, <1>7 DEF Clipped
  <2>2. -(-s) = s /\ ~(-s >= Bits) /\ ~(-(-s) >= Bits) /\ ~(-s >= 0) /\ -s \in Int
    BY <1>2, <1>7
  <2>3. ASSUME NEW u \in 0 .. UV_MAX
        PROVE  uv_shift(u, -s) = u \div 2 ^ s /\ uv_shift(u, -s) \in 0 .. UV_MAX
    <3>1. uv_shift(u, -s) = u \div 2 ^ s
      BY <2>2 DEF uv_shift
    <3>2. u \in Int /\ u >= 0 /\ u <= UV_MAX
      BY <1>1
    <3>3. 0 <= u \div p[Clipped(s)] /\ u \div p[Clipped(s)] <= u
      BY <3>2, <2>1, <1>4
    <3>4. u \div p[Clipped(s)] \in Int
      BY <3>2, <2>1, DivDiv
    <3> QED BY <3>1, <3>2, <3>3, <3>4, <2>1, <1>1
  <2>4. ASSUME NEW i \in IV_MIN .. IV_MAX
        PROVE  iv_shift(i, -s) = i \div 2 ^ s /\ iv_shift(i, -s) \in IV_MIN .. IV_MAX
    <3>1. iv_shift(i, -s) = i \div 2 ^ s
      BY <2>2 DEF iv_shift
    <3>2. i \in Int /\ i >= IV_MIN /\ i <= IV_MAX
      BY <1>1
    <3>3. /\ i >= 0 => 0 <= i \div p[Clipped(s)] /\ i \div p[Clipped(s)] <= i
          /\ i < 0 => i <= i \div p[Clipped(s)] /\ i \div p[Clipped(s)] < 0
      BY <3>2, <2>1, <1>4
    <3>4. i \div p[Clipped(s)] \in Int
      BY <3>2, <2>1, DivDiv
    <3> QED BY <3>1, <3>2, <3>3, <3>4, <2>1, <1>1
  <2> QED BY <2>1, <2>3, <2>4
<1> QED BY <1>5, <1>6, <1>7

LEMMA ShiftsExact == ArithTypeOK => ShiftsCompose
<1> SUFFICES ASSUME ArithTypeOK, Held, NEW k \in 0 .. Bits, NEW l \in 0 .. Bits
             PROVE  /\ uv_shift(uv_shift(AsUV(sv.n), k), l) = uv_shift(AsUV(sv.n), k + l)
                    /\ uv_shift(uv_shift(AsUV(sv.n), -k), -l) = uv_shift(AsUV(sv.n), -(k + l))
                    /\ iv_shift(iv_shift(AsIV(sv.n), -k), -l) = iv_shift(AsIV(sv.n), -(k + l))
  BY DEF ShiftsCompose
<1>1. sv.n \in Int
  <2>1. sv \in Integer
    BY DEF ArithTypeOK, Held, Double
  <2> QED BY <2>1, NumbersAre
<1>2. PICK u \in 0 .. UV_MAX, i \in IV_MIN .. IV_MAX : u = AsUV(sv.n) /\ i = AsIV(sv.n)
  BY <1>1, Casts
<1>3. M \in Nat /\ M > 0 /\ M = 2 * (M \div 2) /\ M \div 2 \in Nat
      /\ IV_MIN = 0 - M \div 2 /\ IV_MAX = M \div 2 - 1 /\ UV_MAX = M - 1
  BY Width
<1>4. PICK p : IsPower(p)
  BY DEF IsPower
<1>5. /\ Bits \in Nat /\ Bits > 0 /\ p[Bits] = M
      /\ \A j \in 0 .. Bits : p[j] \in Nat /\ p[j] > 0
  BY <1>4, PowersAre
<1>6. /\ k + l <= Bits => p[k] * p[l] = p[k + l]
      /\ k + l > Bits => \E c \in Nat : c > 0 /\ p[k] * p[l] = M * c
  BY <1>4, PowersAre
<1> HIDE DEF M, IV_MIN, IV_MAX, UV_MAX
<1>7. Clipped(k) = k /\ Clipped(l) = l /\ k \in Nat /\ l \in Nat /\ k + l \in Nat
      /\ Clipped(k + l) = IF k + l <= Bits THEN k + l ELSE Bits
  BY <1>5 DEF Clipped
<1>8. PICK a, b, c \in Nat : /\ a = p[k] /\ a > 0 /\ b = p[l] /\ b > 0 /\ c = p[Clipped(k + l)] /\ c > 0
  <2>1. k \in 0 .. Bits /\ l \in 0 .. Bits /\ Clipped(k + l) \in 0 .. Bits
    BY <1>5, <1>7
  <2> QED BY <2>1, <1>5
<1>9. a * b = c \/ (c = M /\ \E d \in Nat : d > 0 /\ a * b = M * d)
  <2>1. CASE k + l <= Bits
    BY <2>1, <1>6, <1>7, <1>8
  <2>2. CASE k + l > Bits
    <3>1. ~(k + l <= Bits)
      BY <2>2, <1>5, <1>7
    <3> QED BY <2>2, <3>1, <1>5, <1>6, <1>7, <1>8
  <2> QED BY <2>1, <2>2, <1>5, <1>7
<1>10. u \in Int /\ i \in Int /\ 0 <= u /\ u < M /\ 0 - M <= i /\ i < M
  BY <1>3
<1>11. \A n \in Int : 0 - M <= n /\ n < M => (n \div a) \div b = n \div c
  <2> SUFFICES ASSUME NEW n \in Int, 0 - M <= n, n < M
               PROVE  (n \div a) \div b = n \div c
    OBVIOUS
  <2>1. (n \div a) \div b = n \div (a * b)
    BY <1>8, DivDiv
  <2>2. CASE a * b = c
    BY <2>1, <2>2
  <2>3. CASE c = M /\ \E d \in Nat : d > 0 /\ a * b = M * d
    <3>1. PICK d \in Nat : d > 0 /\ a * b = M * d
      BY <2>3
    <3>2. PICK m \in Nat : m = a * b /\ m >= M /\ m > 0
      <4>1. M * d >= M /\ M * d \in Nat
        BY <3>1, <1>3
      <4> QED BY <4>1, <3>1, <1>3
    <3>3. 0 - m <= n /\ n < m
      BY <3>2, <1>3
    <3>4. n \div m = n \div M
      BY <3>2, <3>3, <1>3, Vanishes
    <3> QED BY <2>1, <2>3, <3>2, <3>4
  <2> QED BY <1>9, <2>2, <2>3
<1>12. uv_shift(uv_shift(u, k), l) = uv_shift(u, k + l)
  <2>0. \A s \in Nat : \A v \in 0 .. UV_MAX : /\ uv_shift(v, s) = AsUV(v * p[Clipped(s)])
                                              /\ uv_shift(v, s) \in 0 .. UV_MAX
    BY <1>4, LeftIs
  <2>1. uv_shift(u, k) = AsUV(u * a) /\ uv_shift(u, k) \in 0 .. UV_MAX
    BY <2>0, <1>7, <1>8
  <2>2. uv_shift(uv_shift(u, k), l) = AsUV(AsUV(u * a) * b)
    <3>1. \A v \in 0 .. UV_MAX : uv_shift(v, l) = AsUV(v * b)
      BY <2>0, <1>7, <1>8
    <3> QED BY <2>1, <3>1
  <2>3. AsUV(AsUV(u * a) * b) = AsUV((u * a) * b)
    <3>1. PICK n \in Int : n = u * a
      BY <1>8, <1>10
    <3>2. ((n % M) * b) % M = (n * b) % M
      <4>1. PICK m \in Nat, e \in Int : m = M /\ m > 0 /\ e = b
        BY <1>3
      <4>2. ((n % m) * e) % m = (n * e) % m
        BY <4>1, RestOfProduct
      <4> QED BY <4>1, <4>2
    <3> QED BY <3>1, <3>2 DEF AsUV
  <2>4. (u * a) * b = u * (a * b)
    BY <1>8, <1>10
  <2>5. uv_shift(u, k + l) = AsUV(u * c)
    BY <2>0, <1>7, <1>8
  <2>6. AsUV(u * (a * b)) = AsUV(u * c)
    <3>1. CASE a * b = c
      BY <3>1
    <3>2. CASE c = M /\ \E d \in Nat : d > 0 /\ a * b = M * d
      <4>1. PICK d \in Nat : a * b = M * d
        BY <3>2
      <4>2. PICK n, e \in Int : n = u * (M * d) /\ e = u * d /\ n = M * e
        <5>1. u * (M * d) = M * (u * d) /\ u * d \in Int /\ u * (M * d) \in Int
          BY <1>3, <1>10
        <5> QED BY <5>1
      <4>3. PICK w \in Int : w = u * M /\ w = M * u
        BY <1>3, <1>10
      <4>4. n % M = 0 /\ w % M = 0
        BY <4>2, <4>3, <1>3, <1>10, Multiple
      <4> QED BY <3>2, <4>1, <4>2, <4>3, <4>4 DEF AsUV
    <3> QED BY <1>9, <3>1, <3>2
  <2> QED BY <2>2, <2>3, <2>4, <2>5, <2>6
<1>13. uv_shift(uv_shift(u, -k), -l) = uv_shift(u, -(k + l))
  <2>1. \A v \in 0 .. UV_MAX : /\ uv_shift(v, -k) = v \div a /\ uv_shift(v, -k) \in 0 .. UV_MAX
                               /\ uv_shift(v, -l) = v \div b
                               /\ uv_shift(v, -(k + l)) = v \div c
    <3>1. \A s \in Nat : \A v \in 0 .. UV_MAX : /\ uv_shift(v, -s) = v \div p[Clipped(s)]
                                                /\ uv_shift(v, -s) \in 0 .. UV_MAX
      BY <1>4, RightIs
    <3> QED BY <3>1, <1>7, <1>8
  <2>2. uv_shift(uv_shift(u, -k), -l) = (u \div a) \div b
    <3>1. PICK v \in 0 .. UV_MAX : v = uv_shift(u, -k)
      BY <2>1
    <3>2. uv_shift(v, -l) = v \div b /\ v = u \div a
      BY <2>1, <3>1
    <3> QED BY <3>1, <3>2
  <2>3. (u \div a) \div b = u \div c
    <3>1. u \in Int /\ 0 - M <= u /\ u < M
      BY <1>3, <1>10
    <3> QED BY <3>1, <1>11
  <2>4. uv_shift(u, -(k + l)) = u \div c
    BY <2>1
  <2> QED BY <2>2, <2>3, <2>4
<1>14. iv_shift(iv_shift(i, -k), -l) = iv_shift(i, -(k + l))
  <2>1. \A v \in IV_MIN .. IV_MAX : /\ iv_shift(v, -k) = v \div a /\ iv_shift(v, -k) \in IV_MIN .. IV_MAX
                                    /\ iv_shift(v, -l) = v \div b
                                    /\ iv_shift(v, -(k + l)) = v \div c
    <3>1. \A s \in Nat : \A v \in IV_MIN .. IV_MAX : /\ iv_shift(v, -s) = v \div p[Clipped(s)]
                                                     /\ iv_shift(v, -s) \in IV_MIN .. IV_MAX
      BY <1>4, RightIs
    <3> QED BY <3>1, <1>7, <1>8
  <2>2. iv_shift(iv_shift(i, -k), -l) = (i \div a) \div b
    <3>1. PICK v \in IV_MIN .. IV_MAX : v = iv_shift(i, -k)
      BY <2>1
    <3>2. iv_shift(v, -l) = v \div b /\ v = i \div a
      BY <2>1, <3>1
    <3> QED BY <3>1, <3>2
  <2>3. (i \div a) \div b = i \div c
    <3>1. i \in Int /\ 0 - M <= i /\ i < M
      BY <1>3, <1>10
    <3> QED BY <3>1, <1>11
  <2>4. iv_shift(i, -(k + l)) = i \div c
    BY <2>1
  <2> QED BY <2>2, <2>3, <2>4
<1> QED BY <1>2, <1>12, <1>13, <1>14

\* Every amount shifts to a number that fits.
LEMMA ShiftTypes ==
  ASSUME NEW b \in Integer
  PROVE  /\ \A u \in 0 .. UV_MAX : /\ uv_shift(u, shift_amount(b)) \in 0 .. UV_MAX
                                   /\ uv_shift(u, 0 - shift_amount(b)) \in 0 .. UV_MAX
         /\ \A i \in IV_MIN .. IV_MAX : iv_shift(i, shift_amount(b)) \in IV_MIN .. IV_MAX
<1>1. PICK p : IsPower(p)
  BY DEF IsPower
<1>2. Bits \in Nat /\ Bits > 0
  BY <1>1, PowersAre
<1>3. b.n \in Int
  BY NumbersAre
<1>4. PICK s \in Nat : shift_amount(b) = s \/ shift_amount(b) = -s
  <2>1. PICK m \in Int : m = b.n
    BY <1>3
  <2>2. m \in Nat \/ -m \in Nat
    OBVIOUS
  <2>3. m = -(-m)
    OBVIOUS
  <2> QED BY <1>2, <2>1, <2>2, <2>3 DEF shift_amount
<1>5. 0 - s = -s /\ 0 - (-s) = s
  OBVIOUS
<1>6. \A u \in 0 .. UV_MAX : uv_shift(u, s) \in 0 .. UV_MAX /\ uv_shift(u, -s) \in 0 .. UV_MAX
  BY <1>1, LeftIs, RightIs
<1>7. \A i \in IV_MIN .. IV_MAX : iv_shift(i, s) \in IV_MIN .. IV_MAX /\ iv_shift(i, -s) \in IV_MIN .. IV_MAX
  <2> SUFFICES ASSUME NEW i \in IV_MIN .. IV_MAX
               PROVE  iv_shift(i, s) \in IV_MIN .. IV_MAX
    BY <1>1, RightIs
  <2>1. CASE s >= Bits
    <3>1. iv_shift(i, s) = 0
      <4>1. ~(s < 0) /\ s >= 0 /\ ~(s < Bits)
        BY <1>2, <2>1
      <4> QED BY <2>1, <4>1 DEF iv_shift
    <3>2. 0 \in IV_MIN .. IV_MAX
      <4>1. M \in Nat /\ M > 0 /\ M = 2 * (M \div 2) /\ M \div 2 \in Nat
            /\ IV_MIN = 0 - M \div 2 /\ IV_MAX = M \div 2 - 1
        BY Width
      <4> HIDE DEF M, IV_MIN, IV_MAX
      <4> QED BY <4>1
    <3> QED BY <3>1, <3>2
  <2>2. CASE ~(s >= Bits)
    <3>1. iv_shift(i, s) = AsIV(AsUV(i) * 2 ^ s)
      <4>1. s >= 0 /\ s < Bits /\ ~(-s >= Bits)
        BY <1>2, <2>2
      <4> QED BY <2>2, <4>1 DEF iv_shift
    <3>2. s \in 0 .. Bits
      BY <1>2, <2>2
    <3>3. PICK w \in Nat : w = 2 ^ s
      BY <3>2, <1>1, PowersAre
    <3>4. i \in Int
      BY Width
    <3>5. AsUV(i) \in Int
      BY <3>4, Casts, Width
    <3>6. AsUV(i) * w \in Int
      BY <3>5
    <3> QED BY <3>1, <3>3, <3>6, Casts
  <2> QED BY <2>1, <2>2
<1> QED BY <1>4, <1>5, <1>6, <1>7

-----------------------------------------------------------------------------
(* Powers.                                                                 *)

\* A function that is defined by what it is at 0 and by a step.
Recursive(rec, S, c, g) == rec \in [Nat -> S] /\ rec[0] = c /\ \A k \in Nat : rec[k + 1] = g[rec[k]]

LEMMA Recursion ==
  ASSUME NEW S, NEW c, NEW g, c \in S, g \in [S -> S]
  PROVE  \E rec : Recursive(rec, S, c, g)
<1> DEFINE Part(n, h) == h \in [0 .. n -> S] /\ h[0] = c /\ \A k \in 0 .. n - 1 : h[k + 1] = g[h[k]]
           T == {n \in Nat : \E h : Part(n, h)}
<1>1. 0 \in T
  <2>1. [k \in 0 .. 0 |-> c] \in [0 .. 0 -> S] /\ [k \in 0 .. 0 |-> c][0] = c
    OBVIOUS
  <2>2. Part(0, [k \in 0 .. 0 |-> c])
    BY <2>1
  <2> QED BY <2>2
<1>2. ASSUME NEW n \in Nat, n \in T
      PROVE  n + 1 \in T
  <2>1. PICK h : Part(n, h)
    BY <1>2
  <2>2. PICK e : e = [k \in 0 .. n + 1 |-> IF k = n + 1 THEN g[h[n]] ELSE h[k]]
    OBVIOUS
  <2>3. n \in 0 .. n /\ h[n] \in S /\ g[h[n]] \in S
    BY <2>1
  <2>4. \A k \in 0 .. n + 1 : k = n + 1 \/ k \in 0 .. n
    OBVIOUS
  <2>5. e \in [0 .. n + 1 -> S]
    BY <2>1, <2>2, <2>3, <2>4
  <2>6. e[0] = c
    <3>1. 0 \in 0 .. n + 1 /\ 0 # n + 1 /\ h[0] = c
      BY <2>1
    <3> QED BY <2>2, <3>1
  <2>7. ASSUME NEW k \in 0 .. (n + 1) - 1
        PROVE  e[k + 1] = g[e[k]]
    <3>1. k \in 0 .. n + 1 /\ k + 1 \in 0 .. n + 1 /\ k # n + 1
      OBVIOUS
    <3>2. e[k] = h[k]
      BY <2>2, <3>1
    <3>3. CASE k = n
      <4>1. e[k + 1] = g[h[n]]
        BY <2>2, <3>1, <3>3
      <4> QED BY <4>1, <3>2, <3>3
    <3>4. CASE k # n
      <4>1. k \in 0 .. n - 1 /\ k + 1 # n + 1
        BY <3>4
      <4>2. e[k + 1] = h[k + 1]
        BY <2>2, <3>1, <4>1
      <4>3. h[k + 1] = g[h[k]]
        BY <2>1, <4>1
      <4> QED BY <4>2, <4>3, <3>2
    <3> QED BY <3>3, <3>4
  <2>8. Part(n + 1, e)
    BY <2>5, <2>6, <2>7
  <2> QED BY <2>8
<1>3. Nat \subseteq T
  <2> HIDE DEF T
  <2> QED BY <1>1, <1>2, ByInduction
<1>4. PICK part : part = [n \in Nat |-> CHOOSE h : Part(n, h)]
  OBVIOUS
<1>5. \A n \in Nat : Part(n, part[n])
  <2> TAKE n \in Nat
  <2>1. \E h : Part(n, h)
    BY <1>3
  <2>2. part[n] = CHOOSE h : Part(n, h)
    BY <1>4
  <2> HIDE DEF Part
  <2> QED BY <2>1, <2>2
\* Two parts agree where both are defined.
<1>6. ASSUME NEW n \in Nat, NEW m \in Nat
      PROVE  \A k \in Nat : k <= n /\ k <= m => part[n][k] = part[m][k]
  <2> DEFINE U == {k \in Nat : k <= n /\ k <= m => part[n][k] = part[m][k]}
  <2>1. 0 \in U
    BY <1>5
  <2>2. ASSUME NEW k \in Nat, k \in U
        PROVE  k + 1 \in U
    <3> SUFFICES ASSUME k + 1 <= n, k + 1 <= m
                 PROVE  part[n][k + 1] = part[m][k + 1]
      OBVIOUS
    <3>1. part[n][k] = part[m][k]
      BY <2>2
    <3>2. k \in 0 .. n - 1 /\ k \in 0 .. m - 1
      OBVIOUS
    <3>3. part[n][k + 1] = g[part[n][k]]
      <4>1. Part(n, part[n])
        BY <1>5
      <4> QED BY <3>2, <4>1
    <3>4. part[m][k + 1] = g[part[m][k]]
      <4>1. Part(m, part[m])
        BY <1>5
      <4> QED BY <3>2, <4>1
    <3> QED BY <3>1, <3>3, <3>4
  <2>3. Nat \subseteq U
    <3> HIDE DEF U
    <3> QED BY <2>1, <2>2, ByInduction
  <2> QED BY <2>3
<1>7. PICK rec : rec = [n \in Nat |-> part[n][n]]
  OBVIOUS
<1>8. rec \in [Nat -> S]
  <2>1. ASSUME NEW n \in Nat
        PROVE  part[n][n] \in S
    <3>1. Part(n, part[n])
      BY <1>5
    <3> QED BY <3>1
  <2> QED BY <1>7, <2>1
<1>9. rec[0] = c
  <2>1. Part(0, part[0])
    BY <1>5
  <2>2. part[0][0] = c
    BY <2>1
  <2> QED BY <1>7, <2>2
<1>10. ASSUME NEW k \in Nat
       PROVE  rec[k + 1] = g[rec[k]]
  <2>1. PICK n \in Nat : n = k + 1
    OBVIOUS
  <2>2. rec[k] = part[k][k] /\ rec[n] = part[n][n]
    BY <1>7
  <2>3. part[n][k] = part[k][k]
    <3>1. k <= n /\ k <= k
      BY <2>1
    <3> QED BY <3>1, <1>6
  <2>4. part[n][k + 1] = g[part[n][k]]
    <3>1. Part(n, part[n])
      BY <1>5
    <3>2. k \in 0 .. n - 1
      BY <2>1
    <3> QED BY <3>1, <3>2
  <2> QED BY <2>1, <2>2, <2>3, <2>4
<1> QED BY <1>8, <1>9, <1>10 DEF Recursive

LEMMA UVPowerIs ==
  ASSUME NEW base \in 0 .. UV_MAX
  PROVE  \E p \in [Nat -> 0 .. UV_MAX] : /\ p[0] = 1 /\ \A k \in Nat : p[k + 1] = AsUV(p[k] * base)
                                         /\ \A n \in Nat : UVPower(base, n) = p[n]
<1>1. M \in Nat /\ M > 1 /\ UV_MAX = M - 1
  BY Width, Quarter
<1> HIDE DEF M, UV_MAX
<1>2. \A v \in 0 .. UV_MAX : AsUV(v * base) \in 0 .. UV_MAX
  <2> TAKE v \in 0 .. UV_MAX
  <2>1. v * base \in Int
    BY <1>1
  <2> QED BY <2>1, Casts
<1>3. PICK g \in [0 .. UV_MAX -> 0 .. UV_MAX] : \A v \in 0 .. UV_MAX : g[v] = AsUV(v * base)
  <2>1. PICK g : g = [v \in 0 .. UV_MAX |-> AsUV(v * base)]
    OBVIOUS
  <2>2. g \in [0 .. UV_MAX -> 0 .. UV_MAX]
    BY <2>1, <1>2
  <2> QED BY <2>1, <2>2
<1>4. 1 \in 0 .. UV_MAX
  BY <1>1
<1>5. PICK rec \in [Nat -> 0 .. UV_MAX] : rec[0] = 1 /\ \A k \in Nat : rec[k + 1] = g[rec[k]]
  <2>1. \E rec : Recursive(rec, 0 .. UV_MAX, 1, g)
    BY <1>3, <1>4, Recursion
  <2> QED BY <2>1 DEF Recursive
<1>6. \A k \in Nat : rec[k + 1] = AsUV(rec[k] * base)
  BY <1>3, <1>5
<1> DEFINE Step(p) == [k \in Nat |-> IF k = 0 THEN 1 ELSE AsUV(p[k - 1] * base)]
           P == CHOOSE p : p = Step(p)
<1>7. rec = Step(rec)
  <2>1. ASSUME NEW k \in Nat, k # 0
        PROVE  rec[k] = AsUV(rec[k - 1] * base)
    <3>1. PICK j \in Nat : j = k - 1 /\ k = j + 1
      BY <2>1
    <3> QED BY <3>1, <1>6
  <2>2. \A k \in Nat : rec[k] = IF k = 0 THEN 1 ELSE AsUV(rec[k - 1] * base)
    BY <2>1, <1>5
  <2> QED BY <2>2
<1>8. P = Step(P)
  <2> HIDE DEF Step
  <2> QED BY <1>7
<1>9. \A n \in Nat : UVPower(base, n) = P[n]
  BY DEF UVPower
<1>10. P[0] = 1 /\ \A k \in Nat : P[k + 1] = AsUV(P[k] * base)
  <2> HIDE DEF P
  <2>1. \A k \in Nat : P[k] = IF k = 0 THEN 1 ELSE AsUV(P[k - 1] * base)
    BY <1>8
  <2>2. \A k \in Nat : k + 1 \in Nat /\ k + 1 # 0 /\ k + 1 - 1 = k
    OBVIOUS
  <2> QED BY <2>1, <2>2
<1> HIDE DEF P
<1>11. \A n \in Nat : P[n] = rec[n]
  <2> DEFINE T == {n \in Nat : P[n] = rec[n]}
  <2>1. 0 \in T
    BY <1>5, <1>10
  <2>2. ASSUME NEW k \in Nat, k \in T
        PROVE  k + 1 \in T
    <3>1. P[k] = rec[k]
      BY <2>2
    <3>2. P[k + 1] = AsUV(P[k] * base) /\ rec[k + 1] = AsUV(rec[k] * base)
      BY <1>6, <1>10
    <3> QED BY <3>1, <3>2
  <2>3. Nat \subseteq T
    <3> HIDE DEF T
    <3> QED BY <2>1, <2>2, ByInduction
  <2> QED BY <2>3
<1> QED BY <1>5, <1>6, <1>9, <1>11

\* The exact power of x, counted up to M (as in PowerIsExact).
Exact(x) ==
  CHOOSE e : e = [k \in Nat |-> IF k = 0 THEN 1 ELSE IF e[k - 1] >= M THEN M ELSE e[k - 1] * x]

LEMMA ExactIs ==
  ASSUME NEW x \in Nat
  PROVE  /\ Exact(x)[0] = 1
         /\ \A k \in Nat : /\ Exact(x)[k] \in Nat
                           /\ Exact(x)[k] < M => Exact(x)[k + 1] = Exact(x)[k] * x
<1>1. M \in Nat /\ M > 1
  BY Quarter
<1> HIDE DEF M
<1>2. PICK S, c : S = Nat /\ c = 1
  OBVIOUS
<1>3. PICK g : g = [v \in Nat |-> IF v >= M THEN M ELSE v * x]
  OBVIOUS
<1>4. c \in S /\ g \in [S -> S]
  <2>1. \A v \in Nat : (IF v >= M THEN M ELSE v * x) \in Nat
    BY <1>1
  <2> QED BY <2>1, <1>2, <1>3
<1>5. PICK rec \in [Nat -> Nat] : rec[0] = 1 /\ \A k \in Nat : rec[k + 1] = g[rec[k]]
  <2>1. \E rec \in [Nat -> S] : rec[0] = c /\ \A k \in Nat : rec[k + 1] = g[rec[k]]
    <3>1. \E rec : Recursive(rec, S, c, g)
      BY <1>4, Recursion
    <3> QED BY <3>1 DEF Recursive
  <2> QED BY <1>2, <2>1
<1>6. \A k \in Nat : rec[k + 1] = IF rec[k] >= M THEN M ELSE rec[k] * x
  BY <1>3, <1>5
<1> DEFINE Step(e) == [k \in Nat |-> IF k = 0 THEN 1 ELSE IF e[k - 1] >= M THEN M ELSE e[k - 1] * x]
           P == CHOOSE e : e = Step(e)
<1>7. rec = Step(rec)
  <2>1. ASSUME NEW k \in Nat, k # 0
        PROVE  rec[k] = IF rec[k - 1] >= M THEN M ELSE rec[k - 1] * x
    <3>1. PICK j \in Nat : j = k - 1 /\ k = j + 1
      BY <2>1
    <3> QED BY <3>1, <1>6
  <2>2. \A k \in Nat : rec[k] = IF k = 0 THEN 1 ELSE IF rec[k - 1] >= M THEN M ELSE rec[k - 1] * x
    BY <2>1, <1>5
  <2> QED BY <2>2
<1>8. P = Step(P)
  <2> HIDE DEF Step
  <2> QED BY <1>7
<1>9. Exact(x) = P
  BY DEF Exact
<1>10. P[0] = 1 /\ \A k \in Nat : P[k + 1] = IF P[k] >= M THEN M ELSE P[k] * x
  <2> HIDE DEF P
  <2>1. \A k \in Nat : P[k] = IF k = 0 THEN 1 ELSE IF P[k - 1] >= M THEN M ELSE P[k - 1] * x
    BY <1>8
  <2>2. \A k \in Nat : k + 1 \in Nat /\ k + 1 # 0 /\ k + 1 - 1 = k
    OBVIOUS
  <2> QED BY <2>1, <2>2
<1> HIDE DEF P
<1>11. \A n \in Nat : P[n] = rec[n]
  <2> DEFINE T == {n \in Nat : P[n] = rec[n]}
  <2>1. 0 \in T
    BY <1>5, <1>10
  <2>2. ASSUME NEW k \in Nat, k \in T
        PROVE  k + 1 \in T
    <3>1. P[k] = rec[k]
      BY <2>2
    <3>2. /\ P[k + 1] = IF P[k] >= M THEN M ELSE P[k] * x
          /\ rec[k + 1] = IF rec[k] >= M THEN M ELSE rec[k] * x
      BY <1>6, <1>10
    <3> QED BY <3>1, <3>2
  <2>3. Nat \subseteq T
    <3> HIDE DEF T
    <3> QED BY <2>1, <2>2, ByInduction
  <2> QED BY <2>3
<1>12. \A k \in Nat : P[k] \in Nat
  BY <1>5, <1>11
<1>13. \A k \in Nat : P[k] < M => P[k + 1] = P[k] * x
  <2> TAKE k \in Nat
  <2>1. P[k] < M => ~(P[k] >= M)
    BY <1>1, <1>12
  <2> QED BY <2>1, <1>10
<1> QED BY <1>9, <1>10, <1>12, <1>13

LEMMA BitsAre ==
  ASSUME NEW p, IsPower(p), NEW u \in 0 .. UV_MAX
  PROVE  BitsOf(u) \in 0 .. Bits /\ u < p[BitsOf(u)]
<1>1. /\ Bits \in Nat /\ p[Bits] = M /\ M \in Nat /\ UV_MAX = M - 1
      /\ \A k \in 0 .. Bits : p[k] = 2 ^ k /\ p[k] \in Nat
  BY PowersAre, Width
<1> HIDE DEF M, UV_MAX
<1> DEFINE T == {k \in 0 .. Bits : u < p[k]}
<1>2. PICK n \in T : \A m \in T : ~(m < n)
  <2>1. Bits \in T /\ T \subseteq Nat
    BY <1>1
  <2> HIDE DEF T
  <2> QED BY <2>1, LeastOf
<1>3. n \in 0 .. Bits /\ u < 2 ^ n
  BY <1>1, <1>2
<1>4. \A j \in 0 .. n - 1 : u >= 2 ^ j
  <2> TAKE j \in 0 .. n - 1
  <2>1. j \in 0 .. Bits /\ j < n
    BY <1>1, <1>3
  <2>2. ~(u < p[j]) /\ p[j] = 2 ^ j /\ p[j] \in Nat
    BY <1>1, <1>2, <2>1
  <2> QED BY <2>2, <1>1
<1>5. BitsOf(u) \in 0 .. Bits /\ u < 2 ^ BitsOf(u)
  <2>1. \E k \in 0 .. Bits : u < 2 ^ k /\ \A j \in 0 .. k - 1 : u >= 2 ^ j
    BY <1>3, <1>4
  <2> QED BY <2>1 DEF BitsOf
<1> QED BY <1>1, <1>5

\* A power whose bits fit a UV is not wrapped.
LEMMA RaisedIs ==
  ASSUME NEW x \in 0 .. UV_MAX, NEW n \in Nat, n * BitsOf(x) <= Bits
  PROVE  UVPower(x, n) = Exact(x)[n] /\ Exact(x)[n] \in 0 .. UV_MAX
<1>1. M \in Nat /\ M > 1 /\ UV_MAX = M - 1
  BY Width, Quarter
<1>2. PICK p : IsPower(p)
  BY DEF IsPower
<1>3. /\ Bits \in Nat /\ p[0] = 1 /\ p[Bits] = M
      /\ \A k \in 0 .. Bits : p[k] \in Nat /\ p[k] > 0
      /\ \A k, l \in 0 .. Bits : k + l <= Bits => p[k] * p[l] = p[k + l]
  BY <1>2, PowersAre
<1> HIDE DEF M, UV_MAX
<1>4. PICK bits \in 0 .. Bits : bits = BitsOf(x) /\ x < p[bits]
  BY <1>2, BitsAre
<1>5. x \in Nat
  BY <1>1
<1>6. PICK U \in [Nat -> 0 .. UV_MAX] : /\ U[0] = 1 /\ \A k \in Nat : U[k + 1] = AsUV(U[k] * x)
                                        /\ \A k \in Nat : UVPower(x, k) = U[k]
  BY UVPowerIs
<1>7. PICK E : E = Exact(x)
  OBVIOUS
<1>8. E[0] = 1 /\ \A k \in Nat : E[k] \in Nat /\ (E[k] < M => E[k + 1] = E[k] * x)
  BY <1>5, <1>7, ExactIs
<1>9. \A j \in 0 .. Bits : p[j] <= M
  <2> TAKE j \in 0 .. Bits
  <2>1. PICK a \in 0 .. Bits : a = Bits - j /\ j + a = Bits
    BY <1>3
  <2>2. p[j] * p[a] = M
    BY <1>3, <2>1
  <2>3. PICK y, z \in Nat : y = p[j] /\ z = p[a] /\ z > 0
    BY <1>3
  <2>4. y * z >= y
    BY <2>3
  <2> QED BY <2>2, <2>3, <2>4
<1> DEFINE T == {k \in Nat : k <= n => U[k] = E[k] /\ E[k] <= p[bits * k] /\ E[k] < M}
<1>10. 0 \in T
  <2>1. bits * 0 = 0
    BY <1>3
  <2>2. p[bits * 0] = 1
    BY <2>1, <1>3
  <2> QED BY <2>2, <1>1, <1>6, <1>8
<1>11. ASSUME NEW k \in Nat, k \in T
       PROVE  k + 1 \in T
  <2> SUFFICES ASSUME k + 1 <= n
               PROVE  U[k + 1] = E[k + 1] /\ E[k + 1] <= p[bits * (k + 1)] /\ E[k + 1] < M
    OBVIOUS
  <2>1. U[k] = E[k] /\ E[k] <= p[bits * k] /\ E[k] < M
    BY <1>11
  <2>2. PICK a, b \in 0 .. Bits : a = bits * k /\ b = bits * (k + 1) /\ b = a + bits
    <3>1. (k + 1) * bits <= n * bits
      BY <1>3, Monotone
    <3>2. n * bits <= Bits
      BY <1>4
    <3>3. (k + 1) * bits = bits * (k + 1) /\ bits * (k + 1) = bits * k + bits
          /\ bits * k \in Nat /\ n * bits \in Nat /\ bits \in Nat
      BY <1>3
    <3>4. bits * (k + 1) <= Bits /\ bits * k <= Bits /\ bits * (k + 1) \in Nat
      <4>1. PICK c, d, e \in Nat : c = bits * k /\ d = n * bits /\ e = bits
        BY <3>3
      <4>2. bits * (k + 1) = c + e /\ (k + 1) * bits = c + e
        BY <3>3, <4>1
      <4>3. c + e <= d
        BY <3>1, <4>1, <4>2
      <4>4. d <= Bits
        BY <3>2, <4>1
      <4>5. Bits \in Nat
        BY <1>3
      <4> QED BY <4>1, <4>2, <4>3, <4>4, <4>5
    <3> HIDE DEF T
    <3> QED BY <3>3, <3>4, <1>3
  <2>3. PICK e, y, z, w \in Nat : e = E[k] /\ y = p[a] /\ z = p[bits] /\ w = p[b] /\ y > 0
    BY <1>3, <1>8
  <2>4. y * z = w
    <3>1. a + bits <= Bits
      BY <2>2, <1>3
    <3>2. p[a] * p[bits] = p[a + bits]
      BY <3>1, <1>3
    <3> QED BY <3>2, <2>2, <2>3
  <2>5. e <= y /\ x < z /\ w <= M /\ e < M
    BY <2>1, <2>2, <2>3, <1>4, <1>9
  <2>6. e * x < w
    <3>1. e * x <= y * x
      BY <2>5, <1>5, Monotone
    <3>2. y * x < y * z
      <4>1. x + 1 <= z
        BY <2>5, <1>5
      <4>2. (x + 1) * y <= z * y
        BY <4>1, <1>5, Monotone
      <4>3. (x + 1) * y = y * x + y /\ z * y = y * z /\ y * x \in Nat /\ y * z \in Nat
        BY <1>5
      <4> QED BY <4>2, <4>3, <2>3
    <3>3. e * x \in Nat /\ y * x \in Nat
      BY <1>5
    <3> QED BY <3>1, <3>2, <3>3, <2>4
  <2>7. PICK r \in Nat : r = e * x /\ r < M /\ r <= w
    BY <2>5, <2>6, <1>1, <1>5
  <2>8. E[k + 1] = r /\ U[k + 1] = AsUV(r)
    BY <2>1, <2>3, <2>7, <1>6, <1>8
  <2>9. AsUV(r) = r
    BY <2>7, <1>1, Casts
  <2> QED BY <2>2, <2>3, <2>7, <2>8, <2>9
<1>12. n \in T
  <2> HIDE DEF T
  <2> QED BY <1>10, <1>11, ByInduction
<1> QED BY <1>1, <1>6, <1>7, <1>8, <1>12

LEMMA PowersExact == ArithTypeOK /\ ~BigPower => PowerIsExact
<1> SUFFICES ASSUME ArithTypeOK, ~BigPower, Held, NEW b \in Integer, MayRaise(b),
                    pp_pow(sv, b) # Double
             PROVE  pp_pow(sv, b).n = IF uvok(sv) \/ b.n % 2 = 0 THEN Exact(auv(sv))[b.n]
                                                               ELSE -Exact(auv(sv))[b.n]
  BY DEF PowerIsExact, Exact
<1>1. sv \in Integer
  BY DEF ArithTypeOK, Held, Double
<1>2. M \in Nat /\ M > 0 /\ UV_MAX = M - 1
  BY Width
<1>3. PICK x \in 0 .. UV_MAX : x = auv(sv)
  BY <1>1, Operand
<1>4. b.n \in Int
  BY NumbersAre
<1>5. PICK p : IsPower(p)
  BY DEF IsPower
<1>6. PICK bits \in 0 .. Bits : bits = BitsOf(x)
  BY <1>5, BitsAre
<1>7. /\ uvok(b) /\ AsUV(b.n * bits) <= Bits
      /\ \A ok \in BOOLEAN : ok = (uvok(sv) \/ b.n % 2 = 0) => pp_pow(sv, b) = Signed(ok, UVPower(x, b.n))
  BY <1>3, <1>6 DEF pp_pow
<1>8. b.n \in Nat
  <2>1. b.n >= 0
    BY <1>7, Operand
  <2> QED BY <1>4, <2>1
<1> HIDE DEF M, UV_MAX
<1>9. b.n * bits <= Bits
  <2>1. b.n * bits < M
    BY <1>3, <1>6 DEF MayRaise
  <2>2. b.n * bits \in Nat
    BY <1>6, <1>8, ArithAssumption
  <2>3. AsUV(b.n * bits) = b.n * bits
    BY <1>2, <2>1, <2>2, Casts
  <2> QED BY <2>3, <1>7
<1>10. UVPower(x, b.n) = Exact(x)[b.n] /\ Exact(x)[b.n] \in 0 .. UV_MAX
  BY <1>6, <1>8, <1>9, RaisedIs
<1>11. PICK ok \in BOOLEAN : ok = (uvok(sv) \/ b.n % 2 = 0)
  OBVIOUS
<1>12. PICK e \in 0 .. UV_MAX : e = Exact(x)[b.n]
  BY <1>10
<1>13. pp_pow(sv, b) = Signed(ok, e)
  BY <1>7, <1>10, <1>11, <1>12
<1>14. Signed(ok, e).n = WithSign(ok, e)
  <2>1. Is(Signed(ok, e), WithSign(ok, e))
    BY SignIs
  <2>2. Signed(ok, e) # Double
    BY <1>13
  <2> QED BY <2>1, <2>2 DEF Is
<1>15. e \in Int /\ 0 - e = -e
  BY <1>2
<1> QED BY <1>3, <1>11, <1>12, <1>13, <1>14, <1>15 DEF WithSign

-----------------------------------------------------------------------------
(* The operators.                                                          *)

LEMMA FitsSome ==
  ASSUME NEW result, NEW n, Is(result, n)
  PROVE  result \in Integer \cup {Double}
BY DEF Is

LEMMA ArithStep == ArithTypeOK /\ [ArithNext]_sv => ArithTypeOK'
<1> SUFFICES ASSUME ArithTypeOK, [ArithNext]_sv
             PROVE  sv' \in Integer \cup {Double}
  BY DEF ArithTypeOK
<1>1. CASE UNCHANGED sv
  BY <1>1 DEF ArithTypeOK
<1>2. CASE ArithNext
  <2>1. ASSUME NEW b \in Integer, Add(b) \/ Subtract(b) \/ Multiply(b)
        PROVE  sv' \in Integer \cup {Double}
    BY <2>1, SumsExact, ProductsExact, FitsSome
       DEF Add, Subtract, Multiply, SumIsExact, ProductIsExact
  <2>2. ASSUME NEW b \in Integer, Divide(b) \/ Modulo(b)
        PROVE  sv' \in Integer \cup {Double}
    <3>1. Held /\ b.n # 0 /\ (sv' = pp_divide(sv, b) \/ sv' = pp_modulo(sv, b))
      BY <2>2 DEF Divide, Modulo
    <3>2. pp_modulo(sv, b) \in Integer /\ (pp_divide(sv, b) # Double => pp_divide(sv, b) \in Integer)
      BY <3>1, RemaindersExact DEF RemainderIsExact
    <3> QED BY <3>1, <3>2
  <2>3. ASSUME NEW b \in Integer, LeftShift(b) \/ RightShift(b) \/ IntegerShift(b)
        PROVE  sv' \in Integer \cup {Double}
    <3>1. sv \in Integer
      BY <2>3 DEF ArithTypeOK, Held, Double, LeftShift, RightShift, IntegerShift
    <3>2. AsUV(sv.n) \in 0 .. UV_MAX /\ AsIV(sv.n) \in IV_MIN .. IV_MAX
      BY <3>1, NumbersAre, Casts
    <3>3. CASE LeftShift(b)
      <4>1. sv' = SETu(uv_shift(AsUV(sv.n), shift_amount(b)))
        BY <3>3 DEF LeftShift, pp_left_shift
      <4> QED BY <4>1, <3>2, ShiftTypes, SETuIs
    <3>4. CASE RightShift(b)
      <4>1. sv' = SETu(uv_shift(AsUV(sv.n), 0 - shift_amount(b)))
        BY <3>4 DEF RightShift, pp_right_shift
      <4> QED BY <4>1, <3>2, ShiftTypes, SETuIs
    <3>5. CASE IntegerShift(b)
      <4>1. sv' = IV(iv_shift(AsIV(sv.n), shift_amount(b)))
        BY <3>5 DEF IntegerShift
      <4> QED BY <4>1, <3>2, ShiftTypes, NumbersAre
    <3> QED BY <2>3, <3>3, <3>4, <3>5
  <2>4. ASSUME Negate \/ AbsoluteValue \/ Inc \/ Dec
        PROVE  sv' \in Integer \cup {Double}
    <3>1. Held /\ (sv' = pp_negate(sv) \/ sv' = pp_abs(sv) \/ sv' = sv_inc(sv) \/ sv' = sv_dec(sv))
      BY <2>4 DEF Negate, AbsoluteValue, Inc, Dec
    <3>2. /\ Is(sv_inc(sv), sv.n + 1) /\ Is(sv_dec(sv), sv.n - 1)
          /\ Is(pp_negate(sv), 0 - sv.n)
          /\ Is(pp_abs(sv), IF sv.n < 0 THEN 0 - sv.n ELSE sv.n)
      BY <3>1, SuccessorsExact DEF SuccessorIsExact
    <3>3. /\ sv_inc(sv) \in Integer \cup {Double} /\ sv_dec(sv) \in Integer \cup {Double}
          /\ pp_negate(sv) \in Integer \cup {Double} /\ pp_abs(sv) \in Integer \cup {Double}
      BY <3>2, FitsSome
    <3> QED BY <3>1, <3>3
  <2> QED BY <1>2, <2>1, <2>2, <2>3, <2>4 DEF ArithNext
<1> QED BY <1>1, <1>2

LEMMA ArithStart == ArithInit => ArithTypeOK
<1>1. 0 \in IV_MIN .. IV_MAX
  <2>1. M \in Nat /\ M > 0 /\ M = 2 * (M \div 2) /\ M \div 2 \in Nat
        /\ IV_MIN = 0 - M \div 2 /\ IV_MAX = M \div 2 - 1
    BY Width
  <2> HIDE DEF M, IV_MIN, IV_MAX
  <2> QED BY <2>1
<1> QED BY <1>1, NumbersAre DEF ArithInit, ArithTypeOK

\* pp.c, pp_hot.c, sv.c: what an operator leaves in a scalar is an IV, a UV,
\* or left to floating point, for every width of an integer.
THEOREM ArithTypes == ArithSpec => []ArithTypeOK
BY ArithStart, ArithStep, PTL DEF ArithSpec

\* An operator with an integer branch answers the number that arithmetic
\* gives, or leaves it to floating point where no integer type holds it, for
\* every width of an integer and any two operands (pp_add, pp_subtract,
\* pp_multiply, pp_divide, pp_modulo, pp_pow, pp_negate, pp_abs, pp_preinc,
\* pp_predec, the shifts and the comparisons).  Powers: those whose number of
\* bits does not wrap; for the others the property is false.
THEOREM ArithExact == ASSUME ~BigPower PROVE ArithSpec => []ArithmeticIsExact
<1>1. ArithTypeOK => ArithmeticIsExact
  BY SumsExact, ProductsExact, SuccessorsExact, RemaindersExact, ShiftsExact, PowersExact,
     ComparesExact DEF ArithmeticIsExact
<1> QED BY <1>1, ArithTypes, PTL

-----------------------------------------------------------------------------
(* Texts.                                                                  *)

Texts == [fn : Fns, neg : BOOLEAN, digits : Nat, unrolled : BOOLEAN,
          value : 0 .. UV_MAX, value_nv : Nat, factor : Nat, overflowed : BOOLEAN]

\* The digits that are read without a check are too few to overflow.
FewDigits ==
  text.unrolled => /\ ~text.overflowed /\ text.digits <= Unrolled[text.fn]
                   /\ exact < B ^ text.digits

GrokInv ==
  /\ exact \in Nat /\ text \in Texts
  /\ text.neg => text.fn = "grok_number"
  /\ ~text.overflowed => text.value_nv = 0
  /\ FewDigits /\ ReadsTheNumber

LEMMA Bases ==
  ASSUME text.fn \in Fns
  PROVE  /\ B \in Nat /\ B > 1 /\ M > 10 /\ 2 ^ LogBase = Base /\ LogBase \in Nat
         /\ text.fn # "grok_bin_oct_hex" => B = 10
         /\ text.fn = "grok_bin_oct_hex" => B = Base /\ M % B = 0
         /\ Unrolled[text.fn] \in Nat
         /\ \A n \in 0 .. Unrolled[text.fn] : /\ B ^ n \in 1 .. M
                                              /\ n > 0 => B ^ n = B ^ (n - 1) * B
BY GrokAssumption, LogBaseAssumption DEF B, BaseOf

LEMMA InitText == GrokInit => GrokInv
<1> SUFFICES ASSUME GrokInit
             PROVE  GrokInv
  OBVIOUS
<1>1. /\ exact = 0 /\ text \in Texts /\ text.value = 0 /\ text.unrolled /\ ~text.overflowed
      /\ text.value_nv = 0 /\ text.digits = 0 /\ (text.neg => text.fn = "grok_number")
  <2>1. 0 \in 0 .. UV_MAX /\ LogBase \in Nat
    BY Width, GrokAssumption
  <2>2. text \in Texts
    <3>1. /\ text = [fn |-> text.fn, neg |-> text.neg, digits |-> text.digits,
                     unrolled |-> text.unrolled, value |-> text.value, value_nv |-> text.value_nv,
                     factor |-> text.factor, overflowed |-> text.overflowed]
          /\ text.fn \in Fns /\ text.neg \in BOOLEAN /\ text.digits = 0
          /\ text.unrolled \in BOOLEAN /\ text.value = 0 /\ text.value_nv = 0
          /\ text.factor = LogBase /\ text.overflowed \in BOOLEAN
      BY DEF GrokInit
    <3> QED BY <2>1, <3>1 DEF Texts
  <2>3. /\ exact = 0 /\ text.value = 0 /\ text.unrolled = TRUE /\ text.overflowed = FALSE
        /\ text.value_nv = 0 /\ text.digits = 0 /\ (text.neg => text.fn = "grok_number")
    BY DEF GrokInit
  <2> QED BY <2>2, <2>3
<1>2. text.fn \in Fns
  BY <1>1 DEF Texts
<1>3. Unrolled[text.fn] \in Nat /\ 0 \in 0 .. Unrolled[text.fn]
  BY <1>2, Bases
<1>4. B ^ 0 \in 1 .. M
  BY <1>2, <1>3, Bases
<1>5. FewDigits
  BY <1>1, <1>3, <1>4 DEF FewDigits
<1>6. ReadsTheNumber
  BY <1>1, Width DEF ReadsTheNumber
<1> QED BY <1>1, <1>5, <1>6 DEF GrokInv

\* One digit more does not wrap if, and only if, Fits() says so.
LEMMA FitsIs ==
  ASSUME GrokInv, NEW d \in 0 .. B - 1
  PROVE  Fits(d) <=> text.value * B + d <= UV_MAX
<1>1. /\ B \in Nat /\ B > 1 /\ d \in Nat /\ d < B /\ UV_MAX \in Nat /\ UV_MAX = M - 1 /\ M \in Nat
      /\ text.value \in Nat /\ text.fn \in Fns
  BY Bases, Width DEF GrokInv, Texts
<1> DEFINE q == UV_MAX \div B
           r == UV_MAX % B
<1>2. q \in Int /\ r \in Int /\ 0 <= r /\ r < B /\ UV_MAX = B * q + r
  BY <1>1, Division
<1>3. CASE text.fn = "grok_bin_oct_hex"
  <2>1. PICK p \in Int : M = B * p
    <3>1. M % B = 0
      BY <1>3, <1>1, Bases
    <3>2. M \div B \in Int /\ M = B * (M \div B) + (M % B)
      BY <1>1, Division
    <3> QED BY <3>1, <3>2, <1>1
  <2>2. r = B - 1
    <3>1. UV_MAX = B * (p - 1) + (B - 1) /\ p - 1 \in Int
      BY <2>1, <1>1
    <3>2. PICK m, k, e \in Int : m = B /\ k = p - 1 /\ e = B - 1
      BY <3>1, <1>1
    <3>3. m \in Nat /\ m > 0 /\ 0 <= e /\ e < m
      BY <3>2, <1>1
    <3>4. (m * k + e) % m = e
      BY <3>2, <3>3, Quotient
    <3>5. UV_MAX = m * k + e
      BY <3>1, <3>2
    <3>6. r = UV_MAX % m
      BY <3>2
    <3> QED BY <3>2, <3>4, <3>5, <3>6
  <2>3. Fits(d) <=> text.value <= q
    BY <1>3, <1>1 DEF Fits
  <2> HIDE DEF q, r
  <2>4. text.value <= q => text.value * B <= q * B
    BY <1>1, <1>2
  <2>5. text.value > q => text.value * B >= (q + 1) * B
    BY <1>1, <1>2
  <2>6. (q + 1) * B = B * q + B /\ q * B = B * q /\ text.value * B \in Int
    BY <1>1, <1>2
  <2> QED BY <1>1, <1>2, <2>2, <2>3, <2>4, <2>5, <2>6
<1>4. CASE text.fn # "grok_bin_oct_hex"
  <2>1. B = 10
    BY <1>4, <1>1, Bases
  <2>2. Fits(d) <=> text.value < q \/ (text.value = q /\ d <= r)
    BY <1>4, <1>1 DEF Fits
  <2> HIDE DEF q, r
  <2> QED BY <1>1, <1>2, <2>1, <2>2
<1> QED BY <1>3, <1>4

\* What has been read, and one digit more.
Reads(next, d) ==
  /\ next \in Texts /\ next.fn = text.fn /\ next.neg = text.neg /\ next.digits = text.digits + 1
  /\ next.overflowed <=> exact * B + d > UV_MAX
  /\ ~next.overflowed => next.value = exact * B + d /\ next.value_nv = 0
  /\ next.overflowed /\ next.fn = "grok_bin_oct_hex" =>
       next.value_nv * next.factor + next.value = exact * B + d
  /\ next.unrolled => /\ ~next.overflowed /\ next.digits <= Unrolled[text.fn]
                      /\ exact * B + d < B ^ next.digits

LEMMA UncheckedReads ==
  ASSUME GrokInv, NEW d \in 0 .. B - 1, text.unrolled, text.digits < Unrolled[text.fn]
  PROVE  Reads(Unchecked(d), d)
<1>1. /\ text \in Texts /\ exact \in Nat /\ ~text.overflowed /\ text.value = exact
      /\ text.value_nv = 0
      /\ text.digits \in Nat /\ text.fn \in Fns /\ exact < B ^ text.digits
      /\ M \in Nat /\ UV_MAX = M - 1
  BY Width DEF GrokInv, FewDigits, ReadsTheNumber, Texts
<1>2. B \in Nat /\ B > 1 /\ Unrolled[text.fn] \in Nat
  BY <1>1, Bases
<1>3. PICK m \in 0 .. Unrolled[text.fn] : m = text.digits + 1
  BY <1>1, <1>2
<1>4. B ^ m \in 1 .. M /\ B ^ m = B ^ (m - 1) * B /\ m - 1 = text.digits
  <2>1. m > 0 /\ m - 1 = text.digits
    BY <1>1, <1>3
  <2>2. \A n \in 0 .. Unrolled[text.fn] : B ^ n \in 1 .. M /\ (n > 0 => B ^ n = B ^ (n - 1) * B)
    BY <1>1, Bases
  <2> QED BY <2>1, <2>2
<1>5. PICK e : e = B ^ text.digits
  OBVIOUS
<1>6. e \in 1 .. M
  <2>1. text.digits \in 0 .. Unrolled[text.fn]
    BY <1>1, <1>2
  <2> QED BY <2>1, <1>1, <1>5, Bases
<1>7. exact * B + d < e * B
  <2>1. exact + 1 <= e
    BY <1>1, <1>5, <1>6
  <2>2. (exact + 1) * B <= e * B
    BY <2>1, <1>1, <1>2, <1>6, Monotone
  <2> QED BY <2>2, <1>1, <1>2, <1>6
<1>8. exact * B + d < B ^ m /\ exact * B + d \in Nat /\ exact * B + d < M
  BY <1>1, <1>2, <1>4, <1>5, <1>7
<1>9. Multiplied(d) = exact * B + d
  BY <1>1, <1>8, SmallRest DEF Multiplied, AsUV
<1>10. exact * B + d \in 0 .. UV_MAX
  BY <1>1, <1>8
<1>11. PICK next : next = Unchecked(d)
  OBVIOUS
<1>12. /\ next \in Texts /\ next.fn = text.fn /\ next.neg = text.neg /\ next.digits = m
       /\ next.overflowed = text.overflowed /\ next.value = exact * B + d
      /\ next.value_nv = text.value_nv
  <2>1. next = [text EXCEPT !.value = exact * B + d, !.digits = @ + 1, !.factor = 2 * @]
    BY <1>9, <1>11 DEF Unchecked
  <2>2. \A v \in 0 .. UV_MAX :
          LET t == [text EXCEPT !.value = v, !.digits = @ + 1, !.factor = 2 * @]
          IN  /\ t \in Texts /\ t.fn = text.fn /\ t.neg = text.neg /\ t.digits = text.digits + 1
              /\ t.overflowed = text.overflowed /\ t.value = v /\ t.value_nv = text.value_nv
    <3> TAKE v \in 0 .. UV_MAX
    <3> DEFINE t == [text EXCEPT !.value = v, !.digits = @ + 1, !.factor = 2 * @]
    <3>1. text.digits + 1 \in Nat /\ 2 * text.factor \in Nat
      BY <1>1 DEF Texts
    <3>2. t \in Texts
      BY <1>1, <3>1 DEF Texts
    <3>3. /\ t.fn = text.fn /\ t.neg = text.neg /\ t.digits = text.digits + 1
          /\ t.overflowed = text.overflowed /\ t.value = v /\ t.value_nv = text.value_nv
      BY <1>1 DEF Texts
    <3> QED BY <3>2, <3>3
  <2> QED BY <2>1, <2>2, <1>3, <1>10
<1> QED BY <1>1, <1>3, <1>8, <1>10, <1>11, <1>12 DEF Reads

LEMMA OneMore ==
  ASSUME NEW a \in Nat, NEW fac \in Nat, NEW v \in Nat, NEW b \in Nat, NEW d \in Nat
  PROVE  a * (fac * b) + (v * b + d) = (a * fac + v) * b + d
OBVIOUS

\* A text that has been checked, in its fields.
TextOf(v, w, fac, o) ==
  [[text EXCEPT !.value = v, !.value_nv = w, !.factor = fac, !.overflowed = o]
     EXCEPT !.unrolled = FALSE, !.digits = @ + 1]

LEMMA TextWith ==
  ASSUME text \in Texts, NEW v \in 0 .. UV_MAX, NEW w \in Nat, NEW fac \in Nat, NEW o \in BOOLEAN,
         NEW t,
         t = TextOf(v, w, fac, o)
  PROVE  /\ t \in Texts /\ t.fn = text.fn /\ t.neg = text.neg /\ t.digits = text.digits + 1
         /\ t.overflowed = o /\ t.value = v /\ t.value_nv = w /\ t.factor = fac /\ ~t.unrolled
<1>1. text.digits + 1 \in Nat
  BY DEF Texts
<1>2. /\ t.fn = text.fn /\ t.neg = text.neg /\ t.digits = text.digits + 1
      /\ t.overflowed = o /\ t.value = v /\ t.value_nv = w /\ t.factor = fac /\ ~t.unrolled
  BY DEF Texts, TextOf
<1>3. t \in Texts
  BY <1>1 DEF Texts, TextOf
<1> QED BY <1>2, <1>3

LEMMA CheckedReads ==
  ASSUME GrokInv, NEW d \in 0 .. B - 1
  PROVE  Reads(Checked(d), d)
<1>1. /\ text \in Texts /\ exact \in Nat /\ text.fn \in Fns /\ text.digits \in Nat
      /\ text.value \in Nat /\ text.value_nv \in Nat /\ text.factor \in Nat
      /\ text.value \in 0 .. UV_MAX /\ text.overflowed \in BOOLEAN
      /\ M \in Nat /\ UV_MAX = M - 1 /\ M > 10
  BY Width, Bases DEF GrokInv, Texts
<1>2. B \in Nat /\ B > 1 /\ d \in Nat /\ d < B /\ exact * B + d \in Nat
  BY <1>1, Bases
<1>3. /\ text.overflowed <=> exact > UV_MAX
      /\ ~text.overflowed => text.value = exact
      /\ text.overflowed /\ text.fn = "grok_bin_oct_hex" =>
           text.value_nv * text.factor + text.value = exact
      /\ ~text.overflowed => text.value_nv = 0
  BY DEF GrokInv, ReadsTheNumber
<1>4. PICK next : next = Checked(d)
  OBVIOUS
<1>5. exact * B >= exact
  BY <1>1, <1>2
<1>6. text \in Texts
  BY <1>1
<1>7. Fits(d) <=> text.value * B + d <= UV_MAX
  BY FitsIs
<1>8. text.value * B + d \in Nat /\ exact >= text.value
  BY <1>1, <1>2, <1>3
<1>9. Fits(d) => Multiplied(d) = text.value * B + d /\ text.value * B + d \in 0 .. UV_MAX
  BY <1>1, <1>7, <1>8, SmallRest DEF Multiplied, AsUV
<1>10. CASE text.fn = "grok_bin_oct_hex" /\ Fits(d)
  <2>1. next = [[text EXCEPT !.value = text.value * B + d, !.factor = @ * B]
                  EXCEPT !.unrolled = FALSE, !.digits = @ + 1]
    BY <1>4, <1>9, <1>10 DEF Checked
  <2>2. PICK v \in 0 .. UV_MAX, w \in Nat, fac \in Nat, o \in BOOLEAN :
          /\ v = text.value * B + d /\ w = text.value_nv /\ fac = text.factor * B
          /\ o = text.overflowed
    BY <1>1, <1>2, <1>9, <1>10
  <2>3. next = TextOf(v, w, fac, o)
    BY <2>1, <2>2, <1>1 DEF Texts, TextOf
  <2>4. /\ next \in Texts /\ next.fn = text.fn /\ next.neg = text.neg
        /\ next.digits = text.digits + 1 /\ next.overflowed = o
        /\ next.value = v /\ next.value_nv = w
        /\ next.factor = fac /\ ~next.unrolled
    BY <1>6, <2>3, TextWith
  <2>5. w * fac + v = (text.value_nv * text.factor + text.value) * B + d
    <3>1. text.value_nv * (text.factor * B) + (text.value * B + d)
            = (text.value_nv * text.factor + text.value) * B + d
      BY <1>1, <1>2, OneMore
    <3> QED BY <2>2, <3>1
  <2>6. o <=> exact * B + d > UV_MAX
    BY <1>1, <1>2, <1>3, <1>5, <1>7, <1>10, <2>2
  <2>7. ~o => v = exact * B + d /\ w = 0
    BY <1>3, <2>2
  <2>8. o => w * fac + v = exact * B + d
    BY <1>3, <1>10, <2>2, <2>5
  <2> QED BY <2>4, <2>6, <2>7, <2>8, <1>4 DEF Reads
<1>11. CASE text.fn = "grok_bin_oct_hex" /\ ~Fits(d)
  <2>1. next = [[text EXCEPT !.value_nv = @ * text.factor + text.value, !.value = d,
                             !.factor = B, !.overflowed = TRUE]
                  EXCEPT !.unrolled = FALSE, !.digits = @ + 1]
    BY <1>4, <1>11 DEF Checked, Restarted
  <2>2. d \in 0 .. UV_MAX
    <3>1. M % B = 0
      BY <1>1, <1>11, Bases
    <3>2. B <= M
      <4>1. ~(B <= M) => M % B = M
        BY <1>1, <1>2, SmallRest
      <4> QED BY <4>1, <3>1, <1>1
    <3> QED BY <3>2, <1>1, <1>2
  <2>3. text.value_nv * text.factor + text.value = exact
    <3>1. CASE text.overflowed
      BY <3>1, <1>3, <1>11
    <3>2. CASE ~text.overflowed
      <4>1. text.value_nv = 0 /\ text.value = exact
        BY <3>2, <1>3
      <4>2. 0 * text.factor = 0
        BY <1>1
      <4> QED BY <4>1, <4>2, <1>1
    <3> QED BY <3>1, <3>2
  <2>4. PICK v \in 0 .. UV_MAX, w \in Nat, fac \in Nat, o \in BOOLEAN :
          v = d /\ w = exact /\ fac = B /\ o = TRUE
    BY <1>1, <1>2, <2>2
  <2>5. next = TextOf(v, w, fac, o)
    BY <2>1, <2>3, <2>4, <1>1 DEF Texts, TextOf
  <2>6. /\ next \in Texts /\ next.fn = text.fn /\ next.neg = text.neg
        /\ next.digits = text.digits + 1 /\ next.overflowed = o
        /\ next.value = v /\ next.value_nv = w /\ next.factor = fac /\ ~next.unrolled
    BY <1>6, <2>5, TextWith
  <2>7. exact * B + d > UV_MAX
    <3>1. exact * B >= text.value * B
      BY <1>1, <1>2, <1>8, Monotone
    <3>2. text.value * B \in Nat /\ exact * B \in Nat
      BY <1>1, <1>2
    <3> QED BY <3>1, <3>2, <1>1, <1>2, <1>7, <1>11
  <2>8. o /\ w * fac + v = exact * B + d
    BY <2>4
  <2> QED BY <2>6, <2>7, <2>8, <1>4 DEF Reads
<1>12. CASE text.fn # "grok_bin_oct_hex" /\ (text.overflowed \/ ~Fits(d))
  <2>1. next = [[text EXCEPT !.overflowed = TRUE] EXCEPT !.unrolled = FALSE, !.digits = @ + 1]
    BY <1>4, <1>12 DEF Checked
  <2>2. PICK v \in 0 .. UV_MAX, w \in Nat, fac \in Nat, o \in BOOLEAN :
          v = text.value /\ w = text.value_nv /\ fac = text.factor /\ o = TRUE
    BY <1>1
  <2>3. next = TextOf(v, w, fac, o)
    BY <2>1, <2>2, <1>1 DEF Texts, TextOf
  <2>4. /\ next \in Texts /\ next.fn = text.fn /\ next.neg = text.neg
        /\ next.digits = text.digits + 1 /\ next.overflowed = o /\ ~next.unrolled
    BY <1>6, <2>3, TextWith
  <2>5. exact * B + d > UV_MAX
    <3>1. CASE text.overflowed
      <4>1. exact * B \in Nat
        BY <1>1, <1>2
      <4> QED BY <3>1, <4>1, <1>1, <1>2, <1>3, <1>5
    <3>2. CASE ~text.overflowed
      BY <3>2, <1>3, <1>12, <1>7, <1>1, <1>2
    <3> QED BY <3>1, <3>2
  <2> QED BY <2>2, <2>4, <2>5, <1>4, <1>12 DEF Reads
<1>13. CASE text.fn # "grok_bin_oct_hex" /\ ~(text.overflowed \/ ~Fits(d))
  <2>1. next = [[text EXCEPT !.value = text.value * B + d] EXCEPT !.unrolled = FALSE, !.digits = @ + 1]
    BY <1>4, <1>9, <1>13 DEF Checked
  <2>2. PICK v \in 0 .. UV_MAX, w \in Nat, fac \in Nat, o \in BOOLEAN :
          /\ v = text.value * B + d /\ w = text.value_nv /\ fac = text.factor
          /\ o = text.overflowed
    BY <1>1, <1>9, <1>13
  <2>3. next = TextOf(v, w, fac, o)
    BY <2>1, <2>2, <1>1 DEF Texts, TextOf
  <2>4. /\ next \in Texts /\ next.fn = text.fn /\ next.neg = text.neg
        /\ next.digits = text.digits + 1 /\ next.overflowed = o
        /\ next.value = v /\ next.value_nv = w /\ ~next.unrolled
    BY <1>6, <2>3, TextWith
  <2>5. ~o /\ v = exact * B + d /\ w = 0 /\ v <= UV_MAX
    BY <2>2, <1>3, <1>7, <1>13
  <2>6. ~(exact * B + d > UV_MAX)
    BY <2>5, <1>1
  <2> QED BY <2>4, <2>5, <2>6, <1>4, <1>13 DEF Reads
<1> QED BY <1>10, <1>11, <1>12, <1>13

\* One more digit, whichever branch reads it.
LEMMA ReadsKeeps ==
  ASSUME GrokInv, NEW d \in 0 .. B - 1, NEW next, Reads(next, d),
         text' = next, exact' = exact * B + d
  PROVE  GrokInv'
<1>1. /\ text \in Texts /\ exact \in Nat /\ text.fn \in Fns /\ text.digits \in Nat
      /\ (text.neg => text.fn = "grok_number")
  BY DEF GrokInv, Texts
<1>2. B \in Nat /\ d \in Nat
  BY <1>1, Bases
<1>3. exact' \in Nat
  BY <1>1, <1>2
<1>4. /\ text' \in Texts /\ text'.fn = text.fn /\ text'.neg = text.neg
      /\ (text'.overflowed <=> exact' > UV_MAX)
      /\ (~text'.overflowed => text'.value = exact' /\ text'.value_nv = 0)
      /\ (text'.overflowed /\ text'.fn = "grok_bin_oct_hex" =>
            text'.value_nv * text'.factor + text'.value = exact')
      /\ (text'.unrolled => /\ ~text'.overflowed /\ text'.digits <= Unrolled[text.fn]
                            /\ exact' < B ^ text'.digits)
  BY DEF Reads
<1>5. B' = B
  BY <1>4 DEF B
<1>6. FewDigits'
  BY <1>4, <1>5 DEF FewDigits
<1>7. ReadsTheNumber'
  BY <1>4 DEF ReadsTheNumber
<1>8. text'.neg => text'.fn = "grok_number"
  BY <1>1, <1>4
<1> QED BY <1>3, <1>4, <1>6, <1>7, <1>8 DEF GrokInv

LEMMA NextText == GrokInv /\ [GrokNext]_grok_vars => GrokInv'
<1> SUFFICES ASSUME GrokInv, [GrokNext]_grok_vars
             PROVE  GrokInv'
  OBVIOUS
<1>1. CASE GrokNext
  <2>1. PICK d \in 0 .. B - 1 : Digit(d) \/ Underscore(d)
    BY <1>1 DEF GrokNext
  <2>2. CASE Digit(d) /\ text.unrolled /\ text.digits < Unrolled[text.fn]
    <3>1. text' = Unchecked(d) /\ exact' = exact * B + d
      BY <2>2 DEF Digit, Read
    <3> QED BY <3>1, <2>2, UncheckedReads, ReadsKeeps
  <2>3. CASE Underscore(d) \/ (Digit(d) /\ ~(text.unrolled /\ text.digits < Unrolled[text.fn]))
    <3>1. text' = Checked(d) /\ exact' = exact * B + d
      BY <2>3 DEF Digit, Underscore, Read
    <3> QED BY <3>1, CheckedReads, ReadsKeeps
  <2> QED BY <2>1, <2>2, <2>3
<1>2. CASE UNCHANGED grok_vars
  <2>1. text' = text /\ exact' = exact
    BY <1>2 DEF grok_vars
  <2> QED BY <2>1 DEF GrokInv, FewDigits, ReadsTheNumber, B
<1> QED BY <1>1, <1>2

\* The number that a string stands for, in an integer type that holds it.
LEMMA StringIs == GrokInv => StringIsNumber
<1> SUFFICES ASSUME GrokInv
             PROVE  Is(sv_2iuv_common, IF text.neg THEN 0 - exact ELSE exact)
  BY DEF StringIsNumber
<1>1. /\ exact \in Nat /\ text.neg \in BOOLEAN /\ text.overflowed \in BOOLEAN
      /\ text.value \in 0 .. UV_MAX
      /\ (text.overflowed <=> exact > UV_MAX) /\ (~text.overflowed => text.value = exact)
  BY DEF GrokInv, ReadsTheNumber, Texts
<1>2. /\ UV_MAX \in Nat /\ IV_MIN \in Int /\ 0 - UV_MAX <= IV_MIN /\ UV_MAX >= 0
  BY Width
<1>3. CASE text.overflowed
  <2>1. exact \notin IV_MIN .. UV_MAX /\ 0 - exact \notin IV_MIN .. UV_MAX
    BY <1>1, <1>2, <1>3
  <2>2. (IF text.neg THEN 0 - exact ELSE exact) \notin IV_MIN .. UV_MAX
    BY <2>1
  <2> QED BY <1>3, <2>2 DEF sv_2iuv_common, Is
<1>4. CASE ~text.overflowed
  <2>1. PICK ok \in BOOLEAN : ok = ~text.neg
    OBVIOUS
  <2>2. Is(Signed(ok, text.value), IF ok THEN text.value ELSE 0 - text.value)
    BY <1>1, SignedIs
  <2>3. sv_2iuv_common = Signed(ok, text.value)
    BY <1>4, <2>1 DEF sv_2iuv_common
  <2>4. (IF ok THEN text.value ELSE 0 - text.value) = IF text.neg THEN 0 - exact ELSE exact
    BY <1>1, <1>4, <2>1
  <2> QED BY <2>2, <2>3, <2>4
<1> QED BY <1>1, <1>3, <1>4

LEMMA TextTypes == GrokInv => GrokTypeOK
<1> SUFFICES ASSUME GrokInv
             PROVE  GrokTypeOK
  OBVIOUS
<1>1. exact \in Nat /\ text \in Texts /\ (text.unrolled => ~text.overflowed)
  BY DEF GrokInv, FewDigits
<1> QED BY <1>1 DEF GrokTypeOK, Texts

LEMMA GrokIsInvariant == GrokSpec => []GrokInv
<1>1. GrokInit => GrokInv
  BY InitText
<1>2. GrokInv /\ [GrokNext]_grok_vars => GrokInv'
  BY NextText
<1> QED BY <1>1, <1>2, PTL DEF GrokSpec

\* numeric.c: the state of a function that reads a text keeps its types, for
\* every base and every width of an integer.
THEOREM GrokTypes == GrokSpec => []GrokTypeOK
BY GrokIsInvariant, TextTypes, PTL

\* A text becomes the number that it spells, however long it is and with
\* either sign: in a UV while one holds it, in an integer type if some does,
\* else flagged as too large (grok_number, grok_bin_oct_hex, grok_atoUV,
\* sv_2iuv_common).
THEOREM TextExact == GrokSpec => []TextIsItsNumber
<1>1. GrokInv => TextIsItsNumber
  <2>1. GrokInv => ReadsTheNumber
    BY DEF GrokInv
  <2> QED BY <2>1, StringIs DEF TextIsItsNumber
<1> QED BY GrokIsInvariant, <1>1, PTL

-----------------------------------------------------------------------------
(* Buffered files: sequences of bytes.                                     *)

AllFrom(s, n) == SubSeq(s, n + 1, Len(s))

IsAllFrom(r, s, n) ==
  /\ r \in Seq(Byte) /\ Len(r) = Len(s) - n
  /\ \A i \in 1 .. Len(s) - n : r[i] = s[n + i]

LEMMA AllFromIs ==
  ASSUME NEW s \in Seq(Byte), NEW n \in 0 .. Len(s), NEW r, r = AllFrom(s, n)
  PROVE  IsAllFrom(r, s, n)
<1>1. PICK m \in Int, l \in Int : m = n + 1 /\ l = Len(s)
  OBVIOUS
<1>2. n \in Nat /\ l >= n /\ \A i \in m .. l : s[i] \in Byte
  BY <1>1
<1>3. r = SubSeq(s, m, l)
  BY <1>1 DEF AllFrom
<1>4. /\ SubSeq(s, m, l) \in Seq(Byte)
      /\ Len(SubSeq(s, m, l)) = IF m <= l THEN l - m + 1 ELSE 0
      /\ \A i \in 1 .. l - m + 1 : SubSeq(s, m, l)[i] = s[m + i - 1]
  BY <1>2, SubSeqProperties
<1>5. Len(r) = l - n
  <2>1. Len(r) = IF m <= l THEN l - m + 1 ELSE 0
    BY <1>3, <1>4
  <2> QED BY <2>1, <1>1, <1>2
<1>6. \A i \in 1 .. l - n : i \in 1 .. l - m + 1 /\ n + i = m + i - 1
  BY <1>1, <1>2
<1>7. \A i \in 1 .. l - n : r[i] = s[n + i]
  <2>1. \A i \in 1 .. l - m + 1 : r[i] = s[m + i - 1]
    BY <1>3, <1>4
  <2> TAKE i \in 1 .. l - n
  <2>2. i \in 1 .. l - m + 1 /\ n + i = m + i - 1
    BY <1>6
  <2>3. r[i] = s[m + i - 1]
    BY <2>1, <2>2
  <2> QED BY <2>2, <2>3
<1>8. r \in Seq(Byte)
  BY <1>3, <1>4
<1> QED BY <1>1, <1>5, <1>7, <1>8 DEF IsAllFrom

LEMMA StartIs ==
  ASSUME NEW s \in Seq(Byte), NEW n \in 0 .. Len(s), NEW r, r = SubSeq(s, 1, n)
  PROVE  r \in Seq(Byte) /\ Len(r) = n /\ \A i \in 1 .. n : r[i] = s[i]
<1>1. n \in Nat /\ \A i \in 1 .. n : s[i] \in Byte
  OBVIOUS
<1>2. /\ SubSeq(s, 1, n) \in Seq(Byte) /\ Len(SubSeq(s, 1, n)) = IF 1 <= n THEN n - 1 + 1 ELSE 0
      /\ \A i \in 1 .. n - 1 + 1 : SubSeq(s, 1, n)[i] = s[1 + i - 1]
  BY <1>1, SubSeqProperties
<1> QED BY <1>1, <1>2

LEMMA LinkedIs ==
  ASSUME NEW s \in Seq(Byte), NEW t \in Seq(Byte), NEW r, r = s \o t
  PROVE  /\ r \in Seq(Byte) /\ Len(r) = Len(s) + Len(t)
         /\ \A i \in 1 .. Len(s) + Len(t) : r[i] = IF i <= Len(s) THEN s[i] ELSE t[i - Len(s)]
BY ConcatProperties

LEMMA SameBytes ==
  ASSUME NEW s \in Seq(Byte), NEW t \in Seq(Byte), Len(s) = Len(t),
         \A i \in 1 .. Len(s) : s[i] = t[i]
  PROVE  s = t
BY SeqEqual

LEMMA AllFromTwice ==
  ASSUME NEW s \in Seq(Byte), NEW n \in 0 .. Len(s), NEW k \in 0 .. Len(s) - n
  PROVE  AllFrom(AllFrom(s, n), k) = AllFrom(s, n + k)
<1>1. PICK r : r = AllFrom(s, n)
  OBVIOUS
<1>2. /\ r \in Seq(Byte) /\ Len(r) = Len(s) - n
      /\ \A i \in 1 .. Len(s) - n : r[i] = s[n + i]
  <2>1. IsAllFrom(r, s, n)
    BY <1>1, AllFromIs
  <2> QED BY <2>1 DEF IsAllFrom
<1>3. PICK m \in 0 .. Len(s), l \in Nat : m = n + k /\ l = Len(s)
  OBVIOUS
<1>4. PICK a, b : a = AllFrom(r, k) /\ b = AllFrom(s, m)
  OBVIOUS
<1>5. k \in 0 .. Len(r)
  BY <1>2
<1>6. /\ a \in Seq(Byte) /\ Len(a) = Len(r) - k
      /\ \A i \in 1 .. Len(r) - k : a[i] = r[k + i]
  <2>1. IsAllFrom(a, r, k)
    BY <1>2, <1>4, <1>5, AllFromIs
  <2> QED BY <2>1 DEF IsAllFrom
<1>7. /\ b \in Seq(Byte) /\ Len(b) = Len(s) - m
      /\ \A i \in 1 .. Len(s) - m : b[i] = s[m + i]
  <2>1. IsAllFrom(b, s, m)
    BY <1>4, AllFromIs
  <2> QED BY <2>1 DEF IsAllFrom
<1>8. Len(r) - k = l - m /\ Len(s) - m = l - m /\ Len(s) - n = l - n
  BY <1>2, <1>3
<1>9. ASSUME NEW i \in 1 .. l - m
      PROVE  a[i] = b[i]
  <2>1. k + i \in 1 .. l - n /\ n + (k + i) = m + i
    BY <1>3
  <2>2. a[i] = r[k + i] /\ b[i] = s[m + i]
    BY <1>6, <1>7, <1>8
  <2>3. r[k + i] = s[n + (k + i)]
    BY <1>2, <1>8, <2>1
  <2> QED BY <2>1, <2>2, <2>3
<1>10. a = b
  BY <1>6, <1>7, <1>8, <1>9, SameBytes
<1> QED BY <1>1, <1>3, <1>4, <1>10

LEMMA AllFromLinked ==
  ASSUME NEW s \in Seq(Byte), NEW t \in Seq(Byte), Len(s) > 0
  PROVE  AllFrom(s \o t, 1) = AllFrom(s, 1) \o t
<1>1. PICK j, r, a, b : j = s \o t /\ a = AllFrom(j, 1) /\ r = AllFrom(s, 1) /\ b = r \o t
  OBVIOUS
<1>2. PICK k \in Nat, l \in Nat : k = Len(s) /\ l = Len(t) /\ k >= 1
  OBVIOUS
<1>3. /\ j \in Seq(Byte) /\ Len(j) = k + l
      /\ \A i \in 1 .. k + l : j[i] = IF i <= k THEN s[i] ELSE t[i - k]
  BY <1>1, <1>2, LinkedIs
<1>4. 1 \in 0 .. Len(s) /\ 1 \in 0 .. Len(j)
  BY <1>2, <1>3
<1>5. r \in Seq(Byte) /\ Len(r) = Len(s) - 1 /\ \A i \in 1 .. Len(s) - 1 : r[i] = s[1 + i]
  <2>1. IsAllFrom(r, s, 1)
    BY <1>1, <1>4, AllFromIs
  <2> QED BY <2>1 DEF IsAllFrom
<1>6. a \in Seq(Byte) /\ Len(a) = Len(j) - 1 /\ \A i \in 1 .. Len(j) - 1 : a[i] = j[1 + i]
  <2>1. IsAllFrom(a, j, 1)
    BY <1>1, <1>3, <1>4, AllFromIs
  <2> QED BY <2>1 DEF IsAllFrom
<1>7. /\ b \in Seq(Byte) /\ Len(b) = Len(r) + Len(t)
      /\ \A i \in 1 .. Len(r) + Len(t) : b[i] = IF i <= Len(r) THEN r[i] ELSE t[i - Len(r)]
  BY <1>1, <1>5, LinkedIs
<1>8. /\ Len(r) = k - 1 /\ Len(a) = k + l - 1 /\ Len(b) = k + l - 1
      /\ Len(s) - 1 = k - 1 /\ Len(j) - 1 = k + l - 1 /\ Len(r) + Len(t) = k + l - 1
  BY <1>2, <1>3, <1>5, <1>6, <1>7
<1>9. ASSUME NEW i \in 1 .. k + l - 1
      PROVE  a[i] = b[i]
  <2>1. a[i] = j[1 + i]
    BY <1>6, <1>8
  <2>2. b[i] = IF i <= k - 1 THEN r[i] ELSE t[i - (k - 1)]
    BY <1>7, <1>8
  <2>3. j[1 + i] = IF 1 + i <= k THEN s[1 + i] ELSE t[(1 + i) - k]
    BY <1>2, <1>3
  <2>4. i <= k - 1 => r[i] = s[1 + i]
    BY <1>5, <1>8
  <2>5. (1 + i <= k <=> i <= k - 1) /\ (1 + i) - k = i - (k - 1)
    BY <1>2
  <2> QED BY <2>1, <2>2, <2>3, <2>4, <2>5
<1>10. a = b
  BY <1>6, <1>7, <1>8, <1>9, SameBytes
<1> QED BY <1>1, <1>10

-----------------------------------------------------------------------------
(* Buffered files: bytes written over a file.                              *)

\* The length of a file of n bytes after something is written up to m.
Longer(n, m) == IF m >= n THEN m ELSE n

IsOver(r, file, at, data) ==
  /\ r \in Seq(Byte) /\ Len(r) = Longer(Len(file), at + Len(data))
  /\ \A i \in 1 .. Longer(Len(file), at + Len(data)) :
       r[i] = IF i > at /\ i <= at + Len(data) THEN data[i - at] ELSE file[i]

LEMMA OverIs ==
  ASSUME NEW file \in Seq(Byte), NEW at \in 0 .. Len(file), NEW data \in Seq(Byte),
         NEW r, r = Over(file, at, data)
  PROVE  IsOver(r, file, at, data)
<1>1. PICK l \in Nat, k \in Nat, m \in Nat :
        l = Len(file) /\ k = Len(data) /\ m = at + k
  OBVIOUS
<1>2. at \in Nat /\ at <= l /\ at <= m
  BY <1>1
<1>3. PICK a, j, b : /\ a = SubSeq(file, 1, at) /\ j = a \o data
                     /\ b = SubSeq(file, m + 1, Len(file))
  OBVIOUS
<1>4. r = j \o b
  BY <1>1, <1>3 DEF Over
<1>5. a \in Seq(Byte) /\ Len(a) = at /\ \A i \in 1 .. at : a[i] = file[i]
  BY <1>3, StartIs
<1>6. /\ j \in Seq(Byte) /\ Len(j) = Len(a) + Len(data)
      /\ \A i \in 1 .. Len(a) + Len(data) : j[i] = IF i <= Len(a) THEN a[i] ELSE data[i - Len(a)]
  BY <1>3, <1>5, LinkedIs
<1>7. Len(j) = m /\ Len(a) + Len(data) = m
  BY <1>1, <1>2, <1>5, <1>6
<1>8. \A i \in 1 .. m : j[i] = IF i <= at THEN a[i] ELSE data[i - at]
  BY <1>5, <1>6, <1>7
<1>9. /\ b \in Seq(Byte) /\ (m <= l => Len(b) = l - m) /\ (m > l => Len(b) = 0)
      /\ m <= l => \A i \in 1 .. l - m : b[i] = file[m + i]
  <2>1. CASE m <= l
    <3>1. m \in 0 .. Len(file) /\ b = AllFrom(file, m)
      BY <1>1, <1>3, <2>1 DEF AllFrom
    <3>2. IsAllFrom(b, file, m)
      BY <3>1, AllFromIs
    <3> QED BY <3>2, <2>1, <1>1 DEF IsAllFrom
  <2>2. CASE ~(m <= l)
    <3>1. PICK n \in Int, e \in Int : n = m + 1 /\ e = Len(file) /\ e < n
      BY <2>2, <1>1
    <3>2. SubSeq(file, n, e) = << >>
      BY <3>1, SubSeqEmpty
    <3>3. << >> \in Seq(Byte) /\ Len(<< >>) = 0
      BY EmptySeq
    <3> QED BY <1>3, <2>2, <3>1, <3>2, <3>3
  <2> QED BY <2>1, <2>2
<1>10. /\ r \in Seq(Byte) /\ Len(r) = Len(j) + Len(b)
       /\ \A i \in 1 .. Len(j) + Len(b) : r[i] = IF i <= Len(j) THEN j[i] ELSE b[i - Len(j)]
  <2>1. j \in Seq(Byte) /\ b \in Seq(Byte)
    BY <1>6, <1>9
  <2> QED BY <1>4, <2>1, LinkedIs
<1>11. Len(j) + Len(b) = Longer(l, m) /\ Longer(l, m) \in Nat
  <2>1. Len(j) = m
    BY <1>7
  <2>2. (m < l => m + (l - m) = Longer(l, m)) /\ (m >= l => m + 0 = Longer(l, m))
    BY <1>1 DEF Longer
  <2>3. Longer(l, m) \in Nat
    BY <1>1 DEF Longer
  <2>4. (m < l => Len(b) = l - m) /\ (m >= l => Len(b) = 0)
    BY <1>9, <1>1
  <2> QED BY <2>1, <2>2, <2>3, <2>4, <1>1
<1>12. \A i \in 1 .. Longer(l, m) : r[i] = IF i <= m THEN j[i] ELSE b[i - m]
  BY <1>7, <1>10, <1>11
<1>13. ASSUME NEW i \in 1 .. Longer(l, m)
       PROVE  r[i] = IF i > at /\ i <= m THEN data[i - at] ELSE file[i]
  <2>0. i \in Int /\ i >= 1 /\ i <= Longer(l, m)
    BY <1>11
  <2>1. CASE i <= at
    <3>1. i \in 1 .. at /\ i \in 1 .. m /\ i <= m
      BY <2>0, <2>1, <1>2
    <3>2. r[i] = j[i]
      BY <3>1, <1>12
    <3>3. j[i] = a[i]
      BY <3>1, <2>1, <1>8
    <3>4. a[i] = file[i]
      BY <3>1, <1>5
    <3> QED BY <3>2, <3>3, <3>4, <2>1, <2>0, <1>2
  <2>2. CASE i > at /\ i <= m
    <3>1. i \in 1 .. m /\ ~(i <= at)
      BY <2>0, <2>2, <1>2
    <3>2. r[i] = j[i]
      BY <2>2, <1>12
    <3>3. j[i] = data[i - at]
      BY <3>1, <1>8
    <3> QED BY <3>2, <3>3, <2>2
  <2>3. CASE i > m
    <3>1. m <= l /\ i - m \in 1 .. l - m /\ m + (i - m) = i
      BY <2>0, <2>3, <1>1 DEF Longer
    <3>2. r[i] = b[i - m]
      BY <2>0, <2>3, <1>1, <1>12
    <3>3. b[i - m] = file[m + (i - m)]
      BY <3>1, <1>9
    <3> QED BY <3>1, <3>2, <3>3, <2>3, <2>0, <1>1
  <2> QED BY <2>0, <2>1, <2>2, <2>3, <1>1, <1>2
<1> QED BY <1>1, <1>10, <1>11, <1>13 DEF IsOver

LEMMA OverNothing ==
  ASSUME NEW file \in Seq(Byte), NEW at \in 0 .. Len(file)
  PROVE  Over(file, at, << >>) = file
<1>1. PICK r, e : r = Over(file, at, e) /\ e = << >>
  OBVIOUS
<1>2. e \in Seq(Byte) /\ Len(e) = 0
  BY <1>1, EmptySeq
<1>3. IsOver(r, file, at, e)
  BY <1>1, <1>2, OverIs
<1>4. Longer(Len(file), at + Len(e)) = Len(file)
  BY <1>2 DEF Longer
<1>5. ASSUME NEW i \in 1 .. Len(file)
      PROVE  r[i] = file[i]
  <2>1. ~(i > at /\ i <= at + Len(e))
    BY <1>2
  <2> QED BY <2>1, <1>3, <1>4 DEF IsOver
<1>6. r \in Seq(Byte) /\ Len(r) = Len(file)
  BY <1>3, <1>4 DEF IsOver
<1>7. r = file
  BY <1>5, <1>6, SameBytes
<1> QED BY <1>1, <1>7

\* Two writes, one after the other, are one.
LEMMA OverMore ==
  ASSUME NEW file \in Seq(Byte), NEW at \in 0 .. Len(file), NEW data \in Seq(Byte),
         NEW byte \in Byte
  PROVE  Over(Over(file, at, data), at + Len(data), <<byte>>)
           = Over(file, at, Append(data, byte))
<1>1. PICK l \in Nat, k \in Nat, m \in Nat, n \in Nat :
        l = Len(file) /\ k = Len(data) /\ m = at + k /\ n = m + 1
  OBVIOUS
<1>2. PICK r, a, b, e, d :
        /\ r = Over(file, at, data) /\ e = <<byte>> /\ a = Over(r, m, e)
        /\ d = Append(data, byte) /\ b = Over(file, at, d)
  OBVIOUS
<1>3. at \in Nat /\ at <= l /\ at <= m
  BY <1>1
<1>4. /\ d \in Seq(Byte) /\ Len(d) = k + 1 /\ d[k + 1] = byte
      /\ \A i \in 1 .. k : d[i] = data[i]
  BY <1>1, <1>2, AppendProperties
<1>5. e \in Seq(Byte) /\ Len(e) = 1 /\ e[1] = byte
  BY <1>2
<1>6. IsOver(r, file, at, data)
  BY <1>2, OverIs
<1>7. r \in Seq(Byte) /\ Len(r) = Longer(l, m)
  BY <1>1, <1>6 DEF IsOver
<1>8. \A i \in 1 .. Longer(l, m) : r[i] = IF i > at /\ i <= m THEN data[i - at] ELSE file[i]
  BY <1>1, <1>6 DEF IsOver
<1>9. m \in 0 .. Len(r)
  BY <1>1, <1>7 DEF Longer
<1>10. IsOver(a, r, m, e) /\ IsOver(b, file, at, d)
  BY <1>2, <1>4, <1>5, <1>7, <1>9, OverIs
<1>11. Longer(Len(r), m + Len(e)) = Longer(l, n) /\ Longer(Len(file), at + Len(d)) = Longer(l, n)
  BY <1>1, <1>3, <1>4, <1>5, <1>7 DEF Longer
<1>12. /\ a \in Seq(Byte) /\ Len(a) = Longer(l, n) /\ b \in Seq(Byte) /\ Len(b) = Longer(l, n)
       /\ Longer(l, n) \in Nat
  BY <1>1, <1>10, <1>11 DEF IsOver, Longer
<1>13. m + Len(e) = n /\ at + Len(d) = n
  BY <1>1, <1>3, <1>4, <1>5
<1>14. \A i \in 1 .. Longer(l, n) : a[i] = IF i > m /\ i <= n THEN e[i - m] ELSE r[i]
  BY <1>10, <1>11, <1>13 DEF IsOver
<1>15. \A i \in 1 .. Longer(l, n) : b[i] = IF i > at /\ i <= n THEN d[i - at] ELSE file[i]
  BY <1>10, <1>11, <1>13 DEF IsOver
<1>16. ASSUME NEW i \in 1 .. Longer(l, n)
       PROVE  a[i] = b[i]
  <2>0. i \in Int /\ i >= 1 /\ i <= Longer(l, n)
    BY <1>12
  <2>1. CASE i = n
    <3>1. i > m /\ i <= n /\ i > at /\ i - m = 1 /\ i - at = k + 1
      BY <2>1, <1>1, <1>3
    <3>2. a[i] = e[i - m] /\ b[i] = d[i - at]
      BY <3>1, <1>14, <1>15
    <3> QED BY <3>1, <3>2, <1>4, <1>5
  <2>2. CASE i # n
    <3>1. ~(i > m /\ i <= n) /\ (i <= n <=> i <= m)
      BY <2>0, <2>2, <1>1
    <3>2. i \in 1 .. Longer(l, m)
      BY <2>0, <2>2, <1>1 DEF Longer
    <3>3. a[i] = r[i]
      BY <3>1, <1>14
    <3>4. r[i] = IF i > at /\ i <= m THEN data[i - at] ELSE file[i]
      BY <3>2, <1>8
    <3>5. b[i] = IF i > at /\ i <= m THEN d[i - at] ELSE file[i]
      BY <3>1, <1>15
    <3>6. i > at /\ i <= m => d[i - at] = data[i - at]
      <4>1. i > at /\ i <= m => i - at \in 1 .. k
        BY <2>0, <1>1, <1>3
      <4> QED BY <4>1, <1>4
    <3> QED BY <3>3, <3>4, <3>5, <3>6
  <2> QED BY <2>1, <2>2
<1>17. a = b
  BY <1>12, <1>16, SameBytes
<1> QED BY <1>1, <1>2, <1>17

-----------------------------------------------------------------------------
(* Buffered files: the functions of the layer.                             *)

HandleShape(s) ==
  /\ DOMAIN s = {"file", "offset", "buf", "ptr", "end", "posn", "flags", "append"}
  /\ s.file \in Seq(Byte) /\ s.offset \in Nat /\ s.offset <= Len(s.file)
  /\ s.buf \in [0 .. bufsiz - 1 -> Byte \cup {UNINIT}]
  /\ s.ptr \in 0 .. bufsiz /\ s.end \in 0 .. bufsiz /\ s.posn \in Int
  /\ s.flags \in {{}, {"RDBUF"}, {"WRBUF"}} /\ s.append \in BOOLEAN

IsIdle(s) == s.flags = {}
IsReading(s) == s.flags = {"RDBUF"}
IsWriting(s) == s.flags = {"WRBUF"}

\* From one place to another, a buffer holds bytes.
HasBytes(s, from, to) == \A i \in from .. to - 1 : s.buf[i] \in Byte

IsSlice(r, s, from, to) ==
  /\ r \in Seq(Byte) /\ Len(r) = to - from
  /\ \A i \in 1 .. to - from : r[i] = s.buf[from + i - 1]

\* The kernel is where the buffer ends if it was read, and where it starts if
\* it is to be written.
GoodHandle(s) ==
  /\ HandleShape(s)
  /\ IsIdle(s) => s.ptr = 0 /\ s.end = 0 /\ s.posn = s.offset
  /\ IsReading(s) =>
       /\ ~s.append /\ s.ptr <= s.end /\ s.posn + s.ptr >= 0 /\ s.offset = s.posn + s.end
       /\ HasBytes(s, s.ptr, s.end)
  /\ IsWriting(s) =>
       /\ s.posn = s.offset /\ s.end = 0
       /\ HasBytes(s, 0, s.ptr)
  /\ s.append => s.offset = Len(s.file)

PosOf(s) == s.posn + s.ptr

LEMMA OneOfThree ==
  ASSUME NEW s, HandleShape(s)
  PROVE  /\ IsIdle(s) \/ IsReading(s) \/ IsWriting(s)
         /\ IsReading(s) <=> "RDBUF" \in s.flags
         /\ IsWriting(s) <=> "WRBUF" \in s.flags
         /\ ~(IsIdle(s) /\ IsReading(s)) /\ ~(IsIdle(s) /\ IsWriting(s))
         /\ ~(IsReading(s) /\ IsWriting(s))
<1>1. s.flags \in {{}, {"RDBUF"}, {"WRBUF"}}
  BY DEF HandleShape
<1> QED BY <1>1 DEF IsIdle, IsReading, IsWriting

LEMMA FieldsAre ==
  ASSUME NEW s, HandleShape(s)
  PROVE  /\ s.file \in Seq(Byte) /\ s.offset \in Nat /\ s.offset \in 0 .. Len(s.file)
         /\ s.buf \in [0 .. bufsiz - 1 -> Byte \cup {UNINIT}]
         /\ s.ptr \in Nat /\ s.ptr <= bufsiz /\ s.end \in Nat /\ s.end <= bufsiz
         /\ s.posn \in Int /\ s.append \in BOOLEAN /\ Len(s.file) \in Nat
         /\ bufsiz \in Nat /\ bufsiz > 0
<1>1. /\ s.file \in Seq(Byte) /\ s.offset \in Nat
      /\ s.buf \in [0 .. bufsiz - 1 -> Byte \cup {UNINIT}]
      /\ s.ptr \in 0 .. bufsiz /\ s.end \in 0 .. bufsiz
      /\ s.posn \in Int /\ s.append \in BOOLEAN /\ s.offset <= Len(s.file)
  BY DEF HandleShape
<1>2. bufsiz \in Nat /\ bufsiz > 0
  BY PerlIOAssumption
<1>3. Len(s.file) \in Nat
  BY <1>1
<1> QED BY <1>1, <1>2, <1>3

LEMMA SliceIs ==
  ASSUME NEW s, HandleShape(s), NEW from \in Nat, NEW to \in Nat, from <= to, to <= bufsiz,
         HasBytes(s, from, to), NEW r, r = Slice(s, from, to)
  PROVE  IsSlice(r, s, from, to)
<1>1. r = [i \in 1 .. to - from |-> s.buf[from + i - 1]]
  BY DEF Slice
<1>2. \A i \in 1 .. to - from : r[i] = s.buf[from + i - 1] /\ r[i] \in Byte
  <2> TAKE i \in 1 .. to - from
  <2>1. from + i - 1 \in from .. to - 1
    OBVIOUS
  <2>2. s.buf[from + i - 1] \in Byte
    BY <2>1 DEF HasBytes
  <2> QED BY <1>1, <2>2
<1>3. PICK n \in Nat : n = to - from
  OBVIOUS
<1>4. r \in [1 .. n -> Byte]
  BY <1>1, <1>2, <1>3
<1>5. r \in Seq(Byte) /\ Len(r) = n
  BY <1>4
<1> QED BY <1>2, <1>3, <1>5 DEF IsSlice

\* What is written of a buffer.
LEMMA WrittenIs ==
  ASSUME NEW s, GoodHandle(s), IsWriting(s)
  PROVE  /\ Slice(s, 0, s.ptr) \in Seq(Byte) /\ Len(Slice(s, 0, s.ptr)) = s.ptr
         /\ ContentOf(s) = Over(s.file, s.offset, Slice(s, 0, s.ptr))
         /\ WriteOut(s) = [s EXCEPT !.file = ContentOf(s), !.offset = s.offset + s.ptr]
         /\ ContentOf(s) \in Seq(Byte)
         /\ Len(ContentOf(s)) = Longer(Len(s.file), s.offset + s.ptr)
<1>1. HandleShape(s) /\ HasBytes(s, 0, s.ptr)
  BY DEF GoodHandle
<1>2. /\ s.ptr \in Nat /\ s.ptr <= bufsiz /\ s.file \in Seq(Byte) /\ s.offset \in 0 .. Len(s.file)
  BY <1>1, FieldsAre
<1>3. s.append => s.offset = Len(s.file)
  BY DEF GoodHandle
<1>4. PICK d : d = Slice(s, 0, s.ptr)
  OBVIOUS
<1>5. d \in Seq(Byte) /\ Len(d) = s.ptr
  <2>1. PICK z \in Nat : z = 0 /\ z <= s.ptr
    BY <1>2
  <2>2. d \in Seq(Byte) /\ Len(d) = s.ptr - z
    <3>1. IsSlice(d, s, z, s.ptr)
      BY <1>1, <1>2, <1>4, <2>1, SliceIs
    <3> QED BY <3>1 DEF IsSlice
  <2> QED BY <1>2, <2>1, <2>2
<1>6. WriteOut(s) = [s EXCEPT !.file = Over(s.file, s.offset, d), !.offset = s.offset + s.ptr]
  <2>1. (IF s.append THEN Len(s.file) ELSE s.offset) = s.offset
    BY <1>3
  <2>2. WriteOut(s) = [s EXCEPT !.file = Over(@, s.offset, d), !.offset = s.offset + Len(d)]
    BY <1>4, <2>1 DEF WriteOut
  <2> QED BY <1>5, <2>2
<1>7. ContentOf(s) = Over(s.file, s.offset, d)
  <2>1. ContentOf(s) = WriteOut(s).file
    BY <1>1, OneOfThree DEF ContentOf
  <2> QED BY <1>1, <1>6, <2>1 DEF HandleShape
<1>8. IsOver(ContentOf(s), s.file, s.offset, d)
  BY <1>2, <1>5, <1>7, OverIs
<1>9. ContentOf(s) \in Seq(Byte) /\ Len(ContentOf(s)) = Longer(Len(s.file), s.offset + s.ptr)
  BY <1>5, <1>8 DEF IsOver
<1> QED BY <1>4, <1>5, <1>6, <1>7, <1>9

\* A handle is flushed: it has nothing in its buffer, and stands for the same.
IsFlushed(r, s) ==
  /\ GoodHandle(r) /\ IsIdle(r)
  /\ r.file = ContentOf(s) /\ r.offset = PosOf(s) /\ r.append = s.append

LEMMA FlushIs ==
  ASSUME NEW s, GoodHandle(s), NEW r, r = Flush(s)
  PROVE  IsFlushed(r, s)
<1>1. HandleShape(s)
  BY DEF GoodHandle
<1>2. /\ s.file \in Seq(Byte) /\ s.offset \in Nat /\ s.offset \in 0 .. Len(s.file)
      /\ s.buf \in [0 .. bufsiz - 1 -> Byte \cup {UNINIT}]
      /\ s.ptr \in Nat /\ s.ptr <= bufsiz /\ s.end \in Nat /\ s.end <= bufsiz
      /\ s.posn \in Int /\ s.append \in BOOLEAN /\ Len(s.file) \in Nat
      /\ bufsiz \in Nat /\ bufsiz > 0
  BY <1>1, FieldsAre
<1>3. 0 \in 0 .. bufsiz
  BY <1>2
<1>4. CASE IsIdle(s)
  <2>1. r = [s EXCEPT !.ptr = 0, !.end = 0, !.flags = {}]
    <3>1. s.flags = {} /\ "WRBUF" \notin s.flags /\ s.flags # {"RDBUF"}
      BY <1>4 DEF IsIdle
    <3> QED BY <3>1 DEF Flush, Emptied
  <2>2. s.ptr = 0 /\ s.end = 0 /\ s.posn = s.offset /\ s.flags = {}
    BY <1>4 DEF GoodHandle, IsIdle
  <2>3. /\ r.file = s.file /\ r.offset = s.offset /\ r.posn = s.posn /\ r.ptr = 0 /\ r.end = 0
        /\ r.flags = {} /\ r.append = s.append
    BY <1>1, <2>1 DEF HandleShape
  <2>4. HandleShape(r)
    BY <1>1, <1>3, <2>1 DEF HandleShape
  <2>5. IsIdle(r) /\ ~IsReading(r) /\ ~IsWriting(r)
    BY <2>3, <2>4, OneOfThree DEF IsIdle
  <2>6. s.append => s.offset = Len(s.file)
    BY DEF GoodHandle
  <2>7. GoodHandle(r)
    BY <2>2, <2>3, <2>4, <2>5, <2>6 DEF GoodHandle
  <2>8. ContentOf(s) = s.file /\ PosOf(s) = s.offset
    BY <1>2, <2>2 DEF ContentOf, PosOf
  <2> QED BY <2>3, <2>5, <2>7, <2>8 DEF IsFlushed
<1>5. CASE IsReading(s)
  <2>1. /\ ~s.append /\ s.ptr <= s.end /\ s.posn + s.ptr >= 0 /\ s.offset = s.posn + s.end
    BY <1>5 DEF GoodHandle
  <2>2. PICK here \in Nat : here = s.posn + s.ptr /\ here <= s.offset
    BY <1>2, <2>1
  <2>3. s.flags = {"RDBUF"} /\ "WRBUF" \notin s.flags
    BY <1>5 DEF IsReading
  <2>4. r = [s EXCEPT !.offset = here, !.posn = here, !.ptr = 0, !.end = 0, !.flags = {}]
    <3>1. CASE s.ptr >= s.end
      <4>1. r = Emptied([s EXCEPT !.posn = here])
        BY <2>2, <2>3, <3>1, <1>2 DEF Flush
      <4>2. s.offset = here
        BY <1>2, <2>1, <2>2, <3>1
      <4> QED BY <1>1, <4>1, <4>2 DEF Emptied, HandleShape
    <3>2. CASE ~(s.ptr >= s.end)
      <4>1. s.ptr < s.end /\ s.posn + s.ptr >= 0 /\ ~(s.ptr >= s.end)
        BY <1>2, <2>1, <3>2
      <4>2. r = Emptied([s EXCEPT !.offset = here, !.posn = here])
        BY <2>2, <2>3, <4>1 DEF Flush
      <4> QED BY <1>1, <4>2 DEF Emptied, HandleShape
    <3> QED BY <3>1, <3>2
  <2>5. /\ r.file = s.file /\ r.offset = here /\ r.posn = here /\ r.ptr = 0 /\ r.end = 0
        /\ r.flags = {} /\ r.append = s.append
    BY <1>1, <2>4 DEF HandleShape
  <2>6. HandleShape(r)
    <3>1. s.offset <= Len(s.file)
      BY <1>1 DEF HandleShape
    <3>2. here <= Len(s.file)
      BY <1>2, <2>2, <3>1
    <3> QED BY <1>1, <1>3, <2>4, <2>5, <3>2 DEF HandleShape
  <2>7. IsIdle(r) /\ ~IsReading(r) /\ ~IsWriting(r)
    BY <2>5, <2>6, OneOfThree DEF IsIdle
  <2>8. GoodHandle(r)
    BY <2>1, <2>5, <2>6, <2>7 DEF GoodHandle
  <2>9. ContentOf(s) = s.file /\ PosOf(s) = here
    BY <2>2, <2>3 DEF ContentOf, PosOf
  <2> QED BY <2>5, <2>7, <2>8, <2>9 DEF IsFlushed
<1>6. CASE IsWriting(s)
  <2>1. s.posn = s.offset /\ s.end = 0 /\ (s.append => s.offset = Len(s.file))
    BY <1>6 DEF GoodHandle
  <2>2a. PICK here \in Nat : here = s.posn + s.ptr /\ here = s.offset + s.ptr
    BY <1>2, <2>1
  <2>2b. PICK c : c = ContentOf(s)
    OBVIOUS
  <2>2. /\ here \in Nat /\ here = s.posn + s.ptr /\ here = s.offset + s.ptr
        /\ c = ContentOf(s)
    BY <2>2a, <2>2b
  <2>3. "WRBUF" \in s.flags
    BY <1>6 DEF IsWriting
  <2>4. /\ WriteOut(s) = [s EXCEPT !.file = c, !.offset = here]
        /\ c \in Seq(Byte) /\ Len(c) = Longer(Len(s.file), here)
    BY <1>6, <2>2, WrittenIs
  <2>5. r = [s EXCEPT !.file = c, !.offset = here, !.posn = here, !.ptr = 0, !.end = 0,
                      !.flags = {}]
    <3>1. r = Emptied([WriteOut(s) EXCEPT !.posn = here])
      <4>1. s.flags = {"WRBUF"} /\ s.flags # {"RDBUF"} /\ s.flags # {}
        BY <1>6 DEF IsWriting
      <4> QED BY <2>2, <2>3, <4>1 DEF Flush
    <3> QED BY <1>1, <2>4, <3>1 DEF Emptied, HandleShape
  <2>6. /\ r.file = c /\ r.offset = here /\ r.posn = here /\ r.ptr = 0 /\ r.end = 0
        /\ r.flags = {} /\ r.append = s.append
    BY <1>1, <2>5 DEF HandleShape
  <2>7. here <= Len(c) /\ (s.append => here = Len(c))
    BY <1>2, <2>1, <2>2, <2>4 DEF Longer
  <2>8. HandleShape(r)
    <3>1. c \in Seq(Byte)
      BY <2>4
    <3>2. here \in Nat /\ here <= Len(c)
      BY <2>2, <2>7
    <3> QED BY <1>1, <1>3, <2>5, <3>1, <3>2 DEF HandleShape
  <2>9. IsIdle(r) /\ ~IsReading(r) /\ ~IsWriting(r)
    BY <2>6, <2>8, OneOfThree DEF IsIdle
  <2>10. GoodHandle(r)
    BY <2>6, <2>7, <2>8, <2>9 DEF GoodHandle
  <2> QED BY <2>2, <2>6, <2>9, <2>10 DEF IsFlushed, PosOf
<1> QED BY <1>1, <1>4, <1>5, <1>6, OneOfThree

LEMMA ContentIs ==
  ASSUME NEW s, GoodHandle(s)
  PROVE  /\ ContentOf(s) \in Seq(Byte) /\ PosOf(s) \in Nat /\ PosOf(s) <= Len(ContentOf(s))
         /\ PosOf(s) \in 0 .. Len(ContentOf(s))
         /\ s.append => PosOf(s) = Len(ContentOf(s))
<1>1. HandleShape(s) /\ (s.append => s.offset = Len(s.file))
  BY DEF GoodHandle
<1>2. /\ s.file \in Seq(Byte) /\ s.offset \in Nat /\ s.offset \in 0 .. Len(s.file)
      /\ s.ptr \in Nat /\ s.end \in Nat /\ s.posn \in Int /\ Len(s.file) \in Nat
  BY <1>1, FieldsAre
<1>3. CASE IsWriting(s)
  <2>1. ContentOf(s) \in Seq(Byte) /\ Len(ContentOf(s)) = Longer(Len(s.file), s.offset + s.ptr)
    BY <1>3, WrittenIs
  <2>2. PosOf(s) = s.offset + s.ptr
    BY <1>3 DEF GoodHandle, PosOf
  <2> QED BY <1>1, <1>2, <2>1, <2>2 DEF Longer
<1>4. CASE IsReading(s)
  <2>1. ~s.append /\ s.ptr <= s.end /\ s.posn + s.ptr >= 0 /\ s.offset = s.posn + s.end
    BY <1>4 DEF GoodHandle
  <2>2. ContentOf(s) = s.file
    BY <1>4 DEF ContentOf, IsReading
  <2> QED BY <1>2, <2>1, <2>2 DEF PosOf
<1>5. CASE IsIdle(s)
  <2>1. s.ptr = 0 /\ s.posn = s.offset
    BY <1>5 DEF GoodHandle
  <2>2. ContentOf(s) = s.file
    BY <1>5 DEF ContentOf, IsIdle
  <2> QED BY <1>1, <1>2, <2>1, <2>2 DEF PosOf
<1> QED BY <1>1, <1>3, <1>4, <1>5, OneOfThree

LEMMA PositionIs ==
  ASSUME NEW s, GoodHandle(s)
  PROVE  PositionOf(s) = PosOf(s)
BY ContentIs DEF PositionOf, PosOf

\* What is ahead of a handle that does not read is the rest of its file.
LEMMA AheadIs ==
  ASSUME NEW s, GoodHandle(s), ~IsReading(s)
  PROVE  AheadOf(s) = AllFrom(ContentOf(s), PosOf(s))
<1>1. "RDBUF" \notin s.flags
  BY OneOfThree DEF GoodHandle
<1>2. PositionOf(s) = PosOf(s)
  BY PositionIs
<1> QED BY <1>1, <1>2 DEF AheadOf, AllFrom

\* What is ahead of one that reads comes from the buffer, then from the file.
LEMMA BufferedIs ==
  ASSUME NEW s, GoodHandle(s), IsReading(s)
  PROVE  /\ AheadOf(s) = Slice(s, s.ptr, s.end) \o AllFrom(s.file, s.offset)
         /\ Slice(s, s.ptr, s.end) \in Seq(Byte) /\ Len(Slice(s, s.ptr, s.end)) = s.end - s.ptr
         /\ IsSlice(Slice(s, s.ptr, s.end), s, s.ptr, s.end)
         /\ AllFrom(s.file, s.offset) \in Seq(Byte)
<1>1. /\ HandleShape(s) /\ s.ptr <= s.end
      /\ HasBytes(s, s.ptr, s.end)
  BY DEF GoodHandle
<1>2. "RDBUF" \in s.flags
  BY <1>1, OneOfThree
<1>3. /\ s.ptr \in Nat /\ s.end \in Nat /\ s.end <= bufsiz /\ s.file \in Seq(Byte)
      /\ s.offset \in 0 .. Len(s.file)
  BY <1>1, FieldsAre
<1>4. IsSlice(Slice(s, s.ptr, s.end), s, s.ptr, s.end)
  BY <1>1, <1>3, SliceIs
<1>5. IsAllFrom(AllFrom(s.file, s.offset), s.file, s.offset)
  BY <1>3, AllFromIs
<1> QED BY <1>2, <1>4, <1>5 DEF AheadOf, AllFrom, IsAllFrom, IsSlice

LEMMA MinIs ==
  ASSUME NEW a \in Int, NEW b \in Int
  PROVE  Min({a, b}) = IF a <= b THEN a ELSE b
<1> DEFINE m == IF a <= b THEN a ELSE b
<1>1. m \in {a, b} /\ \A y \in {a, b} : m <= y
  OBVIOUS
<1>2. \A x \in {a, b} : (\A y \in {a, b} : x <= y) => x = m
  OBVIOUS
<1> HIDE DEF m
<1>3. Min({a, b}) = m
  BY <1>1, <1>2 DEF Min
<1> QED BY <1>3 DEF m

\* An empty buffer is filled: what is ahead stays.
IsFilled(r, s) ==
  /\ GoodHandle(r) /\ ~IsWriting(r) /\ ~r.append
  /\ ContentOf(r) = ContentOf(s) /\ PosOf(r) = PosOf(s) /\ AheadOf(r) = AheadOf(s)
  /\ Count(r) \in Nat
  /\ Count(r) > 0 => IsReading(r)
  /\ Count(r) = 0 => AheadOf(s) = << >>

LEMMA FlushedAhead ==
  ASSUME NEW s, GoodHandle(s), IsReading(s) => s.ptr = s.end, NEW r, IsFlushed(r, s)
  PROVE  AheadOf(r) = AheadOf(s) /\ AheadOf(r) = AllFrom(r.file, r.offset)
<1>1. GoodHandle(r) /\ HandleShape(r) /\ IsIdle(r) /\ r.file = ContentOf(s) /\ r.offset = PosOf(s)
  BY DEF IsFlushed, GoodHandle
<1>2. ~IsReading(r) /\ ContentOf(r) = r.file /\ PosOf(r) = r.offset
  <2>1. ~IsReading(r) /\ ~IsWriting(r) /\ "WRBUF" \notin r.flags
    BY <1>1, OneOfThree
  <2>2. r.ptr = 0 /\ r.posn = r.offset /\ r.offset \in Nat
    BY <1>1, FieldsAre DEF GoodHandle
  <2> QED BY <2>1, <2>2 DEF ContentOf, PosOf
<1>3. AheadOf(r) = AllFrom(r.file, r.offset)
  BY <1>1, <1>2, AheadIs
<1>4. CASE ~IsReading(s)
  BY <1>1, <1>3, <1>4, AheadIs
<1>5. CASE IsReading(s)
  <2>1. PICK a, b : /\ a = Slice(s, s.ptr, s.end) /\ b = AllFrom(s.file, s.offset)
                    /\ AheadOf(s) = a \o b
    BY <1>5, BufferedIs
  <2>2. a \in Seq(Byte) /\ Len(a) = s.end - s.ptr /\ b \in Seq(Byte)
    BY <1>5, <2>1, BufferedIs
  <2>3. HandleShape(s) /\ s.ptr = s.end /\ s.offset = s.posn + s.end
    BY <1>5 DEF GoodHandle
  <2>4. s.end \in Nat
    BY <2>3, FieldsAre
  <2>5. a = << >>
    <3>1. Len(a) = 0
      BY <2>2, <2>3, <2>4
    <3> QED BY <2>2, <3>1, EmptySeq
  <2>6. AheadOf(s) = b
    BY <2>1, <2>2, <2>5, ConcatEmptySeq
  <2>7. PosOf(s) = s.offset /\ ContentOf(s) = s.file
    BY <2>3, <1>5 DEF PosOf, ContentOf, IsReading
  <2> QED BY <1>1, <1>3, <2>1, <2>6, <2>7
<1> QED BY <1>3, <1>4, <1>5

LEMMA BufFillIs ==
  ASSUME NEW s, GoodHandle(s), ~s.append, IsReading(s) => s.ptr = s.end,
         NEW r, r = BufFill(s)
  PROVE  IsFilled(r, s)
<1>1. PICK g : g = Flush(s)
  OBVIOUS
<1>2. IsFlushed(g, s)
  BY <1>1, FlushIs
<1>3. /\ GoodHandle(g) /\ HandleShape(g) /\ IsIdle(g) /\ ~g.append
      /\ g.file = ContentOf(s) /\ g.offset = PosOf(s) /\ g.ptr = 0 /\ g.end = 0
      /\ g.posn = g.offset
  BY <1>2 DEF IsFlushed, GoodHandle
<1>4. AheadOf(s) = AllFrom(g.file, g.offset) /\ AheadOf(g) = AheadOf(s)
  BY <1>2, FlushedAhead
<1>5. /\ g.file \in Seq(Byte) /\ g.offset \in Nat /\ g.offset \in 0 .. Len(g.file)
      /\ Len(g.file) \in Nat /\ bufsiz \in Nat /\ bufsiz > 0
  BY <1>3, FieldsAre
<1>6. PICK l \in Nat, at \in Nat, avail \in Nat :
        /\ l = Len(g.file) /\ at = g.offset /\ at <= l
        /\ avail = Min({bufsiz, l - at}) /\ avail <= bufsiz /\ avail <= l - at
        /\ avail = 0 => at = l
  <2>1. Min({bufsiz, Len(g.file) - g.offset})
          = IF bufsiz <= Len(g.file) - g.offset THEN bufsiz ELSE Len(g.file) - g.offset
    BY <1>5, MinIs
  <2>2. PICK m \in Nat : /\ m = Min({bufsiz, Len(g.file) - g.offset}) /\ m <= bufsiz
                         /\ m <= Len(g.file) - g.offset /\ (m = 0 => g.offset = Len(g.file))
    BY <1>5, <2>1
  <2>3. g.offset <= Len(g.file)
    BY <1>5
  <2> QED BY <1>5, <2>2, <2>3
<1>n. at \in Nat /\ avail \in Nat /\ l \in Nat /\ at + avail <= l /\ avail <= bufsiz /\ bufsiz \in Nat
  <2>1. at \in Nat /\ avail \in Nat /\ l \in Nat /\ avail <= l - at
    BY <1>6
  <2> QED BY <2>1, <1>5, <1>6
<1>7. ~IsReading(g) /\ ~IsWriting(g) /\ g.flags = {} /\ "RDBUF" \notin g.flags
      /\ "WRBUF" \notin g.flags
  BY <1>3, OneOfThree DEF IsIdle
<1>8. CASE avail = 0
  <2>1. r = [g EXCEPT !.ptr = 0, !.end = 0]
    BY <1>1, <1>6, <1>8 DEF BufFill
  <2>2. /\ HandleShape(r) /\ r.file = g.file /\ r.offset = g.offset /\ r.posn = g.posn
        /\ r.ptr = 0 /\ r.end = 0 /\ r.flags = {} /\ r.append = g.append
    BY <1>3, <1>7, <2>1 DEF HandleShape
  <2>3. IsIdle(r) /\ ~IsReading(r) /\ ~IsWriting(r) /\ "RDBUF" \notin r.flags
        /\ "WRBUF" \notin r.flags
    BY <2>2, OneOfThree DEF IsIdle
  <2>4. GoodHandle(r)
    BY <1>3, <2>2, <2>3 DEF GoodHandle
  <2>5. ContentOf(r) = r.file /\ PosOf(r) = r.offset /\ Count(r) = 0
    BY <1>3, <1>5, <2>2, <2>3 DEF ContentOf, PosOf, Count
  <2>6. AheadOf(r) = AllFrom(r.file, r.offset)
    BY <2>3, <2>4, <2>5, AheadIs
  <2>7. AheadOf(s) = << >>
    <3>1. IsAllFrom(AheadOf(s), g.file, g.offset)
      BY <1>4, <1>5, AllFromIs
    <3>2. AheadOf(s) \in Seq(Byte) /\ Len(AheadOf(s)) = 0
      BY <1>5, <1>6, <1>8, <3>1 DEF IsAllFrom
    <3> QED BY <3>2, EmptySeq
  <2> QED BY <1>3, <1>4, <2>2, <2>3, <2>4, <2>5, <2>6, <2>7 DEF IsFilled
<1>9. CASE avail > 0
  <2>0. PICK there \in Nat : there = at + avail /\ there <= l
    BY <1>n
  <2>1. PICK fill :
          fill = [i \in 0 .. bufsiz - 1 |-> IF i < avail THEN g.file[at + i + 1] ELSE g.buf[i]]
    OBVIOUS
  <2>2. \A i \in 0 .. avail - 1 : fill[i] = g.file[at + i + 1] /\ fill[i] \in Byte
    <3> TAKE i \in 0 .. avail - 1
    <3>1. at + i + 1 \in 1 .. l /\ i \in 0 .. bufsiz - 1 /\ i < avail
      BY <1>n
    <3>2. g.file[at + i + 1] \in Byte
      <4>1. \A k \in 1 .. l : g.file[k] \in Byte
        BY <1>5, <1>6
      <4> QED BY <3>1, <4>1
    <3> QED BY <2>1, <3>1, <3>2
  <2>3. fill \in [0 .. bufsiz - 1 -> Byte \cup {UNINIT}]
    <3>1. g.buf \in [0 .. bufsiz - 1 -> Byte \cup {UNINIT}]
      BY <1>3 DEF HandleShape
    <3>2. ASSUME NEW i \in 0 .. bufsiz - 1
          PROVE  (IF i < avail THEN g.file[at + i + 1] ELSE g.buf[i]) \in Byte \cup {UNINIT}
      <4>1. i < avail => i \in 0 .. avail - 1
        BY <1>5, <1>6
      <4> QED BY <2>1, <2>2, <3>1, <4>1
    <3> QED BY <2>1, <3>2
  <2>4. r = [g EXCEPT !.buf = fill, !.offset = there, !.ptr = 0, !.end = avail,
                      !.flags = {"RDBUF"}]
    <3>1. DOMAIN g.buf = 0 .. bufsiz - 1
      BY <1>3 DEF HandleShape
    <3>2. ~(avail <= 0)
      BY <1>9
    <3> QED BY <1>1, <1>3, <1>6, <2>0, <2>1, <3>1, <3>2 DEF BufFill, HandleShape
  <2>5. /\ r.file = g.file /\ r.offset = there /\ r.posn = g.posn /\ r.buf = fill
        /\ r.ptr = 0 /\ r.end = avail /\ r.flags = {"RDBUF"} /\ r.append = g.append
    BY <1>3, <2>4 DEF HandleShape
  <2>6. HandleShape(r)
    <3>1. avail \in 0 .. bufsiz /\ 0 \in 0 .. bufsiz
      BY <1>5, <1>6
    <3>2. there <= Len(g.file) /\ there \in Nat
      BY <1>6, <2>0
    <3> QED BY <1>3, <2>3, <2>4, <3>1, <3>2 DEF HandleShape
  <2>7. IsReading(r) /\ ~IsIdle(r) /\ ~IsWriting(r) /\ "RDBUF" \in r.flags
        /\ "WRBUF" \notin r.flags
    BY <2>5, <2>6, OneOfThree DEF IsReading
  <2>8. GoodHandle(r)
    <3>1. r.ptr <= r.end /\ r.posn + r.ptr >= 0 /\ r.offset = r.posn + r.end
      BY <1>3, <1>6, <2>0, <2>5
    <3>2. HasBytes(r, r.ptr, r.end)
      BY <2>2, <2>5 DEF HasBytes
    <3> QED BY <1>3, <2>5, <2>6, <2>7, <3>1, <3>2 DEF GoodHandle
  <2>9. ContentOf(r) = r.file /\ PosOf(r) = at /\ Count(r) = avail
    BY <1>3, <1>6, <2>5, <2>7 DEF ContentOf, PosOf, Count
  <2>10. AheadOf(r) = AheadOf(s)
    <3>1. PICK a, b, c, m : /\ a = Slice(r, r.ptr, r.end) /\ b = AllFrom(g.file, there)
                            /\ c = a \o b /\ m = AllFrom(g.file, at)
      OBVIOUS
    <3>2. /\ a \in Seq(Byte) /\ Len(a) = avail
          /\ \A i \in 1 .. avail : a[i] = fill[i - 1]
      <4>1. /\ a \in Seq(Byte) /\ Len(a) = r.end - r.ptr
            /\ \A i \in 1 .. r.end - r.ptr : a[i] = r.buf[r.ptr + i - 1]
        BY <2>7, <2>8, <3>1, BufferedIs DEF IsSlice
      <4>2. r.end - r.ptr = avail /\ \A i \in 1 .. avail : r.ptr + i - 1 = i - 1
        BY <2>5, <1>6
      <4> QED BY <4>1, <4>2, <2>5
    <3>3. AheadOf(r) = c
      BY <2>5, <2>7, <2>8, <3>1, BufferedIs
    <3>4. IsAllFrom(b, g.file, there) /\ IsAllFrom(m, g.file, at)
      <4>1. there \in 0 .. Len(g.file) /\ at \in 0 .. Len(g.file)
        BY <1>6, <2>0
      <4> QED BY <1>5, <3>1, <4>1, AllFromIs
    <3>5. /\ b \in Seq(Byte) /\ Len(b) = l - there
          /\ \A i \in 1 .. l - there : b[i] = g.file[there + i]
      BY <1>6, <3>4 DEF IsAllFrom
    <3>6. /\ m \in Seq(Byte) /\ Len(m) = l - at
          /\ \A i \in 1 .. l - at : m[i] = g.file[at + i]
      BY <1>6, <3>4 DEF IsAllFrom
    <3>7. /\ c \in Seq(Byte) /\ Len(c) = Len(a) + Len(b)
          /\ \A i \in 1 .. Len(a) + Len(b) : c[i] = IF i <= Len(a) THEN a[i] ELSE b[i - Len(a)]
      <4>1. a \in Seq(Byte) /\ b \in Seq(Byte)
        BY <3>2, <3>5
      <4> QED BY <3>1, <4>1, LinkedIs
    <3>8. Len(c) = l - at /\ Len(a) + Len(b) = l - at
      <4>1. Len(a) = avail /\ Len(b) = l - there /\ Len(c) = Len(a) + Len(b)
        BY <3>2, <3>5, <3>7
      <4>2. there = at + avail
        BY <2>0
      <4> QED BY <4>1, <4>2, <1>n
    <3>9. \A i \in 1 .. l - at : c[i] = IF i <= avail THEN a[i] ELSE b[i - avail]
      BY <3>2, <3>7, <3>8
    <3>10. ASSUME NEW i \in 1 .. l - at
           PROVE  c[i] = m[i]
      <4>1. m[i] = g.file[at + i]
        BY <3>6
      <4>2. CASE i <= avail
        <5>1. i \in 1 .. avail /\ i - 1 \in 0 .. avail - 1 /\ at + (i - 1) + 1 = at + i
          BY <4>2, <1>6
        <5>2. c[i] = a[i]
          BY <3>9, <4>2
        <5>3. a[i] = fill[i - 1]
          BY <5>1, <3>2
        <5>4. fill[i - 1] = g.file[at + (i - 1) + 1]
          BY <5>1, <2>2
        <5> QED BY <5>1, <5>2, <5>3, <5>4, <4>1
      <4>3. CASE ~(i <= avail)
        <5>1. i - avail \in 1 .. l - there /\ there + (i - avail) = at + i
          <6>1. there = at + avail
            BY <2>0
          <6> QED BY <4>3, <6>1, <1>n
        <5>2. c[i] = b[i - avail]
          BY <3>9, <4>3
        <5>3. b[i - avail] = g.file[there + (i - avail)]
          BY <5>1, <3>5
        <5> QED BY <5>1, <5>2, <5>3, <4>1
      <4> QED BY <4>2, <4>3
    <3>11. c = m
      BY <3>6, <3>7, <3>8, <3>10, SameBytes
    <3> QED BY <1>4, <1>6, <3>1, <3>3, <3>11
  <2> QED BY <1>3, <1>6, <1>9, <2>5, <2>7, <2>8, <2>9, <2>10 DEF IsFilled
<1> QED BY <1>6, <1>8, <1>9

LEMMA AheadIsBytes ==
  ASSUME NEW s, GoodHandle(s)
  PROVE  AheadOf(s) \in Seq(Byte)
<1>1. CASE IsReading(s)
  <2>1. PICK a, b : AheadOf(s) = a \o b /\ a \in Seq(Byte) /\ b \in Seq(Byte)
    BY <1>1, BufferedIs
  <2> QED BY <2>1, LinkedIs
<1>2. CASE ~IsReading(s)
  <2>1. ContentOf(s) \in Seq(Byte) /\ PosOf(s) \in 0 .. Len(ContentOf(s))
    BY ContentIs
  <2>2. IsAllFrom(AheadOf(s), ContentOf(s), PosOf(s))
    BY <1>2, <2>1, AheadIs, AllFromIs
  <2> QED BY <2>2 DEF IsAllFrom
<1> QED BY <1>1, <1>2

\* A byte is taken from the buffer: it was the first of those ahead.
LEMMA TakeIs ==
  ASSUME NEW s, GoodHandle(s), IsReading(s), s.ptr < s.end, NEW r, r = [s EXCEPT !.ptr = @ + 1]
  PROVE  /\ GoodHandle(r) /\ IsReading(r) /\ r.append = s.append
         /\ ContentOf(r) = ContentOf(s) /\ PosOf(r) = PosOf(s) + 1
         /\ AheadOf(s) # << >> /\ AheadOf(r) = AllFrom(AheadOf(s), 1)
<1>1. /\ HandleShape(s) /\ ~s.append /\ s.posn + s.ptr >= 0 /\ s.offset = s.posn + s.end
      /\ HasBytes(s, s.ptr, s.end) /\ s.flags = {"RDBUF"}
  BY DEF GoodHandle, IsReading
<1>2. /\ s.ptr \in Nat /\ s.end \in Nat /\ s.end <= bufsiz /\ s.posn \in Int /\ bufsiz \in Nat
  BY <1>1, FieldsAre
<1>3. /\ r.file = s.file /\ r.offset = s.offset /\ r.posn = s.posn /\ r.buf = s.buf
      /\ r.ptr = s.ptr + 1 /\ r.end = s.end /\ r.flags = {"RDBUF"} /\ r.append = s.append
  BY <1>1 DEF HandleShape
<1>4. HandleShape(r)
  <2>1. s.ptr + 1 \in 0 .. bufsiz
    BY <1>2
  <2> QED BY <1>1, <2>1 DEF HandleShape
<1>5. IsReading(r) /\ ~IsIdle(r) /\ ~IsWriting(r)
  BY <1>3, <1>4, OneOfThree DEF IsReading
<1>6. HasBytes(r, r.ptr, r.end)
  <2>1. ASSUME NEW i \in s.ptr + 1 .. s.end - 1
        PROVE  s.buf[i] \in Byte
    <3>1. i \in s.ptr .. s.end - 1
      BY <1>2
    <3> QED BY <1>1, <3>1 DEF HasBytes
  <2> QED BY <1>3, <2>1 DEF HasBytes
<1>7. GoodHandle(r)
  <2>1. r.ptr <= r.end /\ r.posn + r.ptr >= 0 /\ r.offset = r.posn + r.end
    BY <1>1, <1>2, <1>3
  <2> QED BY <1>1, <1>3, <1>4, <1>5, <1>6, <2>1 DEF GoodHandle
<1>8. ContentOf(r) = ContentOf(s) /\ PosOf(r) = PosOf(s) + 1
  <2>1. "WRBUF" \notin s.flags /\ "WRBUF" \notin r.flags
    BY <1>1, <1>3
  <2> QED BY <1>2, <1>3, <2>1 DEF ContentOf, PosOf
<1>9. PICK a, b, c : /\ a = Slice(s, s.ptr, s.end) /\ b = AllFrom(s.file, s.offset)
                     /\ c = Slice(r, r.ptr, r.end)
  OBVIOUS
<1>10. /\ AheadOf(s) = a \o b /\ AheadOf(r) = c \o b
       /\ IsSlice(a, s, s.ptr, s.end) /\ IsSlice(c, r, r.ptr, r.end) /\ b \in Seq(Byte)
  BY <1>3, <1>5, <1>7, <1>9, BufferedIs
<1>11. PICK n \in Nat, p \in Nat : n + 1 = s.end - s.ptr /\ p = s.ptr
  <2>1. s.end - s.ptr - 1 \in Nat /\ (s.end - s.ptr - 1) + 1 = s.end - s.ptr
    BY <1>2
  <2> QED BY <1>2, <2>1
<1>12. a \in Seq(Byte) /\ Len(a) = n + 1 /\ \A i \in 1 .. n + 1 : a[i] = s.buf[p + i - 1]
  BY <1>10, <1>11 DEF IsSlice
<1>13. c \in Seq(Byte) /\ Len(c) = n /\ \A i \in 1 .. n : c[i] = s.buf[(p + 1) + i - 1]
  <2>1. r.end - r.ptr = n /\ r.ptr = p + 1
    BY <1>2, <1>3, <1>11
  <2> QED BY <1>3, <1>10, <2>1 DEF IsSlice
<1>14. PICK d : d = AllFrom(a, 1)
  OBVIOUS
<1>15. d = c
  <2>1. 1 \in 0 .. Len(a)
    BY <1>12
  <2>2. IsAllFrom(d, a, 1)
    BY <1>12, <1>14, <2>1, AllFromIs
  <2>3. Len(a) - 1 = n
    BY <1>12
  <2>4. d \in Seq(Byte) /\ Len(d) = n /\ \A i \in 1 .. n : d[i] = a[1 + i]
    BY <2>2, <2>3 DEF IsAllFrom
  <2>5. ASSUME NEW i \in 1 .. n
        PROVE  d[i] = c[i]
    <3>1. 1 + i \in 1 .. n + 1 /\ p + (1 + i) - 1 = (p + 1) + i - 1
      OBVIOUS
    <3>2. a[1 + i] = s.buf[p + (1 + i) - 1]
      BY <1>12, <3>1
    <3>3. d[i] = a[1 + i] /\ c[i] = s.buf[(p + 1) + i - 1]
      BY <2>4, <1>13
    <3> QED BY <3>1, <3>2, <3>3
  <2> QED BY <1>13, <2>4, <2>5, SameBytes
<1>16. AheadOf(r) = AllFrom(AheadOf(s), 1)
  <2>1. Len(a) > 0
    BY <1>12
  <2>2. AllFrom(a \o b, 1) = AllFrom(a, 1) \o b
    BY <1>10, <1>12, <2>1, AllFromLinked
  <2> QED BY <1>10, <1>14, <1>15, <2>2
<1>17. AheadOf(s) # << >>
  <2>1. PICK e : e = a \o b
    OBVIOUS
  <2>2. Len(e) = Len(a) + Len(b)
    BY <1>10, <1>12, <2>1, LinkedIs
  <2>3. Len(b) \in Nat /\ Len(a) = n + 1
    BY <1>10, <1>12
  <2>4. Len(e) # 0
    BY <2>2, <2>3
  <2> QED BY <1>10, <2>1, <2>4
<1> QED BY <1>3, <1>5, <1>7, <1>8, <1>16, <1>17

\* One byte is read, if there is one.
IsRead(r, s) ==
  /\ GoodHandle(r) /\ ~IsWriting(r) /\ ~r.append /\ ContentOf(r) = ContentOf(s)
  /\ AheadOf(s) = << >> => PosOf(r) = PosOf(s) /\ AheadOf(r) = << >>
  /\ AheadOf(s) # << >> => PosOf(r) = PosOf(s) + 1 /\ AheadOf(r) = AllFrom(AheadOf(s), 1)

LEMMA ReadByteIs ==
  ASSUME NEW s, GoodHandle(s), ~s.append, NEW r, r = ReadByte(s)
  PROVE  IsRead(r, s)
<1>1. PICK g : g = IF Count(s) > 0 THEN s ELSE BufFill(s)
  OBVIOUS
<1>2. HandleShape(s) /\ (IsReading(s) => s.ptr <= s.end)
  BY DEF GoodHandle
<1>3. s.ptr \in Nat /\ s.end \in Nat
  BY <1>2, FieldsAre
<1>4. (IsReading(s) => Count(s) = s.end - s.ptr) /\ (~IsReading(s) => Count(s) = 0)
  BY <1>2, OneOfThree DEF Count
<1>5. IsFilled(g, s)
  <2>1. CASE Count(s) > 0
    <3>1. IsReading(s) /\ ~IsWriting(s)
      BY <1>2, <1>4, <2>1, OneOfThree
    <3>2. Count(s) \in Nat
      BY <1>2, <1>3, <1>4, <3>1
    <3>3. g = s /\ Count(s) # 0
      BY <1>1, <2>1, <3>2
    <3> QED BY <3>1, <3>2, <3>3 DEF IsFilled
  <2>2. CASE ~(Count(s) > 0)
    <3>1. IsReading(s) => s.ptr = s.end
      BY <1>2, <1>3, <1>4, <2>2
    <3>2. g = BufFill(s)
      BY <1>1, <2>2
    <3> QED BY <3>1, <3>2, BufFillIs
  <2> QED BY <2>1, <2>2
<1>6. r = IF Count(g) > 0 THEN [g EXCEPT !.ptr = @ + 1] ELSE g
  BY <1>1 DEF ReadByte
<1>7. /\ GoodHandle(g) /\ ~IsWriting(g) /\ ~g.append
      /\ ContentOf(g) = ContentOf(s) /\ PosOf(g) = PosOf(s) /\ AheadOf(g) = AheadOf(s)
      /\ Count(g) \in Nat
      /\ Count(g) > 0 => IsReading(g)
      /\ Count(g) = 0 => AheadOf(s) = << >>
  BY <1>5 DEF IsFilled
<1>8. CASE Count(g) > 0
  <2>1. r = [g EXCEPT !.ptr = @ + 1] /\ IsReading(g) /\ HandleShape(g)
    BY <1>6, <1>7, <1>8 DEF GoodHandle
  <2>2. Count(g) = g.end - g.ptr /\ g.end \in Nat /\ g.ptr \in Nat
    BY <2>1, OneOfThree, FieldsAre DEF Count
  <2>3. g.ptr < g.end
    BY <1>8, <2>2
  <2>4. /\ GoodHandle(r) /\ IsReading(r) /\ r.append = g.append
        /\ ContentOf(r) = ContentOf(g) /\ PosOf(r) = PosOf(g) + 1
        /\ AheadOf(g) # << >> /\ AheadOf(r) = AllFrom(AheadOf(g), 1)
    BY <1>7, <2>1, <2>3, TakeIs
  <2>5. ~IsWriting(r)
    BY <2>4, OneOfThree DEF GoodHandle
  <2> QED BY <1>7, <2>4, <2>5 DEF IsRead
<1>9. CASE Count(g) = 0
  <2>1. r = g
    BY <1>6, <1>9
  <2> QED BY <1>7, <1>9, <2>1 DEF IsRead
<1> QED BY <1>7, <1>8, <1>9

\* Between two calls a buffer for writing is not full.
SteadyHandle(s) == GoodHandle(s) /\ (IsWriting(s) => s.ptr < bufsiz)

\* One byte is written.
IsPrinted(r, s, byte) ==
  /\ SteadyHandle(r) /\ ~IsReading(r) /\ r.append = s.append
  /\ ContentOf(r) = Over(ContentOf(s), PosOf(s), <<byte>>)
  /\ PosOf(r) = PosOf(s) + 1

LEMMA WriteByteIs ==
  ASSUME NEW s, SteadyHandle(s), ~IsReading(s), NEW byte \in Byte, NEW r, r = WriteByte(s, byte)
  PROVE  IsPrinted(r, s, byte)
<1>1. GoodHandle(s) /\ HandleShape(s) /\ (s.append => s.offset = Len(s.file))
  BY DEF SteadyHandle, GoodHandle
<1>2. /\ s.file \in Seq(Byte) /\ s.offset \in Nat /\ s.offset \in 0 .. Len(s.file)
      /\ s.buf \in [0 .. bufsiz - 1 -> Byte \cup {UNINIT}]
      /\ s.ptr \in Nat /\ s.append \in BOOLEAN /\ bufsiz \in Nat /\ bufsiz > 0
  BY <1>1, FieldsAre
<1>3. IsIdle(s) \/ IsWriting(s)
  BY <1>1, OneOfThree
<1>4. s.posn = s.offset /\ s.end = 0 /\ s.ptr < bufsiz /\ HasBytes(s, 0, s.ptr)
  <2>1. CASE IsWriting(s)
    BY <2>1 DEF SteadyHandle, GoodHandle
  <2>2. CASE IsIdle(s)
    <3>1. s.posn = s.offset /\ s.end = 0 /\ s.ptr = 0
      BY <2>2 DEF SteadyHandle, GoodHandle
    <3> QED BY <3>1, <1>2 DEF HasBytes
  <2> QED BY <1>3, <2>1, <2>2
<1>5. PICK d : d = Slice(s, 0, s.ptr)
  OBVIOUS
<1>6. PICK z \in Nat, p \in Nat : z = 0 /\ p = s.ptr /\ p + 1 <= bufsiz /\ p \in 0 .. bufsiz - 1
  BY <1>2, <1>4
<1>7. d \in Seq(Byte) /\ Len(d) = p /\ \A i \in 1 .. p : d[i] = s.buf[0 + i - 1]
  <2>1. IsSlice(d, s, z, p)
    <3>1. HasBytes(s, z, p) /\ d = Slice(s, z, p)
      BY <1>4, <1>5, <1>6
    <3>2. z <= p /\ p <= bufsiz
      BY <1>2, <1>6
    <3>3. HandleShape(s)
      BY <1>1
    <3> QED BY <3>1, <3>2, <3>3, SliceIs
  <2> QED BY <1>6, <2>1 DEF IsSlice
<1>8. ContentOf(s) = Over(s.file, s.offset, d) /\ PosOf(s) = s.offset + Len(d)
  <2>1. PosOf(s) = s.offset + Len(d)
    BY <1>4, <1>6, <1>7 DEF PosOf
  <2>2. CASE IsWriting(s)
    BY <1>1, <1>5, <2>1, <2>2, WrittenIs
  <2>3. CASE IsIdle(s)
    <3>1. s.ptr = 0
      BY <2>3, <1>1 DEF GoodHandle
    <3>2. d = << >>
      BY <1>6, <1>7, <3>1, EmptySeq
    <3>3. ContentOf(s) = s.file
      BY <2>3 DEF ContentOf, IsIdle
    <3> QED BY <1>2, <2>1, <3>2, <3>3, OverNothing
  <2> QED BY <1>3, <2>2, <2>3
<1>9. PICK fill : fill = [s.buf EXCEPT ![p] = byte]
  OBVIOUS
<1>10. fill \in [0 .. bufsiz - 1 -> Byte \cup {UNINIT}]
  BY <1>2, <1>9
<1>11. fill[p] = byte /\ \A i \in 0 .. p - 1 : fill[i] = s.buf[i]
  BY <1>2, <1>6, <1>9
<1>12. s.flags \cup {"WRBUF"} = {"WRBUF"}
  BY <1>3 DEF IsIdle, IsWriting
<1>13. PICK t : t = [s EXCEPT !.buf[s.ptr] = byte, !.ptr = @ + 1, !.flags = @ \cup {"WRBUF"}]
  OBVIOUS
<1>14. t = [s EXCEPT !.buf = fill, !.ptr = p + 1, !.flags = {"WRBUF"}]
  BY <1>1, <1>6, <1>9, <1>12, <1>13 DEF HandleShape
<1>15. /\ t.file = s.file /\ t.offset = s.offset /\ t.posn = s.posn /\ t.buf = fill
       /\ t.ptr = p + 1 /\ t.end = s.end /\ t.flags = {"WRBUF"} /\ t.append = s.append
  BY <1>1, <1>14 DEF HandleShape
<1>16. HandleShape(t)
  <2>1. p + 1 \in 0 .. bufsiz
    BY <1>2, <1>6
  <2> QED BY <1>1, <1>10, <1>14, <2>1 DEF HandleShape
<1>17. IsWriting(t) /\ ~IsIdle(t) /\ ~IsReading(t)
  BY <1>15, <1>16, OneOfThree DEF IsWriting
<1>18. HasBytes(t, 0, t.ptr)
  <2>1. ASSUME NEW i \in 0 .. (p + 1) - 1
        PROVE  fill[i] \in Byte
    <3>1. i = p \/ i \in 0 .. p - 1
      BY <1>6
    <3>2. i \in 0 .. p - 1 => s.buf[i] \in Byte
      BY <1>4, <1>6 DEF HasBytes
    <3> QED BY <1>11, <3>1, <3>2
  <2> QED BY <1>15, <2>1 DEF HasBytes
<1>19. GoodHandle(t)
  BY <1>1, <1>4, <1>15, <1>16, <1>17, <1>18 DEF GoodHandle
<1>20. PICK e : e = Slice(t, 0, t.ptr)
  OBVIOUS
<1>21. e = Append(d, byte)
  <2>1. PICK q \in Nat : q = p + 1 /\ q = t.ptr /\ q <= bufsiz
    BY <1>6, <1>15
  <2>2. IsSlice(e, t, z, q)
    BY <1>6, <1>16, <1>18, <1>20, <2>1, SliceIs
  <2>3. e \in Seq(Byte) /\ Len(e) = p + 1 /\ \A i \in 1 .. p + 1 : e[i] = fill[0 + i - 1]
    BY <1>6, <1>15, <2>1, <2>2 DEF IsSlice
  <2>4. PICK a : a = Append(d, byte)
    OBVIOUS
  <2>5. /\ a \in Seq(Byte) /\ Len(a) = p + 1 /\ \A i \in 1 .. p : a[i] = d[i]
        /\ a[p + 1] = byte
    BY <1>7, <2>4, AppendProperties
  <2>6. ASSUME NEW i \in 1 .. p + 1
        PROVE  e[i] = a[i]
    <3>1. e[i] = fill[0 + i - 1]
      BY <2>3
    <3>2. CASE i = p + 1
      <4>1. 0 + i - 1 = p
        BY <3>2, <1>6
      <4> QED BY <3>1, <3>2, <4>1, <1>11, <2>5
    <3>3. CASE i # p + 1
      <4>1. i \in 1 .. p /\ 0 + i - 1 \in 0 .. p - 1
        BY <3>3, <1>6
      <4>2. a[i] = d[i] /\ d[i] = s.buf[0 + i - 1]
        BY <4>1, <1>7, <2>5
      <4>3. fill[0 + i - 1] = s.buf[0 + i - 1]
        BY <4>1, <1>11
      <4> QED BY <3>1, <4>2, <4>3
    <3> QED BY <3>2, <3>3
  <2> QED BY <2>3, <2>4, <2>5, <2>6, SameBytes
<1>22. ContentOf(t) = Over(ContentOf(s), PosOf(s), <<byte>>) /\ PosOf(t) = PosOf(s) + 1
  <2>1. ContentOf(t) = Over(s.file, s.offset, Append(d, byte))
    BY <1>15, <1>17, <1>19, <1>20, <1>21, WrittenIs
  <2>2. Over(Over(s.file, s.offset, d), s.offset + Len(d), <<byte>>)
          = Over(s.file, s.offset, Append(d, byte))
    BY <1>2, <1>7, OverMore
  <2>3. PosOf(t) = PosOf(s) + 1
    <3>1. PosOf(t) = t.posn + t.ptr /\ PosOf(s) = s.posn + s.ptr
      BY Zenon DEF PosOf
    <3>2. s.posn \in Int /\ s.ptr \in Int /\ t.posn = s.posn /\ t.ptr = s.ptr + 1
      BY <1>2, <1>4, <1>6, <1>15
    <3> QED BY <3>1, <3>2
  <2> QED BY <1>8, <2>1, <2>2, <2>3
<1>23. r = IF t.ptr >= bufsiz THEN Flush(t) ELSE t
  BY <1>13 DEF WriteByte
<1>24. CASE t.ptr >= bufsiz
  <2>1. IsFlushed(r, t)
    BY <1>19, <1>23, <1>24, FlushIs
  <2>2. /\ GoodHandle(r) /\ IsIdle(r) /\ HandleShape(r) /\ r.file = ContentOf(t)
        /\ r.offset = PosOf(t) /\ r.append = t.append /\ r.ptr = 0 /\ r.posn = r.offset
    BY <2>1 DEF IsFlushed, GoodHandle
  <2>3. ~IsReading(r) /\ ~IsWriting(r) /\ "WRBUF" \notin r.flags /\ r.offset \in Nat
    BY <2>2, OneOfThree, FieldsAre
  <2>4. ContentOf(r) = ContentOf(t) /\ PosOf(r) = PosOf(t)
    BY <2>2, <2>3 DEF ContentOf, PosOf
  <2> QED BY <1>15, <1>22, <2>2, <2>3, <2>4 DEF IsPrinted, SteadyHandle
<1>25. CASE ~(t.ptr >= bufsiz)
  <2>1. r = t /\ t.ptr < bufsiz
    BY <1>2, <1>6, <1>15, <1>23, <1>25
  <2> QED BY <1>15, <1>17, <1>19, <1>22, <2>1 DEF IsPrinted, SteadyHandle
<1> QED BY <1>24, <1>25

-----------------------------------------------------------------------------
(* Buffered files: many bytes.                                             *)

FileHandles ==
  [file : Seq(Byte), offset : Nat, buf : [0 .. bufsiz - 1 -> Byte \cup {UNINIT}],
   ptr : 0 .. bufsiz, end : 0 .. bufsiz, posn : Int,
   flags : {{}, {"RDBUF"}, {"WRBUF"}}, append : BOOLEAN]

IsFunction(r) == r = [x \in DOMAIN r |-> r[x]]

LEMMA IsHandle == ASSUME NEW r, HandleShape(r), IsFunction(r) PROVE r \in FileHandles
BY DEF HandleShape, IsFunction, FileHandles

LEMMA ReadByteIsHandle ==
  ASSUME NEW s \in FileHandles, GoodHandle(s), ~s.append
  PROVE  ReadByte(s) \in FileHandles /\ IsRead(ReadByte(s), s)
<1>1. PICK r : r = ReadByte(s)
  OBVIOUS
<1>2. IsRead(r, s)
  BY <1>1, ReadByteIs
<1>3. HandleShape(r)
  BY <1>2 DEF IsRead, GoodHandle
<1>4. IsFunction(BufFill(s))
  BY DEF IsFunction, BufFill
<1>5. CASE Count(s) > 0
  <2>1. r = [s EXCEPT !.ptr = @ + 1]
    BY <1>1, <1>5 DEF ReadByte
  <2>2. IsFunction(r)
    BY <2>1 DEF IsFunction
  <2> QED BY <1>1, <1>2, <1>3, <2>2, IsHandle
<1>6. CASE ~(Count(s) > 0)
  <2>1. PICK g : g = BufFill(s)
    OBVIOUS
  <2>2. r = IF Count(g) > 0 THEN [g EXCEPT !.ptr = @ + 1] ELSE g
    BY <1>1, <1>6, <2>1 DEF ReadByte
  <2>3. IsFunction([g EXCEPT !.ptr = @ + 1])
    BY DEF IsFunction
  <2>4. IsFunction(r)
    BY <1>4, <2>1, <2>2, <2>3
  <2> QED BY <1>1, <1>2, <1>3, <2>4, IsHandle
<1> QED BY <1>5, <1>6

LEMMA WriteByteIsHandle ==
  ASSUME NEW s \in FileHandles, SteadyHandle(s), ~IsReading(s), NEW byte \in Byte
  PROVE  WriteByte(s, byte) \in FileHandles /\ IsPrinted(WriteByte(s, byte), s, byte)
<1>1. PICK r : r = WriteByte(s, byte)
  OBVIOUS
<1>2. IsPrinted(r, s, byte)
  BY <1>1, WriteByteIs
<1>3. HandleShape(r)
  BY <1>2 DEF IsPrinted, SteadyHandle, GoodHandle
<1>4. PICK t : t = [s EXCEPT !.buf[s.ptr] = byte, !.ptr = @ + 1, !.flags = @ \cup {"WRBUF"}]
  OBVIOUS
<1>5. r = IF t.ptr >= bufsiz THEN Flush(t) ELSE t
  BY <1>1, <1>4 DEF WriteByte
<1>6. IsFunction(t)
  BY <1>4 DEF IsFunction
<1>7. IsFunction(Flush(t))
  <2>1. HandleShape(s)
    BY DEF SteadyHandle, GoodHandle
  <2>2. "WRBUF" \in t.flags
    BY <1>4, <2>1 DEF HandleShape
  <2>3. Flush(t) = Emptied([WriteOut(t) EXCEPT !.posn = t.posn + t.ptr])
    <3>1. t.flags # {"RDBUF"} /\ t.flags # {}
      BY <2>2
    <3> QED BY <2>2, <3>1 DEF Flush
  <2> QED BY <2>3 DEF Emptied, IsFunction
<1>8. IsFunction(r)
  BY <1>5, <1>6, <1>7
<1> QED BY <1>1, <1>2, <1>3, <1>8, IsHandle

LEMMA AllFromStart ==
  ASSUME NEW s \in Seq(Byte)
  PROVE  AllFrom(s, 0) = s
<1>1. SubSeq(s, 1, Len(s)) = s
  BY SubSeqFull
<1>2. 0 + 1 = 1
  OBVIOUS
<1> QED BY <1>1, <1>2 DEF AllFrom

\* The state of a read of s, when k bytes are asked for.
IsReadUpTo(r, s, k) ==
  /\ r \in FileHandles /\ SteadyHandle(r) /\ ~r.append /\ ContentOf(r) = ContentOf(s)
  /\ k <= Len(AheadOf(s)) => PosOf(r) = PosOf(s) + k /\ AheadOf(r) = AllFrom(AheadOf(s), k)
  /\ k > Len(AheadOf(s)) =>
       PosOf(r) = PosOf(s) + Len(AheadOf(s)) /\ AheadOf(r) = << >>

LEMMA ReadOneMore ==
  ASSUME NEW s \in FileHandles, SteadyHandle(s), ~s.append, NEW k \in Nat, NEW h,
         IsReadUpTo(h, s, k)
  PROVE  IsReadUpTo(ReadByte(h), s, k + 1)
<1>1. PICK r : r = ReadByte(h)
  OBVIOUS
<1>2. h \in FileHandles /\ GoodHandle(h) /\ ~h.append /\ ContentOf(h) = ContentOf(s)
  BY DEF IsReadUpTo, SteadyHandle
<1>3. r \in FileHandles /\ IsRead(r, h)
  BY <1>1, <1>2, ReadByteIsHandle
<1>4. SteadyHandle(r) /\ ~r.append /\ ContentOf(r) = ContentOf(s)
  BY <1>2, <1>3 DEF IsRead, SteadyHandle
<1>a. GoodHandle(s)
  BY DEF SteadyHandle
<1>b. PICK a \in Seq(Byte) : a = AheadOf(s)
  BY <1>a, AheadIsBytes
<1>c. PICK p \in Nat : p = PosOf(s)
  BY <1>a, ContentIs
<1>d. PICK l \in Nat : l = Len(a)
  BY <1>b
<1>5. a = AheadOf(s) /\ l = Len(a) /\ p = PosOf(s) /\ a \in Seq(Byte) /\ l \in Nat /\ p \in Nat
  BY <1>b, <1>c, <1>d
<1>6. CASE k < l
  <2>1. PosOf(h) = p + k /\ AheadOf(h) = AllFrom(a, k)
    BY <1>5, <1>6 DEF IsReadUpTo
  <2>2. k \in 0 .. Len(a) /\ 1 \in 0 .. Len(a) - k
    BY <1>5, <1>6
  <2>3. IsAllFrom(AheadOf(h), a, k)
    BY <1>5, <2>1, <2>2, AllFromIs
  <2>4. AheadOf(h) # << >>
    <3>1. Len(AheadOf(h)) = l - k
      BY <1>5, <2>3 DEF IsAllFrom
    <3>2. Len(AheadOf(h)) # 0
      BY <1>5, <1>6, <3>1
    <3> QED BY <3>2
  <2>5. PosOf(r) = PosOf(h) + 1 /\ AheadOf(r) = AllFrom(AheadOf(h), 1)
    BY <1>3, <2>4 DEF IsRead
  <2>6. AllFrom(AllFrom(a, k), 1) = AllFrom(a, k + 1)
    BY <1>5, <2>2, AllFromTwice
  <2>7. PosOf(r) = p + (k + 1) /\ AheadOf(r) = AllFrom(a, k + 1)
    BY <1>5, <2>1, <2>5, <2>6
  <2>8. k + 1 <= l /\ ~(k + 1 > l)
    BY <1>5, <1>6
  <2> QED BY <1>1, <1>3, <1>4, <1>5, <2>7, <2>8 DEF IsReadUpTo
<1>7. CASE ~(k < l)
  <2>1. PosOf(h) = p + l /\ AheadOf(h) = << >>
    <3>1. CASE k = l
      <4>1. PosOf(h) = p + k /\ AheadOf(h) = AllFrom(a, k)
        BY <1>5, <3>1 DEF IsReadUpTo
      <4>2. k \in 0 .. Len(a)
        BY <1>5, <3>1
      <4>3. IsAllFrom(AheadOf(h), a, k)
        BY <1>5, <4>1, <4>2, AllFromIs
      <4>4. AheadOf(h) \in Seq(Byte) /\ Len(AheadOf(h)) = 0
        BY <1>5, <3>1, <4>3 DEF IsAllFrom
      <4> QED BY <3>1, <4>1, <4>4, EmptySeq
    <3>2. CASE k > l
      BY <1>5, <3>2 DEF IsReadUpTo
    <3> QED BY <1>5, <1>7, <3>1, <3>2
  <2>2. PosOf(r) = p + l /\ AheadOf(r) = << >>
    BY <1>3, <2>1 DEF IsRead
  <2>3. k + 1 > l /\ ~(k + 1 <= l)
    BY <1>5, <1>7
  <2> QED BY <1>1, <1>3, <1>4, <1>5, <2>2, <2>3 DEF IsReadUpTo
<1> QED BY <1>6, <1>7

LEMMA ReadFromIs ==
  ASSUME NEW s \in FileHandles, SteadyHandle(s), ~s.append, NEW n \in Nat, NEW r, r = ReadFrom(s, n)
  PROVE  IsReadUpTo(r, s, n)
<1>1. PICK S : S = {h \in FileHandles : GoodHandle(h) /\ ~h.append}
  OBVIOUS
<1>2. s \in S
  BY <1>1 DEF SteadyHandle
<1>3. \A h \in S : ReadByte(h) \in S
  <2> TAKE h \in S
  <2>1. ReadByte(h) \in FileHandles /\ IsRead(ReadByte(h), h)
    BY <1>1, ReadByteIsHandle
  <2> QED BY <1>1, <2>1 DEF IsRead
<1>4. PICK g \in [S -> S] : \A h \in S : g[h] = ReadByte(h)
  <2>1. PICK g : g = [h \in S |-> ReadByte(h)]
    OBVIOUS
  <2>2. g \in [S -> S]
    BY <1>3, <2>1
  <2> QED BY <2>1, <2>2
<1>5. PICK rec \in [Nat -> S] : rec[0] = s /\ \A k \in Nat : rec[k + 1] = g[rec[k]]
  <2>1. \E rec : Recursive(rec, S, s, g)
    BY <1>2, <1>4, Recursion
  <2> QED BY <2>1 DEF Recursive
<1> DEFINE Step(p) == [k \in Nat |-> IF k = 0 THEN s ELSE ReadByte(p[k - 1])]
           P == CHOOSE p : p = Step(p)
<1>6. rec = Step(rec)
  <2>1. ASSUME NEW k \in Nat, k # 0
        PROVE  rec[k] = ReadByte(rec[k - 1])
    <3>1. PICK j \in Nat : j = k - 1 /\ k = j + 1
      BY <2>1
    <3>2. rec[j] \in S /\ rec[j + 1] = g[rec[j]]
      BY <1>5
    <3> QED BY <1>4, <3>1, <3>2
  <2>2. \A k \in Nat : rec[k] = IF k = 0 THEN s ELSE ReadByte(rec[k - 1])
    BY <2>1, <1>5
  <2> QED BY <2>2
<1>7. P = Step(P)
  <2> HIDE DEF Step
  <2> QED BY <1>6
<1>8. r = P[n]
  BY DEF ReadFrom
<1>9. P[0] = s /\ \A k \in Nat : P[k + 1] = ReadByte(P[k])
  <2> HIDE DEF P
  <2>1. \A k \in Nat : P[k] = IF k = 0 THEN s ELSE ReadByte(P[k - 1])
    BY <1>7
  <2>2. \A k \in Nat : k + 1 \in Nat /\ k + 1 # 0 /\ k + 1 - 1 = k
    OBVIOUS
  <2> QED BY <2>1, <2>2
<1> HIDE DEF P
<1>10. \A k \in Nat : IsReadUpTo(P[k], s, k)
  <2> DEFINE T == {k \in Nat : IsReadUpTo(P[k], s, k)}
  <2>1. 0 \in T
    <3>1. AheadOf(s) \in Seq(Byte) /\ PosOf(s) \in Nat
      BY AheadIsBytes, ContentIs DEF SteadyHandle
    <3>2. AllFrom(AheadOf(s), 0) = AheadOf(s) /\ PosOf(s) + 0 = PosOf(s)
          /\ ~(0 > Len(AheadOf(s)))
      BY <3>1, AllFromStart
    <3> QED BY <1>9, <3>2 DEF IsReadUpTo
  <2>2. ASSUME NEW k \in Nat, k \in T
        PROVE  k + 1 \in T
    <3>1. IsReadUpTo(P[k], s, k)
      BY <2>2
    <3>2. IsReadUpTo(ReadByte(P[k]), s, k + 1)
      BY <3>1, ReadOneMore
    <3> QED BY <3>2, <1>9
  <2>3. Nat \subseteq T
    <3> HIDE DEF T
    <3> QED BY <2>1, <2>2, ByInduction
  <2> QED BY <2>3
<1> QED BY <1>8, <1>10

\* The state of a write of data to s, when k bytes are written.
IsWrittenUpTo(r, s, data, k) ==
  /\ r \in FileHandles /\ SteadyHandle(r) /\ ~IsReading(r) /\ r.append = s.append
  /\ ContentOf(r) = Over(ContentOf(s), PosOf(s), SubSeq(data, 1, k))
  /\ PosOf(r) = PosOf(s) + k

LEMMA WriteOneMore ==
  ASSUME NEW s \in FileHandles, SteadyHandle(s), NEW data \in Seq(Byte), NEW k \in Nat,
         k < Len(data), NEW h, IsWrittenUpTo(h, s, data, k)
  PROVE  IsWrittenUpTo(WriteByte(h, data[k + 1]), s, data, k + 1)
<1>1. k + 1 \in 1 .. Len(data) /\ data[k + 1] \in Byte /\ k \in 0 .. Len(data)
  OBVIOUS
<1>b. PICK b \in Byte : b = data[k + 1]
  BY <1>1
<1>2. PICK r : r = WriteByte(h, b)
  OBVIOUS
<1>3. h \in FileHandles /\ SteadyHandle(h) /\ ~IsReading(h) /\ h.append = s.append
  BY DEF IsWrittenUpTo
<1>4. r \in FileHandles /\ IsPrinted(r, h, b)
  BY <1>2, <1>3, WriteByteIsHandle
<1>5. PICK c, p, d, e : /\ c = ContentOf(s) /\ p = PosOf(s)
                        /\ d = SubSeq(data, 1, k) /\ e = SubSeq(data, 1, k + 1)
  OBVIOUS
<1>6. c \in Seq(Byte) /\ p \in 0 .. Len(c) /\ p \in Nat
  BY <1>5, ContentIs DEF SteadyHandle
<1>7. d \in Seq(Byte) /\ Len(d) = k /\ \A i \in 1 .. k : d[i] = data[i]
  BY <1>1, <1>5, StartIs
<1>8. e = Append(d, b)
  <2>1. PICK m \in 0 .. Len(data) : m = k + 1
    BY <1>1
  <2>2. e \in Seq(Byte) /\ Len(e) = m /\ \A i \in 1 .. m : e[i] = data[i]
    BY <1>5, <2>1, StartIs
  <2>3. PICK a : a = Append(d, b)
    OBVIOUS
  <2>4. /\ a \in Seq(Byte) /\ Len(a) = k + 1 /\ \A i \in 1 .. k : a[i] = d[i]
        /\ a[k + 1] = b
    BY <1>7, <2>3, AppendProperties
  <2>5. ASSUME NEW i \in 1 .. k + 1
        PROVE  e[i] = a[i]
    <3>1. i = k + 1 \/ i \in 1 .. k
      OBVIOUS
    <3>2. e[i] = data[i]
      BY <2>1, <2>2
    <3> QED BY <1>b, <1>7, <2>4, <3>1, <3>2
  <2>6. Len(e) = k + 1 /\ Len(a) = Len(e)
    BY <2>1, <2>2, <2>4
  <2> QED BY <2>2, <2>3, <2>4, <2>5, <2>6, SameBytes
<1>9. ContentOf(h) = Over(c, p, d) /\ PosOf(h) = p + Len(d)
  BY <1>5, <1>7 DEF IsWrittenUpTo
<1>10. Over(Over(c, p, d), p + Len(d), <<b>>) = Over(c, p, Append(d, b))
  BY <1>6, <1>7, OverMore
<1>11. ContentOf(r) = Over(c, p, e) /\ PosOf(r) = p + (k + 1)
  <2>1. ContentOf(r) = Over(ContentOf(h), PosOf(h), <<b>>) /\ PosOf(r) = PosOf(h) + 1
    BY <1>4 DEF IsPrinted
  <2>2. PosOf(h) = p + k
    BY <1>7, <1>9
  <2>3. PosOf(r) = p + (k + 1)
    BY <1>6, <2>1, <2>2
  <2> QED BY <1>8, <1>9, <1>10, <2>1, <2>3
<1>12. SteadyHandle(r) /\ ~IsReading(r) /\ r.append = s.append
  BY <1>3, <1>4 DEF IsPrinted
<1> QED BY <1>b, <1>2, <1>4, <1>5, <1>11, <1>12 DEF IsWrittenUpTo

LEMMA WriteToIs ==
  ASSUME NEW s \in FileHandles, SteadyHandle(s), ~IsReading(s), NEW data \in Seq(Byte),
         NEW r, r = WriteTo(s, data)
  PROVE  IsWrittenUpTo(r, s, data, Len(data))
<1>1. PICK n \in Nat : n = Len(data)
  OBVIOUS
<1>2. PICK S : S = {q \in FileHandles \X Nat : SteadyHandle(q[1]) /\ ~IsReading(q[1])}
  OBVIOUS
<1>3. <<s, 0>> \in S
  BY <1>2
<1> DEFINE PutNext(q) == IF q[2] < n THEN <<WriteByte(q[1], data[q[2] + 1]), q[2] + 1>> ELSE q
<1>4. \A q \in S : PutNext(q) \in S
  <2> TAKE q \in S
  <2>1. CASE q[2] < n
    <3>0. q \in FileHandles \X Nat /\ SteadyHandle(q[1]) /\ ~IsReading(q[1])
      BY <1>2
    <3>1. PICK h \in FileHandles, k \in Nat :
            h = q[1] /\ k = q[2] /\ SteadyHandle(h) /\ ~IsReading(h)
      BY <3>0
    <3>2. k + 1 \in 1 .. Len(data) /\ k + 1 \in Nat
      BY <1>1, <2>1, <3>1
    <3>3. data[k + 1] \in Byte
      BY <3>2
    <3>4. WriteByte(h, data[k + 1]) \in FileHandles /\ IsPrinted(WriteByte(h, data[k + 1]), h, data[k + 1])
      BY <3>1, <3>3, WriteByteIsHandle
    <3>5. SteadyHandle(WriteByte(h, data[k + 1])) /\ ~IsReading(WriteByte(h, data[k + 1]))
      BY <3>4 DEF IsPrinted
    <3> QED BY <1>2, <2>1, <3>1, <3>2, <3>4, <3>5
  <2>2. CASE ~(q[2] < n)
    BY <2>2
  <2> QED BY <2>1, <2>2
<1>5. PICK g \in [S -> S] : \A q \in S : g[q] = PutNext(q)
  <2> HIDE DEF PutNext
  <2>1. PICK g : g = [q \in S |-> PutNext(q)]
    OBVIOUS
  <2>2. g \in [S -> S]
    BY <1>4, <2>1
  <2> QED BY <2>1, <2>2
<1>6. PICK rec \in [Nat -> S] : rec[0] = <<s, 0>> /\ \A k \in Nat : rec[k + 1] = g[rec[k]]
  <2>1. \E rec : Recursive(rec, S, <<s, 0>>, g)
    BY <1>3, <1>5, Recursion
  <2> QED BY <2>1 DEF Recursive
<1>7. \A k \in Nat : k < n => rec[k + 1] = PutNext(rec[k])
  <2> HIDE DEF PutNext
  <2> QED BY <1>5, <1>6
<1>8. \A k \in Nat : k <= n => rec[k][2] = k
  <2> DEFINE T == {k \in Nat : k <= n => rec[k][2] = k}
  <2>1. 0 \in T
    BY <1>6
  <2>2. ASSUME NEW k \in Nat, k \in T
        PROVE  k + 1 \in T
    <3> SUFFICES ASSUME k + 1 <= n
                 PROVE  rec[k + 1][2] = k + 1
      OBVIOUS
    <3>1. k < n /\ rec[k][2] = k
      BY <2>2, <1>1
    <3>2. rec[k + 1] = <<WriteByte(rec[k][1], data[k + 1]), k + 1>>
      BY <3>1, <1>7
    <3> QED BY <3>2
  <2>3. Nat \subseteq T
    <3> HIDE DEF T
    <3> QED BY <2>1, <2>2, ByInduction
  <2> QED BY <2>3
<1> DEFINE Step(p) == [k \in 0 .. n |-> IF k = 0 THEN s ELSE WriteByte(p[k - 1], data[k])]
           P == CHOOSE p : p = Step(p)
<1>9. PICK w : w = [k \in 0 .. n |-> rec[k][1]]
  OBVIOUS
<1>10. w = Step(w)
  <2>1. ASSUME NEW k \in 0 .. n, k # 0
        PROVE  w[k] = WriteByte(w[k - 1], data[k])
    <3>1. PICK j \in Nat : j = k - 1 /\ k = j + 1 /\ j < n /\ j \in 0 .. n
      BY <2>1
    <3>2. rec[j + 1] = <<WriteByte(rec[j][1], data[j + 1]), j + 1>>
      <4>1. rec[j][2] = j
        BY <1>8, <3>1
      <4>2. rec[j + 1] = PutNext(rec[j])
        BY <1>7, <3>1
      <4> QED BY <3>1, <4>1, <4>2
    <3>3. w[j] = rec[j][1] /\ w[k] = rec[j + 1][1]
      BY <1>9, <3>1
    <3> QED BY <3>1, <3>2, <3>3
  <2>2. w[0] = s
    BY <1>6, <1>9
  <2>3. \A k \in 0 .. n : w[k] = IF k = 0 THEN s ELSE WriteByte(w[k - 1], data[k])
    BY <2>1, <2>2
  <2> QED BY <1>9, <2>3
<1>11. P = Step(P)
  <2> HIDE DEF Step
  <2> QED BY <1>10
<1>12. r = P[n]
  BY <1>1 DEF WriteTo
<1>13. P[0] = s /\ \A k \in Nat : k < n => P[k + 1] = WriteByte(P[k], data[k + 1])
  <2> HIDE DEF P
  <2>1. \A k \in 0 .. n : P[k] = IF k = 0 THEN s ELSE WriteByte(P[k - 1], data[k])
    BY <1>11
  <2>2. \A k \in Nat : k < n => k + 1 \in 0 .. n /\ k + 1 # 0 /\ k + 1 - 1 = k
    OBVIOUS
  <2>3. 0 \in 0 .. n
    OBVIOUS
  <2> QED BY <2>1, <2>2, <2>3
<1> HIDE DEF P
<1>14. \A k \in Nat : k <= n => IsWrittenUpTo(P[k], s, data, k)
  <2> DEFINE T == {k \in Nat : k <= n => IsWrittenUpTo(P[k], s, data, k)}
  <2>1. 0 \in T
    <3>1. ContentOf(s) \in Seq(Byte) /\ PosOf(s) \in Nat /\ PosOf(s) \in 0 .. Len(ContentOf(s))
      BY ContentIs DEF SteadyHandle
    <3>2. SubSeq(data, 1, 0) = << >>
      BY SubSeqEmpty
    <3>3. PosOf(s) + 0 = PosOf(s)
      BY <3>1
    <3>4. Over(ContentOf(s), PosOf(s), SubSeq(data, 1, 0)) = ContentOf(s)
      BY <3>1, <3>2, OverNothing
    <3> QED BY <1>13, <3>3, <3>4 DEF IsWrittenUpTo
  <2>2. ASSUME NEW k \in Nat, k \in T
        PROVE  k + 1 \in T
    <3> SUFFICES ASSUME k + 1 <= n
                 PROVE  IsWrittenUpTo(P[k + 1], s, data, k + 1)
      OBVIOUS
    <3>1. k < n /\ k < Len(data) /\ IsWrittenUpTo(P[k], s, data, k)
      BY <2>2, <1>1
    <3>2. IsWrittenUpTo(WriteByte(P[k], data[k + 1]), s, data, k + 1)
      BY <3>1, WriteOneMore
    <3> QED BY <3>1, <3>2, <1>13
  <2>3. Nat \subseteq T
    <3> HIDE DEF T
    <3> QED BY <2>1, <2>2, ByInduction
  <2> QED BY <2>3
<1> QED BY <1>1, <1>12, <1>14

-----------------------------------------------------------------------------
(* Buffered files: the actions.                                            *)

GoodFile(s) == s \in FileHandles /\ SteadyHandle(s) /\ Len(ContentOf(s)) <= MaxLen

LEMMA IdleIs ==
  ASSUME NEW s, GoodHandle(s), IsIdle(s)
  PROVE  /\ SteadyHandle(s) /\ ~IsReading(s) /\ ContentOf(s) = s.file /\ PosOf(s) = s.offset
         /\ AheadOf(s) = AllFrom(s.file, s.offset)
<1>1. HandleShape(s) /\ s.ptr = 0 /\ s.posn = s.offset
  BY DEF GoodHandle
<1>2. s.offset \in Nat /\ ~IsReading(s) /\ ~IsWriting(s) /\ "WRBUF" \notin s.flags
  BY <1>1, FieldsAre, OneOfThree
<1>3. ContentOf(s) = s.file /\ PosOf(s) = s.offset
  BY <1>1, <1>2 DEF ContentOf, PosOf
<1> QED BY <1>2, <1>3, AheadIs DEF SteadyHandle

LEMMA FlushIsHandle ==
  ASSUME NEW s \in FileHandles, GoodHandle(s), NEW r, r = Flush(s)
  PROVE  /\ r \in FileHandles /\ SteadyHandle(r) /\ ~IsReading(r) /\ IsIdle(r) /\ r.append = s.append
         /\ ContentOf(r) = ContentOf(s) /\ PosOf(r) = PosOf(s) /\ r.file = ContentOf(s)
         /\ r.offset = PosOf(s) /\ AheadOf(r) = AllFrom(ContentOf(s), PosOf(s))
<1>1. IsFlushed(r, s)
  BY FlushIs
<1>2. /\ GoodHandle(r) /\ IsIdle(r) /\ r.append = s.append
      /\ r.file = ContentOf(s) /\ r.offset = PosOf(s)
  BY <1>1 DEF IsFlushed
<1>3. IsFunction(r) \/ r = s
  <2>1. \A x : IsFunction(Emptied(x))
    BY DEF IsFunction, Emptied
  <2>2. HandleShape(s)
    BY DEF GoodHandle
  <2>3. CASE IsWriting(s)
    <3>1. "WRBUF" \in s.flags /\ s.flags # {"RDBUF"} /\ s.flags # {}
      BY <2>3 DEF IsWriting
    <3>2. r = Emptied([WriteOut(s) EXCEPT !.posn = s.posn + s.ptr])
      BY <3>1 DEF Flush
    <3> QED BY <2>1, <3>2
  <2>4. CASE IsIdle(s)
    <3>1. "WRBUF" \notin s.flags /\ s.flags # {"RDBUF"} /\ s.flags = {}
      BY <2>4 DEF IsIdle
    <3>2. r = Emptied(s)
      BY <3>1 DEF Flush
    <3> QED BY <2>1, <3>2
  <2>5. CASE IsReading(s)
    <3>1. "WRBUF" \notin s.flags /\ s.flags = {"RDBUF"} /\ s.flags # {}
      BY <2>5 DEF IsReading
    <3>2. s.ptr \in Nat /\ s.end \in Nat /\ s.posn + s.ptr >= 0 /\ s.posn \in Int
      BY <2>2, <2>5, FieldsAre DEF GoodHandle
    <3>3. CASE s.ptr >= s.end
      <4>1. r = Emptied([s EXCEPT !.posn = s.posn + s.ptr])
        BY <3>1, <3>2, <3>3 DEF Flush
      <4> QED BY <2>1, <4>1
    <3>4. CASE s.ptr < s.end
      <4>1. ~(s.ptr >= s.end)
        BY <3>2, <3>4
      <4>2. r = Emptied([s EXCEPT !.offset = s.posn + s.ptr, !.posn = s.posn + s.ptr])
        BY <3>1, <3>2, <3>4, <4>1 DEF Flush
      <4> QED BY <2>1, <4>2
    <3> QED BY <3>2, <3>3, <3>4
  <2> QED BY <2>2, <2>3, <2>4, <2>5, OneOfThree
<1>4. r \in FileHandles
  <2>1. HandleShape(r)
    BY <1>2 DEF GoodHandle
  <2> QED BY <1>3, <2>1, IsHandle
<1> QED BY <1>2, <1>4, IdleIs

\* A handle that is opened: it stands for its file.
LEMMA OpenedIs ==
  ASSUME NEW file \in Seq(Byte), NEW append \in BOOLEAN, NEW r, r = Opened(file, append)
  PROVE  /\ r \in FileHandles /\ SteadyHandle(r) /\ r.append = append /\ ContentOf(r) = file
         /\ PosOf(r) = (IF append THEN Len(file) ELSE 0)
         /\ AheadOf(r) = AllFrom(file, IF append THEN Len(file) ELSE 0)
<1>1. PICK start : start = IF append THEN Len(file) ELSE 0
  OBVIOUS
<1>2. start \in Nat /\ start <= Len(file) /\ (append => start = Len(file))
  BY <1>1
<1>3. r = [file |-> file, offset |-> start, buf |-> [i \in 0 .. bufsiz - 1 |-> UNINIT],
           ptr |-> 0, end |-> 0, posn |-> start, flags |-> {}, append |-> append]
  BY <1>1 DEF Opened
<1>4. 0 \in 0 .. bufsiz
  BY PerlIOAssumption
<1>5. [i \in 0 .. bufsiz - 1 |-> UNINIT] \in [0 .. bufsiz - 1 -> Byte \cup {UNINIT}]
  OBVIOUS
<1>6. HandleShape(r)
  BY <1>2, <1>3, <1>4, <1>5 DEF HandleShape
<1>7. r \in FileHandles
  BY <1>2, <1>3, <1>4, <1>5 DEF FileHandles
<1>8. /\ r.file = file /\ r.offset = start /\ r.posn = start /\ r.ptr = 0 /\ r.end = 0
      /\ r.flags = {} /\ r.append = append
  BY <1>3
<1>9. IsIdle(r) /\ ~IsReading(r) /\ ~IsWriting(r)
  BY <1>6, <1>8, OneOfThree DEF IsIdle
<1>10. GoodHandle(r)
  BY <1>2, <1>6, <1>8, <1>9 DEF GoodHandle
<1> QED BY <1>1, <1>7, <1>8, <1>9, <1>10, IdleIs

LEMMA ThreeLinked ==
  ASSUME NEW x \in Seq(Byte), NEW y \in Seq(Byte), NEW z \in Seq(Byte)
  PROVE  (x \o y) \o z = x \o (y \o z)
BY ConcatAssociative

\* A byte is put back before the others of the buffer.
LEMMA PutBackIs ==
  ASSUME NEW s, GoodHandle(s), IsReading(s), s.ptr > 0, PosOf(s) > 0, NEW byte \in Byte,
         NEW r, r = [s EXCEPT !.ptr = @ - 1, !.buf[s.ptr - 1] = byte]
  PROVE  /\ GoodHandle(r) /\ IsReading(r) /\ r.append = s.append
         /\ ContentOf(r) = ContentOf(s) /\ PosOf(r) = PosOf(s) - 1
         /\ AheadOf(r) = <<byte>> \o AheadOf(s)
<1>1. /\ HandleShape(s) /\ ~s.append /\ s.ptr <= s.end /\ s.offset = s.posn + s.end
      /\ HasBytes(s, s.ptr, s.end) /\ s.flags = {"RDBUF"}
  BY DEF GoodHandle, IsReading
<1>2. /\ s.ptr \in Nat /\ s.end \in Nat /\ s.end <= bufsiz /\ s.posn \in Int /\ bufsiz \in Nat
      /\ s.buf \in [0 .. bufsiz - 1 -> Byte \cup {UNINIT}]
  BY <1>1, FieldsAre
<1>3. PICK p \in Nat : p = s.ptr - 1 /\ p + 1 = s.ptr /\ p \in 0 .. bufsiz - 1 /\ p \in 0 .. bufsiz
  BY <1>1, <1>2
<1>4. PICK fill : fill = [s.buf EXCEPT ![p] = byte]
  OBVIOUS
<1>5. /\ fill \in [0 .. bufsiz - 1 -> Byte \cup {UNINIT}] /\ fill[p] = byte
      /\ \A i \in 0 .. bufsiz - 1 : i # p => fill[i] = s.buf[i]
  BY <1>2, <1>3, <1>4
<1>6. r = [s EXCEPT !.ptr = p, !.buf = fill]
  BY <1>1, <1>3, <1>4 DEF HandleShape
<1>7. /\ r.file = s.file /\ r.offset = s.offset /\ r.posn = s.posn /\ r.buf = fill
      /\ r.ptr = p /\ r.end = s.end /\ r.flags = {"RDBUF"} /\ r.append = s.append
  BY <1>1, <1>6 DEF HandleShape
<1>8. HandleShape(r)
  BY <1>1, <1>3, <1>5, <1>6 DEF HandleShape
<1>9. IsReading(r) /\ ~IsIdle(r) /\ ~IsWriting(r)
  BY <1>7, <1>8, OneOfThree DEF IsReading
<1>10. \A i \in s.ptr .. s.end - 1 : fill[i] = s.buf[i]
  <2> TAKE i \in s.ptr .. s.end - 1
  <2>1. i \in 0 .. bufsiz - 1 /\ i # p
    BY <1>2, <1>3
  <2> QED BY <1>5, <2>1
<1>11. HasBytes(r, r.ptr, r.end)
  <2>1. ASSUME NEW i \in p .. s.end - 1
        PROVE  fill[i] \in Byte
    <3>1. i = p \/ i \in s.ptr .. s.end - 1
      BY <1>2, <1>3
    <3>2. i \in s.ptr .. s.end - 1 => s.buf[i] \in Byte
      BY <1>1 DEF HasBytes
    <3> QED BY <1>5, <1>10, <3>1, <3>2
  <2> QED BY <1>7, <2>1 DEF HasBytes
<1>12. GoodHandle(r)
  <2>1. r.ptr <= r.end /\ r.posn + r.ptr >= 0 /\ r.offset = r.posn + r.end
    <3>1. PICK here \in Int : here = s.posn + s.ptr
      BY <1>2
    <3>2. PosOf(s) = s.posn + s.ptr
      BY Zenon DEF PosOf
    <3>3. here > 0
      BY <3>1, <3>2
    <3>4. r.posn + r.ptr = here - 1
      BY <1>2, <1>3, <1>7, <3>1
    <3>5. r.posn + r.ptr >= 0
      BY <3>3, <3>4
    <3>6. r.ptr <= r.end /\ r.offset = r.posn + r.end
      BY <1>1, <1>2, <1>3, <1>7
    <3> QED BY <3>5, <3>6
  <2> QED BY <1>1, <1>7, <1>8, <1>9, <1>11, <2>1 DEF GoodHandle
<1>13. ContentOf(r) = ContentOf(s) /\ PosOf(r) = PosOf(s) - 1
  <2>1. "WRBUF" \notin s.flags /\ "WRBUF" \notin r.flags
    BY <1>1, <1>7
  <2> QED BY <1>2, <1>3, <1>7, <2>1 DEF ContentOf, PosOf
<1>14. PICK a, b, c, e : /\ a = Slice(s, s.ptr, s.end) /\ b = AllFrom(s.file, s.offset)
                         /\ c = Slice(r, r.ptr, r.end) /\ e = <<byte>>
  OBVIOUS
<1>15. /\ AheadOf(s) = a \o b /\ AheadOf(r) = c \o b
       /\ IsSlice(a, s, s.ptr, s.end) /\ IsSlice(c, r, r.ptr, r.end) /\ b \in Seq(Byte)
  BY <1>7, <1>9, <1>12, <1>14, BufferedIs
<1>16. PICK n \in Nat : n = s.end - s.ptr /\ n + 1 = s.end - p
  BY <1>1, <1>2, <1>3
<1>17. a \in Seq(Byte) /\ Len(a) = n /\ \A i \in 1 .. n : a[i] = s.buf[(p + 1) + i - 1]
  BY <1>3, <1>15, <1>16 DEF IsSlice
<1>18. c \in Seq(Byte) /\ Len(c) = n + 1 /\ \A i \in 1 .. n + 1 : c[i] = fill[p + i - 1]
  <2>1. r.end - r.ptr = n + 1
    BY <1>7, <1>16
  <2> QED BY <1>7, <1>15, <2>1 DEF IsSlice
<1>19. e \in Seq(Byte) /\ Len(e) = 1 /\ e[1] = byte
  BY <1>14
<1>20. c = e \o a
  <2>1. PICK j : j = e \o a
    OBVIOUS
  <2>2. /\ j \in Seq(Byte) /\ Len(j) = Len(e) + Len(a)
        /\ \A i \in 1 .. Len(e) + Len(a) : j[i] = IF i <= Len(e) THEN e[i] ELSE a[i - Len(e)]
    <3>1. e \in Seq(Byte) /\ a \in Seq(Byte)
      BY <1>17, <1>19
    <3> QED BY <2>1, <3>1, LinkedIs
  <2>3. Len(e) + Len(a) = n + 1 /\ Len(e) = 1
    BY <1>17, <1>19
  <2>4. \A i \in 1 .. n + 1 : j[i] = IF i <= 1 THEN e[i] ELSE a[i - 1]
    BY <2>2, <2>3
  <2>5. ASSUME NEW i \in 1 .. n + 1
        PROVE  c[i] = j[i]
    <3>1. c[i] = fill[p + i - 1]
      BY <1>18
    <3>2. CASE i = 1
      <4>1. p + i - 1 = p
        BY <3>2
      <4> QED BY <1>5, <1>19, <2>4, <3>1, <3>2, <4>1
    <3>3. CASE i # 1
      <4>0. i - 1 \in 1 .. n /\ (p + 1) + (i - 1) - 1 = p + i - 1 /\ ~(i <= 1)
            /\ p + i - 1 \in p + 1 .. p + n
        BY <3>3
      <4>a. s.ptr = p + 1 /\ s.end - 1 = p + n
        <5>1. s.end \in Int /\ n + 1 = s.end - p /\ p \in Int /\ n \in Int
          BY <1>2, <1>3, <1>16
        <5>2. s.end - 1 = p + n
          BY <5>1
        <5>3. s.ptr = p + 1
          BY <1>3
        <5> QED BY <5>2, <5>3
      <4>1. i - 1 \in 1 .. n /\ (p + 1) + (i - 1) - 1 = p + i - 1 /\ ~(i <= 1)
            /\ p + i - 1 \in s.ptr .. s.end - 1
        BY <4>0, <4>a
      <4>2. j[i] = a[i - 1] /\ a[i - 1] = s.buf[p + i - 1]
        BY <4>1, <1>17, <2>4
      <4> QED BY <3>1, <4>1, <4>2, <1>10
    <3> QED BY <3>2, <3>3
  <2>6. Len(j) = n + 1 /\ j \in Seq(Byte)
    BY <2>2, <2>3
  <2> QED BY <1>18, <2>1, <2>5, <2>6, SameBytes
<1>21. (e \o a) \o b = e \o (a \o b)
  <2>1. e \in Seq(Byte)
    BY <1>19
  <2>2. a \in Seq(Byte)
    BY <1>17
  <2>3. b \in Seq(Byte)
    BY <1>15
  <2> QED BY <2>1, <2>2, <2>3, ThreeLinked
<1> QED BY <1>7, <1>9, <1>12, <1>13, <1>14, <1>15, <1>20, <1>21

LEMMA UnreadIs ==
  ASSUME NEW s \in FileHandles, GoodHandle(s), ~s.append, PosOf(s) > 0,
         IsReading(s) => s.ptr > 0, NEW byte \in Byte, NEW r, r = Unread(s, byte)
  PROVE  /\ r \in FileHandles /\ SteadyHandle(r) /\ r.append = s.append
         /\ ContentOf(r) = ContentOf(s) /\ PosOf(r) = PosOf(s) - 1
         /\ AheadOf(r) = <<byte>> \o AheadOf(s)
<1>1. PICK g : g = IF "WRBUF" \in s.flags THEN Flush(s) ELSE s
  OBVIOUS
<1>2. HandleShape(s)
  BY DEF GoodHandle
<1>3. /\ GoodHandle(g) /\ g.append = s.append /\ ContentOf(g) = ContentOf(s)
      /\ PosOf(g) = PosOf(s) /\ AheadOf(g) = AheadOf(s) /\ ~IsWriting(g)
      /\ IsReading(g) => g.ptr > 0
  <2>1. CASE IsWriting(s)
    <3>1. g = Flush(s) /\ ~IsReading(s)
      BY <1>1, <1>2, <2>1, OneOfThree
    <3>2. /\ SteadyHandle(g) /\ ~IsReading(g) /\ IsIdle(g) /\ g.append = s.append
          /\ ContentOf(g) = ContentOf(s) /\ PosOf(g) = PosOf(s)
          /\ AheadOf(g) = AllFrom(ContentOf(s), PosOf(s))
      BY <3>1, FlushIsHandle
    <3>3. AheadOf(g) = AheadOf(s)
      BY <3>1, <3>2, AheadIs
    <3>4. GoodHandle(g) /\ ~IsWriting(g)
      BY <3>2, OneOfThree DEF SteadyHandle, GoodHandle
    <3> QED BY <3>2, <3>3, <3>4
  <2>2. CASE ~IsWriting(s)
    <3>1. g = s
      BY <1>1, <1>2, <2>2, OneOfThree
    <3> QED BY <2>2, <3>1
  <2> QED BY <2>1, <2>2
<1>4. PICK b : b = IF "RDBUF" \in g.flags THEN g
                   ELSE [g EXCEPT !.end = bufsiz, !.ptr = bufsiz, !.flags = {"RDBUF"},
                                  !.posn = @ - bufsiz]
  OBVIOUS
<1>5. HandleShape(g)
  BY <1>3 DEF GoodHandle
<1>6. /\ GoodHandle(b) /\ IsReading(b) /\ b.ptr > 0 /\ b.append = s.append
      /\ ContentOf(b) = ContentOf(s) /\ PosOf(b) = PosOf(s) /\ AheadOf(b) = AheadOf(s)
  <2>1. CASE IsReading(g)
    <3>1. b = g
      BY <1>4, <1>5, <2>1, OneOfThree
    <3> QED BY <1>3, <2>1, <3>1
  <2>2. CASE IsIdle(g)
    <3>1. b = [g EXCEPT !.end = bufsiz, !.ptr = bufsiz, !.flags = {"RDBUF"}, !.posn = @ - bufsiz]
      BY <1>4, <1>5, <2>2, OneOfThree
    <3>2. /\ g.posn = g.offset /\ g.offset \in Nat /\ bufsiz \in Nat /\ bufsiz > 0
          /\ g.file \in Seq(Byte) /\ g.offset \in 0 .. Len(g.file)
      BY <1>3, <1>5, <2>2, FieldsAre DEF GoodHandle
    <3>3. /\ b.file = g.file /\ b.offset = g.offset /\ b.posn = g.posn - bufsiz
          /\ b.ptr = bufsiz /\ b.end = bufsiz /\ b.flags = {"RDBUF"} /\ b.append = g.append
      BY <1>5, <3>1 DEF HandleShape
    <3>4. HandleShape(b)
      <4>1. bufsiz \in 0 .. bufsiz /\ g.posn - bufsiz \in Int
        BY <3>2
      <4> QED BY <1>5, <3>1, <4>1 DEF HandleShape
    <3>5. IsReading(b) /\ ~IsIdle(b) /\ ~IsWriting(b) /\ "WRBUF" \notin b.flags
      BY <3>3, <3>4, OneOfThree DEF IsReading
    <3>6. HasBytes(b, b.ptr, b.end)
      BY <3>2, <3>3 DEF HasBytes
    <3>7. b.ptr <= b.end /\ b.posn + b.ptr >= 0 /\ b.offset = b.posn + b.end /\ b.ptr > 0
          /\ b.posn + b.ptr = g.offset
      BY <3>2, <3>3
    <3>8. GoodHandle(b)
      BY <1>3, <3>3, <3>4, <3>5, <3>6, <3>7 DEF GoodHandle
    <3>9. /\ ContentOf(g) = g.file /\ PosOf(g) = g.offset
          /\ AheadOf(g) = AllFrom(g.file, g.offset)
      BY <1>3, <2>2, IdleIs
    <3>10. ContentOf(b) = ContentOf(g) /\ PosOf(b) = PosOf(g)
      BY <3>3, <3>5, <3>7, <3>9 DEF ContentOf, PosOf
    <3>11. AheadOf(b) = AheadOf(g)
      <4>1. PICK a, c : /\ a = Slice(b, b.ptr, b.end) /\ c = AllFrom(b.file, b.offset)
                        /\ AheadOf(b) = a \o c
        BY <3>5, <3>8, BufferedIs
      <4>2. a \in Seq(Byte) /\ Len(a) = b.end - b.ptr /\ c \in Seq(Byte)
        BY <3>5, <3>8, <4>1, BufferedIs
      <4>3. a = << >>
        <5>1. Len(a) = 0
          BY <3>2, <3>3, <4>2
        <5> QED BY <4>2, <5>1, EmptySeq
      <4>4. AheadOf(b) = c
        BY <4>1, <4>2, <4>3, ConcatEmptySeq
      <4> QED BY <3>3, <3>9, <4>1, <4>4
    <3> QED BY <1>3, <3>3, <3>5, <3>7, <3>8, <3>10, <3>11
  <2> QED BY <1>3, <1>5, <2>1, <2>2, OneOfThree
<1>7. r = [b EXCEPT !.ptr = @ - 1, !.buf[b.ptr - 1] = byte]
  BY <1>1, <1>4 DEF Unread
<1>8. /\ GoodHandle(r) /\ IsReading(r) /\ r.append = b.append
      /\ ContentOf(r) = ContentOf(b) /\ PosOf(r) = PosOf(b) - 1
      /\ AheadOf(r) = <<byte>> \o AheadOf(b)
  BY <1>6, <1>7, PutBackIs
<1>9. HandleShape(r) /\ IsFunction(r) /\ ~IsWriting(r)
  <2>1. HandleShape(r)
    BY <1>8 DEF GoodHandle
  <2>2. IsFunction(r)
    BY <1>7 DEF IsFunction
  <2> QED BY <1>8, <2>1, <2>2, OneOfThree
<1> QED BY <1>6, <1>8, <1>9, IsHandle DEF SteadyHandle

-----------------------------------------------------------------------------
(* Buffered files: each action is the one that the file promises.          *)

FileInv == GoodFile(io)

LEMMA FileInvIs ==
  ASSUME FileInv
  PROVE  /\ io \in FileHandles /\ SteadyHandle(io) /\ GoodHandle(io) /\ HandleShape(io)
         /\ io.append \in BOOLEAN /\ PositionOf(io) = PosOf(io)
         /\ ContentOf(io) \in Seq(Byte) /\ PosOf(io) \in Nat
         /\ PosOf(io) \in 0 .. Len(ContentOf(io)) /\ PosOf(io) <= Len(ContentOf(io))
         /\ Len(ContentOf(io)) <= MaxLen /\ MaxLen \in Nat
         /\ io.append => PosOf(io) = Len(ContentOf(io))
<1>1. io \in FileHandles /\ SteadyHandle(io) /\ GoodHandle(io) /\ HandleShape(io)
      /\ Len(ContentOf(io)) <= MaxLen
  BY DEF FileInv, GoodFile, SteadyHandle, GoodHandle
<1>2. io.append \in BOOLEAN
  BY <1>1, FieldsAre
<1>3. PositionOf(io) = PosOf(io)
  BY <1>1, PositionIs
<1>4. MaxLen \in Nat
  BY PerlIOAssumption
<1> QED BY <1>1, <1>2, <1>3, <1>4, ContentIs

LEMMA AllFromEnd ==
  ASSUME NEW s \in Seq(Byte)
  PROVE  AllFrom(s, Len(s)) = << >>
<1>1. PICK m \in Int, l \in Int : m = l + 1 /\ l = Len(s) /\ l < m
  OBVIOUS
<1>2. SubSeq(s, m, l) = << >>
  BY <1>1, SubSeqEmpty
<1> QED BY <1>1, <1>2 DEF AllFrom

LEMMA FileReadStep ==
  ASSUME FileInv, ~AppendSeeks, NEW n \in 1 .. MaxRead, FileRead(n)
  PROVE  FileInv' /\ AFile!Read(n)
<1>1. PICK s, r : s = io /\ r = io'
  OBVIOUS
<1>2. /\ s \in FileHandles /\ SteadyHandle(s) /\ GoodHandle(s) /\ s.append \in BOOLEAN
      /\ PositionOf(s) = PosOf(s) /\ PosOf(s) \in Nat /\ Len(ContentOf(s)) <= MaxLen
  BY <1>1, FileInvIs
<1>3. ~s.append /\ r = ReadFrom(s, n) /\ n \in Nat
  BY <1>1 DEF FileRead, MayMove
<1>4. IsReadUpTo(r, s, n)
  BY <1>2, <1>3, ReadFromIs
<1>5. /\ r \in FileHandles /\ SteadyHandle(r) /\ ~r.append /\ ContentOf(r) = ContentOf(s)
      /\ GoodHandle(r) /\ HandleShape(r)
  BY <1>4 DEF IsReadUpTo, SteadyHandle, GoodHandle
<1>6. PICK a, k : a = AheadOf(s) /\ k = IF n < Len(a) THEN n ELSE Len(a)
  OBVIOUS
<1>7. a \in Seq(Byte)
  BY <1>2, <1>6, AheadIsBytes
<1>8. PositionOf(r) = PosOf(s) + k /\ AheadOf(r) = AllFrom(a, k)
  <2>1. PositionOf(r) = PosOf(r)
    BY <1>5, PositionIs
  <2>2. CASE n <= Len(a)
    <3>1. k = n
      BY <1>3, <1>6, <1>7, <2>2
    <3>2. PosOf(r) = PosOf(s) + n /\ AheadOf(r) = AllFrom(a, n)
      BY <1>4, <1>6, <2>2 DEF IsReadUpTo
    <3> QED BY <2>1, <3>1, <3>2
  <2>3. CASE n > Len(a)
    <3>1. k = Len(a)
      BY <1>3, <1>6, <1>7, <2>3
    <3>2. PosOf(r) = PosOf(s) + Len(a) /\ AheadOf(r) = << >>
      BY <1>4, <1>6, <2>3 DEF IsReadUpTo
    <3> QED BY <1>7, <2>1, <3>1, <3>2, AllFromEnd
  <2>4. n <= Len(a) \/ n > Len(a)
    BY <1>3, <1>7
  <2> QED BY <2>2, <2>3, <2>4
<1>9. r.append \in BOOLEAN
  BY <1>5, FieldsAre
<1>10. GoodFile(r)
  BY <1>2, <1>5 DEF GoodFile
<1>11. FileInv'
  BY <1>1, <1>10 DEF FileInv
<1>12. r.append = s.append
  BY <1>2, <1>3, <1>5, <1>9
<1>13. AllFrom(a, k) = AFile!From(a, k)
  BY DEF AFile!From, AllFrom
<1> QED BY <1>1, <1>2, <1>5, <1>6, <1>8, <1>11, <1>12, <1>13 DEF AFile!Read

\* A place in the file is not beyond the end of it and of the buffer.
LEMMA RoomIs ==
  ASSUME NEW s, GoodHandle(s)
  PROVE  PosOf(s) <= Len(s.file) + s.ptr
<1>1. HandleShape(s)
  BY DEF GoodHandle
<1>2. /\ s.offset \in Nat /\ s.offset \in 0 .. Len(s.file) /\ s.ptr \in Nat /\ s.end \in Nat
      /\ s.posn \in Int /\ Len(s.file) \in Nat
  BY <1>1, FieldsAre
<1>3. CASE IsReading(s)
  BY <1>2, <1>3 DEF GoodHandle, PosOf
<1>4. CASE ~IsReading(s)
  <2>1. s.posn = s.offset
    BY <1>1, <1>4, OneOfThree DEF GoodHandle
  <2> QED BY <1>2, <2>1 DEF PosOf
<1> QED BY <1>3, <1>4

LEMMA WriteStep ==
  ASSUME FileInv, NEW data \in Data, Write(data)
  PROVE  FileInv' /\ AFile!Write(data)
<1>1. PICK s, r, g : /\ s = io /\ r = io'
                     /\ g = IF "RDBUF" \in io.flags THEN Flush(io) ELSE io
  OBVIOUS
<1>2. /\ s \in FileHandles /\ SteadyHandle(s) /\ GoodHandle(s) /\ HandleShape(s)
      /\ s.append \in BOOLEAN /\ PositionOf(s) = PosOf(s)
      /\ ContentOf(s) \in Seq(Byte) /\ PosOf(s) \in Nat
      /\ PosOf(s) \in 0 .. Len(ContentOf(s))
      /\ Len(ContentOf(s)) <= MaxLen /\ MaxLen \in Nat
      /\ s.append => PosOf(s) = Len(ContentOf(s))
  BY <1>1, FileInvIs
<1>3. data \in Seq(Byte) /\ Len(s.file) + s.ptr + Len(data) <= MaxLen
  BY <1>1, PerlIOAssumption DEF Write
<1>4. /\ g \in FileHandles /\ SteadyHandle(g) /\ ~IsReading(g) /\ g.append = s.append
      /\ ContentOf(g) = ContentOf(s) /\ PosOf(g) = PosOf(s)
  <2>1. CASE IsReading(s)
    <3>1. g = Flush(s)
      BY <1>1, <1>2, <2>1, OneOfThree
    <3> QED BY <1>2, <3>1, FlushIsHandle
  <2>2. CASE ~IsReading(s)
    <3>1. g = s
      BY <1>1, <1>2, <2>2, OneOfThree
    <3> QED BY <1>2, <2>2, <3>1
  <2> QED BY <2>1, <2>2
<1>5. r = WriteTo(g, data)
  BY <1>1 DEF Write
<1>6. IsWrittenUpTo(r, g, data, Len(data))
  BY <1>3, <1>4, <1>5, WriteToIs
<1>7a. PICK p \in Nat : p = PosOf(s)
  BY <1>2
<1>7b. PICK c : c = ContentOf(s)
  OBVIOUS
<1>7. c = ContentOf(s) /\ p = PosOf(s) /\ p \in Nat
  BY <1>7a, <1>7b
<1>8. SubSeq(data, 1, Len(data)) = data
  BY <1>3, SubSeqFull
<1>9. /\ r \in FileHandles /\ SteadyHandle(r) /\ ~IsReading(r) /\ r.append = s.append
      /\ ContentOf(r) = Over(c, p, data) /\ PosOf(r) = p + Len(data)
  BY <1>4, <1>6, <1>7, <1>8 DEF IsWrittenUpTo
<1>10. GoodHandle(r)
  BY <1>9 DEF SteadyHandle
<1>11. PositionOf(r) = p + Len(data) /\ AheadOf(r) = AllFrom(ContentOf(r), p + Len(data))
  BY <1>9, <1>10, PositionIs, AheadIs
<1>12. Len(ContentOf(r)) <= MaxLen
  <2>1. IsOver(ContentOf(r), c, p, data)
    BY <1>2, <1>3, <1>7, <1>9, OverIs
  <2>2. Len(ContentOf(r)) = Longer(Len(c), p + Len(data))
    BY <2>1 DEF IsOver
  <2>3. p <= Len(s.file) + s.ptr
    BY <1>2, <1>7, RoomIs
  <2>4. Len(s.file) \in Nat /\ s.ptr \in Nat /\ Len(data) \in Nat
    BY <1>2, <1>3, FieldsAre
  <2>5. p + Len(data) <= MaxLen
    BY <1>2, <1>3, <2>3, <2>4
  <2>6. Len(c) <= MaxLen
    BY <1>2, <1>7
  <2> QED BY <2>2, <2>5, <2>6 DEF Longer
<1>13. FileInv'
  <2>1. GoodFile(r)
    BY <1>9, <1>12 DEF GoodFile
  <2> QED BY <1>1, <2>1 DEF FileInv
<1>14. (IF s.append THEN Len(c) ELSE PositionOf(s)) = p
  BY <1>2, <1>7
<1>15. Over(c, p, data) = AFile!Over(c, p, data)
  BY DEF Over, AFile!Over
<1>16. AllFrom(ContentOf(r), p + Len(data)) = AFile!From(ContentOf(r), p + Len(data))
  BY DEF AFile!From, AllFrom
<1> QED BY <1>1, <1>7, <1>9, <1>11, <1>13, <1>14, <1>15, <1>16 DEF AFile!Write

LEMMA FileSeekStep ==
  ASSUME FileInv, ~AppendSeeks, NEW p \in 0 .. MaxLen, Seek(p)
  PROVE  FileInv' /\ p \in 0 .. Len(ContentOf(io)) /\ AFile!Seek(p)
<1>1. PICK s, r, g : s = io /\ r = io' /\ g = Flush(io)
  OBVIOUS
<1>2. /\ s \in FileHandles /\ GoodHandle(s) /\ s.append \in BOOLEAN
      /\ ContentOf(s) \in Seq(Byte) /\ Len(ContentOf(s)) <= MaxLen /\ MaxLen \in Nat
  BY <1>1, FileInvIs
<1>3. /\ g \in FileHandles /\ SteadyHandle(g) /\ ~IsReading(g) /\ IsIdle(g) /\ g.append = s.append
      /\ g.file = ContentOf(s)
  BY <1>1, <1>2, FlushIsHandle
<1>4. GoodHandle(g) /\ HandleShape(g) /\ "RDBUF" \notin g.flags
  BY <1>3, OneOfThree DEF SteadyHandle, GoodHandle
<1>5. ~s.append /\ p <= Len(ContentOf(s)) /\ r = [g EXCEPT !.offset = p, !.posn = p]
  <2>1. ~s.append
    BY <1>1 DEF Seek, MayMove
  <2>2. p <= Len(g.file) /\ r = [g EXCEPT !.offset = p, !.posn = p]
    BY <1>1 DEF Seek
  <2> QED BY <1>3, <2>1, <2>2
<1>6. p \in Nat /\ p \in Int
  BY <1>2
<1>7. /\ r.file = g.file /\ r.offset = p /\ r.posn = p /\ r.ptr = g.ptr /\ r.end = g.end
      /\ r.flags = {} /\ r.append = g.append
  BY <1>3, <1>4, <1>5 DEF HandleShape, IsIdle
<1>8. HandleShape(r)
  <2>1. p <= Len(g.file)
    BY <1>3, <1>5
  <2> QED BY <1>4, <1>5, <1>6, <2>1 DEF HandleShape
<1>9. IsIdle(r) /\ ~IsReading(r) /\ ~IsWriting(r)
  BY <1>7, <1>8, OneOfThree DEF IsIdle
<1>10. GoodHandle(r)
  <2>1. g.ptr = 0 /\ g.end = 0
    BY <1>3, <1>4 DEF GoodHandle
  <2> QED BY <1>3, <1>5, <1>7, <1>8, <1>9, <2>1 DEF GoodHandle
<1>11. /\ SteadyHandle(r) /\ ContentOf(r) = r.file /\ PosOf(r) = p
       /\ AheadOf(r) = AllFrom(r.file, p)
  BY <1>7, <1>9, <1>10, IdleIs
<1>12. r \in FileHandles
  <2>1. IsFunction(r)
    BY <1>5 DEF IsFunction
  <2> QED BY <1>8, <2>1, IsHandle
<1>13. ContentOf(r) = ContentOf(s) /\ PositionOf(r) = p /\ r.append = s.append
       /\ AheadOf(r) = AFile!From(ContentOf(s), p)
  <2>1. PositionOf(r) = p
    BY <1>10, <1>11, PositionIs
  <2>2. AllFrom(ContentOf(s), p) = AFile!From(ContentOf(s), p)
    BY DEF AFile!From, AllFrom
  <2> QED BY <1>3, <1>7, <1>11, <2>1, <2>2
<1>14. FileInv'
  <2>1. GoodFile(r)
    BY <1>2, <1>11, <1>12, <1>13 DEF GoodFile
  <2> QED BY <1>1, <2>1 DEF FileInv
<1>15. p \in 0 .. Len(ContentOf(s))
  BY <1>2, <1>5, <1>6
<1> QED BY <1>1, <1>13, <1>14, <1>15 DEF AFile!Seek

LEMMA UngetcStep ==
  ASSUME FileInv, ~AppendSeeks, ~UngetcAtStart, NEW byte \in Byte, Ungetc(byte)
  PROVE  FileInv' /\ AFile!Ungetc(byte)
<1>1. PICK s, r : s = io /\ r = io'
  OBVIOUS
<1>2. /\ s \in FileHandles /\ GoodHandle(s) /\ HandleShape(s) /\ PositionOf(s) = PosOf(s)
      /\ Len(ContentOf(s)) <= MaxLen
  BY <1>1, FileInvIs
<1>3. ~s.append /\ r = Unread(s, byte) /\ s.posn + s.ptr > 0 /\ ("RDBUF" \in s.flags => s.ptr > 0)
  BY <1>1 DEF Ungetc, MayMove
<1>4. PosOf(s) > 0 /\ (IsReading(s) => s.ptr > 0)
  BY <1>2, <1>3, OneOfThree DEF PosOf
<1>5. /\ r \in FileHandles /\ SteadyHandle(r) /\ r.append = s.append
      /\ ContentOf(r) = ContentOf(s) /\ PosOf(r) = PosOf(s) - 1
      /\ AheadOf(r) = <<byte>> \o AheadOf(s)
  BY <1>2, <1>3, <1>4, UnreadIs
<1>6. PositionOf(r) = PosOf(r)
  BY <1>5, PositionIs DEF SteadyHandle
<1>7. FileInv'
  <2>1. GoodFile(r)
    BY <1>2, <1>5 DEF GoodFile
  <2> QED BY <1>1, <2>1 DEF FileInv
<1> QED BY <1>1, <1>2, <1>5, <1>6, <1>7 DEF AFile!Ungetc

LEMMA FlushStep ==
  ASSUME FileInv, NEW g, g = Flush(io), io' = g
  PROVE  FileInv' /\ PositionOf(io) \in 0 .. Len(ContentOf(io)) /\ AFile!Seek(PositionOf(io))
<1>1. PICK s, r : s = io /\ r = io'
  OBVIOUS
<1>2. /\ s \in FileHandles /\ GoodHandle(s) /\ PositionOf(s) = PosOf(s)
      /\ PosOf(s) \in 0 .. Len(ContentOf(s)) /\ Len(ContentOf(s)) <= MaxLen
  BY <1>1, FileInvIs
<1>3. r = Flush(s)
  BY <1>1
<1>4. /\ r \in FileHandles /\ SteadyHandle(r) /\ r.append = s.append
      /\ ContentOf(r) = ContentOf(s) /\ PosOf(r) = PosOf(s)
      /\ AheadOf(r) = AllFrom(ContentOf(s), PosOf(s))
  BY <1>2, <1>3, FlushIsHandle
<1>5. PositionOf(r) = PosOf(r)
  BY <1>4, PositionIs DEF SteadyHandle
<1>6. FileInv'
  <2>1. GoodFile(r)
    BY <1>2, <1>4 DEF GoodFile
  <2> QED BY <1>1, <2>1 DEF FileInv
<1>7. AllFrom(ContentOf(s), PosOf(s)) = AFile!From(ContentOf(s), PosOf(s))
  BY DEF AFile!From, AllFrom
<1> QED BY <1>1, <1>2, <1>4, <1>5, <1>6, <1>7 DEF AFile!Seek

LEMMA TellStep ==
  ASSUME FileInv, Tell
  PROVE  /\ FileInv'
         /\ UNCHANGED AFile!file_vars \/ AFile!Seek(PositionOf(io))
<1>1. PICK s : s = io
  OBVIOUS
<1>2. s \in FileHandles /\ SteadyHandle(s) /\ GoodHandle(s) /\ HandleShape(s)
  BY <1>1, FileInvIs
<1>3. CASE s.append /\ "WRBUF" \in s.flags
  <2>1. PICK g : g = Flush(s)
    OBVIOUS
  <2>2. SteadyHandle(g) /\ IsIdle(g) /\ g \in FileHandles
    BY <1>2, <2>1, FlushIsHandle
  <2>3. HandleShape(g) /\ g.posn = g.offset
    BY <2>2 DEF SteadyHandle, GoodHandle
  <2>4. io' = [g EXCEPT !.posn = g.offset]
    BY <1>1, <1>3, <2>1 DEF Tell, AfterTell
  <2>5. io' = g
    BY <2>2, <2>3, <2>4 DEF FileHandles
  <2> QED BY <1>1, <2>1, <2>5, FlushStep
<1>4. CASE ~(s.append /\ "WRBUF" \in s.flags)
  <2>1. io' = io
    BY <1>1, <1>4 DEF Tell, AfterTell
  <2> QED BY <2>1 DEF FileInv, AFile!file_vars
<1> QED BY <1>3, <1>4

LEMMA ReopenStep ==
  ASSUME FileInv, Reopen
  PROVE  FileInv' /\ AFile!Reopen
<1>1. PICK s, r, g : s = io /\ r = io' /\ g = Flush(io)
  OBVIOUS
<1>2. PICK append \in BOOLEAN : r = Opened(g.file, append)
  BY <1>1 DEF Reopen
<1>3. /\ s \in FileHandles /\ GoodHandle(s) /\ ContentOf(s) \in Seq(Byte)
      /\ Len(ContentOf(s)) <= MaxLen
  BY <1>1, FileInvIs
<1>4. g.file = ContentOf(s)
  BY <1>1, <1>3, FlushIsHandle
<1>5a. PICK c \in Seq(Byte) : c = ContentOf(s)
  BY <1>3
<1>5b. PICK start : start = IF append THEN Len(c) ELSE 0
  OBVIOUS
<1>5. c \in Seq(Byte) /\ c = ContentOf(s) /\ start = IF append THEN Len(c) ELSE 0
  BY <1>5a, <1>5b
<1>6. /\ r \in FileHandles /\ SteadyHandle(r) /\ r.append = append /\ ContentOf(r) = c
      /\ PosOf(r) = start /\ AheadOf(r) = AllFrom(c, start)
  BY <1>2, <1>4, <1>5, OpenedIs
<1>7. PositionOf(r) = start
  BY <1>6, PositionIs DEF SteadyHandle
<1>8. FileInv'
  <2>1. GoodFile(r)
    BY <1>3, <1>5, <1>6 DEF GoodFile
  <2> QED BY <1>1, <2>1 DEF FileInv
<1>9. AllFrom(c, start) = AFile!From(c, start)
  BY DEF AFile!From, AllFrom
<1> QED BY <1>1, <1>5, <1>6, <1>7, <1>8, <1>9 DEF AFile!Reopen

LEMMA InitFile ==
  FileInit => /\ FileInv
              /\ ContentOf(io) = << >> /\ PositionOf(io) = 0 /\ AheadOf(io) = << >>
              /\ io.append \in BOOLEAN
<1> SUFFICES ASSUME FileInit
             PROVE  /\ FileInv
                    /\ ContentOf(io) = << >> /\ PositionOf(io) = 0 /\ AheadOf(io) = << >>
                    /\ io.append \in BOOLEAN
  OBVIOUS
<1>1a. PICK append \in BOOLEAN : io = Opened(<< >>, append)
  BY DEF FileInit
<1>1b. PICK e : e = << >>
  OBVIOUS
<1>1. append \in BOOLEAN /\ e = << >> /\ io = Opened(e, append)
  BY <1>1a, <1>1b
<1>2. e \in Seq(Byte) /\ Len(e) = 0
  BY <1>1, EmptySeq
<1>3. /\ io \in FileHandles /\ SteadyHandle(io) /\ io.append = append /\ ContentOf(io) = e
      /\ PosOf(io) = (IF append THEN Len(e) ELSE 0)
      /\ AheadOf(io) = AllFrom(e, IF append THEN Len(e) ELSE 0)
  BY <1>1, <1>2, OpenedIs
<1>4. PosOf(io) = 0 /\ AheadOf(io) = AllFrom(e, Len(e))
  BY <1>2, <1>3
<1>5. AheadOf(io) = << >>
  BY <1>2, <1>4, AllFromEnd
<1>6. PositionOf(io) = 0
  BY <1>3, <1>4, PositionIs DEF SteadyHandle
<1>7. FileInv
  BY <1>2, <1>3, PerlIOAssumption DEF FileInv, GoodFile
<1> QED BY <1>1, <1>3, <1>5, <1>6, <1>7

LEMMA NextFile ==
  ASSUME ~AppendSeeks, ~UngetcAtStart, FileInv, [FileNext]_io
  PROVE  FileInv' /\ [AFile!Next]_AFile!file_vars
<1>1. CASE UNCHANGED io
  BY <1>1 DEF FileInv, AFile!file_vars
<1>2. CASE FileNext
  <2>1. FileInv' /\ (AFile!Operation \/ UNCHANGED AFile!file_vars)
    <3>1. ASSUME NEW n \in 1 .. MaxRead, FileRead(n)
          PROVE  FileInv' /\ AFile!Operation
      BY <3>1, FileReadStep DEF AFile!Operation
    <3>2. ASSUME NEW data \in Data, Write(data)
          PROVE  FileInv' /\ AFile!Operation
      BY <3>2, WriteStep DEF AFile!Operation
    <3>3. ASSUME NEW p \in 0 .. MaxLen, Seek(p)
          PROVE  FileInv' /\ AFile!Operation
      BY <3>3, FileSeekStep DEF AFile!Operation
    <3>4. ASSUME NEW byte \in Byte, Ungetc(byte)
          PROVE  FileInv' /\ AFile!Operation
      BY <3>4, UngetcStep DEF AFile!Operation
    <3>5. ASSUME FlushHandle
          PROVE  FileInv' /\ AFile!Operation
      <4>1. io' = Flush(io)
        BY <3>5 DEF FlushHandle
      <4> QED BY <4>1, FlushStep DEF AFile!Operation
    <3>6. ASSUME Tell
          PROVE  FileInv' /\ (AFile!Operation \/ UNCHANGED AFile!file_vars)
      <4>1. PositionOf(io) \in 0 .. Len(ContentOf(io))
        BY FileInvIs
      <4> QED BY <3>6, <4>1, TellStep DEF AFile!Operation
    <3>7. ASSUME Reopen
          PROVE  FileInv' /\ AFile!Operation
      BY <3>7, ReopenStep DEF AFile!Operation
    <3> QED BY <1>2, <3>1, <3>2, <3>3, <3>4, <3>5, <3>6, <3>7 DEF FileNext
  <2> QED BY <2>1 DEF AFile!Next
<1> QED BY <1>1, <1>2

LEMMA FileIsInvariant == ~AppendSeeks /\ ~UngetcAtStart => (FileSpec => []FileInv)
<1> SUFFICES ASSUME ~AppendSeeks, ~UngetcAtStart PROVE FileSpec => []FileInv
  OBVIOUS
<1>1. FileInit => FileInv
  BY InitFile
<1>2. FileInv /\ [FileNext]_io => FileInv'
  BY NextFile
<1> QED BY <1>1, <1>2, PTL DEF FileSpec

\* perlio.c: the buffer of a handle keeps its types, for a buffer of any size,
\* and the kernel is where the buffer ends, if handles that append are not
\* moved and ungetc() is not called at the start of the file.
THEOREM FilesAreSound ==
  ~AppendSeeks /\ ~UngetcAtStart => (FileSpec => [](FileTypeOK /\ OffsetIsBufferEnd))
<1>1. ASSUME FileInv
      PROVE  FileTypeOK /\ OffsetIsBufferEnd
  <2>1. SteadyHandle(io) /\ GoodHandle(io) /\ HandleShape(io) /\ Len(ContentOf(io)) <= MaxLen
        /\ MaxLen \in Nat
    BY <1>1, FileInvIs
  <2>2. /\ io.file \in Seq(Byte) /\ io.offset \in Nat /\ io.offset \in 0 .. Len(io.file)
        /\ io.buf \in [0 .. bufsiz - 1 -> Byte \cup {UNINIT}]
        /\ io.ptr \in Nat /\ io.ptr <= bufsiz /\ io.end \in Nat /\ io.end <= bufsiz
        /\ io.posn \in Int /\ io.append \in BOOLEAN /\ Len(io.file) \in Nat
        /\ bufsiz \in Nat /\ bufsiz > 0
    BY <2>1, FieldsAre
  <2>3. Len(io.file) <= Len(ContentOf(io))
    <3>1. CASE IsWriting(io)
      <4>1. Len(ContentOf(io)) = Longer(Len(io.file), io.offset + io.ptr)
        BY <2>1, <3>1, WrittenIs
      <4> QED BY <2>2, <4>1 DEF Longer
    <3>2. CASE ~IsWriting(io)
      <4>1. ContentOf(io) = io.file
        BY <2>1, <3>2, OneOfThree DEF ContentOf
      <4> QED BY <2>2, <4>1
    <3> QED BY <3>1, <3>2
  <2>4. Len(ContentOf(io)) \in Nat
    BY <1>1, FileInvIs
  <2>5. Len(io.file) <= MaxLen /\ io.offset \in 0 .. MaxLen
    BY <2>1, <2>2, <2>3, <2>4
  <2>6. {io.ptr, io.end} \subseteq 0 .. bufsiz
    BY <2>2
  <2>7. "RDBUF" \in io.flags => io.ptr <= io.end
    BY <2>1, OneOfThree DEF GoodHandle
  <2>8. io.flags \in {{}, {"RDBUF"}, {"WRBUF"}}
    BY <2>1 DEF HandleShape
  <2>9. io.offset = io.posn + (IF "RDBUF" \in io.flags THEN io.end ELSE 0)
    <3>1. CASE IsReading(io)
      <4>1. io.offset = io.posn + io.end /\ "RDBUF" \in io.flags
        BY <2>1, <3>1, OneOfThree DEF GoodHandle
      <4> QED BY <4>1
    <3>2. CASE ~IsReading(io)
      <4>1. io.posn = io.offset /\ "RDBUF" \notin io.flags
        BY <2>1, <3>2, OneOfThree DEF GoodHandle
      <4> QED BY <2>2, <4>1
    <3> QED BY <3>1, <3>2
  <2> QED BY <2>2, <2>5, <2>6, <2>7, <2>8, <2>9 DEF FileTypeOK, OffsetIsBufferEnd
<1> QED BY FileIsInvariant, <1>1, PTL

\* Under the same conditions, whatever is buffered, reads, writes, seeks and
\* ungetc() in any order are those of a file with one position: no byte is
\* lost, repeated or written to another place.
THEOREM FileIsAFile == ~AppendSeeks /\ ~UngetcAtStart => (FileSpec => IsAFile)
<1> SUFFICES ASSUME ~AppendSeeks, ~UngetcAtStart PROVE FileSpec => IsAFile
  OBVIOUS
<1>1. FileInit => /\ ContentOf(io) = << >> /\ PositionOf(io) = 0 /\ AheadOf(io) = << >>
                  /\ io.append \in BOOLEAN
  BY InitFile
<1>2. FileInv /\ [FileNext]_io => [AFile!Next]_AFile!file_vars
  BY NextFile
<1>3. FileSpec => []FileInv
  BY FileIsInvariant
<1> QED BY <1>1, <1>2, <1>3, PTL DEF FileSpec, IsAFile, AFile!Spec

=============================================================================
