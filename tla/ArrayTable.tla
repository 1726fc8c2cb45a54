------------------------------ MODULE ArrayTable ------------------------------
(***************************************************************************)
(* A perl array, av.c and pp_splice(): one block of slots (AvALLOC), in    *)
(* which the array starts off slots in (AvARRAY), so that shift() and      *)
(* unshift() need not move elements, and may have spare slots after its    *)
(* last element (AvFILLp < AvMAX).  A slot that holds no element has to be *)
(* NULL (NoElem): growing $#a is no more than raising AvFILLp.             *)
(*                                                                         *)
(* Arrays are AvREAL; tied and read-only ones, and what the destructor of  *)
(* an element could do to the array, are left out.                         *)
(***************************************************************************)
EXTENDS Integers, Sequences, FiniteSetsExt

CONSTANTS
  Elem,       \* the elements
  NoElem,     \* an empty slot
  JUNK,       \* what a slot of fresh memory holds
  NewMin,     \* PERL_ARRAY_NEW_MIN_KEY
  Near,       \* av_extend_guts(): a moved array this near its end is resized
  MaxIndex,   \* bound: the highest index the operations are given
  MaxSlots,   \* bound: slots of the block
  Lists,      \* bound: the lists that unshift() and splice() insert
  Slack       \* arrays with spare slots at both ends are made larger

ASSUME ArrayAssumption ==
  /\ NoElem \notin Elem /\ JUNK \notin Elem /\ NoElem # JUNK
  /\ NewMin \in Nat /\ Near \in Nat /\ MaxIndex \in Nat /\ MaxSlots \in Nat
  /\ Lists \subseteq Seq(Elem)
  /\ Slack \in BOOLEAN

VARIABLE
  av       \* slot: the block; off: AvARRAY - AvALLOC; AvMAX; AvFILLp

NoBlock == [slot |-> <<>>, off |-> 0, AvMAX |-> -1, AvFILLp |-> -1]

ArrayTypeOK ==
  /\ av.off \in Nat
  /\ av.AvMAX \in -1 .. MaxSlots
  /\ av.AvFILLp \in -1 .. av.AvMAX
  /\ av.slot = <<>> \/ av.slot \in [0 .. av.off + av.AvMAX -> Elem \cup {NoElem, JUNK}]

ArrayInit == av = NoBlock

\* AvARRAY(av)[i]
At(a, i) == a.slot[a.off + i]

\* The block with the values that Value gives to the elements i in S.
Put(a, S, Value(_)) ==
  [a EXCEPT !.slot = [j \in DOMAIN a.slot |->
                        IF j - a.off \in S THEN Value(j - a.off) ELSE a.slot[j]]]

PutOne(a, i, v) == Put(a, {i}, LAMBDA j : v)
PutNull(a, S) == Put(a, S, LAMBDA j : NoElem)

-----------------------------------------------------------------------------
(* av_extend_guts(): the array gets room for an element at key.            *)

\* Mutant: the slots that the elements moved out of are left as they are.
AfterMoveLeavesOld(a, key) ==
  LET max == a.AvMAX + a.off
      newmax == IF key > max - Near THEN key + max ELSE max
  IN  [slot |-> [j \in 0 .. newmax |->
                   CASE j <= a.AvFILLp -> At(a, j)
                     [] j > a.AvFILLp /\ j > max -> NoElem
                     [] OTHER -> a.slot[j]],
       off |-> 0, AvMAX |-> newmax, AvFILLp |-> a.AvFILLp]

\* A shifted array is moved to the start of its block, which grows if that
\* does not make enough room; as many slots as were won are set to NoElem,
\* from the last element on.
AfterMove(a, key) ==
  LET max == a.AvMAX + a.off
      newmax == IF key > max - Near THEN key + max ELSE max
      to_null == newmax - a.AvMAX
  IN  [slot |-> [j \in 0 .. newmax |->
                   CASE j <= a.AvFILLp -> At(a, j)
                     [] j > a.AvFILLp /\ j <= a.AvFILLp + to_null -> NoElem
                     [] OTHER -> IF j <= max THEN a.slot[j] ELSE JUNK],
       off |-> 0, AvMAX |-> newmax, AvFILLp |-> a.AvFILLp]

AfterGrow(a, key) ==
  LET newmax == key + a.AvMAX \div 5
  IN  [a EXCEPT !.slot = [j \in 0 .. newmax |-> IF j <= a.AvMAX THEN a.slot[j] ELSE NoElem],
                !.AvMAX = newmax]

NewBlock(key) ==
  LET max == IF key < NewMin THEN NewMin ELSE key
  IN  [slot |-> [j \in 0 .. max |-> NoElem], off |-> 0, AvMAX |-> max, AvFILLp |-> -1]

av_extend(a, key) ==
  CASE key <= a.AvMAX                -> a
    [] key > a.AvMAX /\ a.off > 0    -> AfterMove(a, key)
    [] key > a.AvMAX /\ a.slot = <<>> -> NewBlock(key)
    [] OTHER                         -> AfterGrow(a, key)

\* Growing a has spare slots at both ends to deal with.
HasSlack(a, key) == key > a.AvMAX /\ a.off > 0 /\ a.AvFILLp < a.AvMAX

-----------------------------------------------------------------------------
(* The operations: their effect on an array.                               *)

av_store(a, key, v) ==
  IF key <= a.AvFILLp
    THEN PutOne(a, key, v)
    ELSE PutOne([av_extend(a, key) EXCEPT !.AvFILLp = key], key, v)

av_fill(a, fill) ==
  IF fill <= a.AvMAX
    THEN [PutNull(a, fill + 1 .. a.AvFILLp) EXCEPT !.AvFILLp = fill]
    ELSE av_store(a, fill, NoElem)

av_pop(a) == [PutNull(a, {a.AvFILLp}) EXCEPT !.AvFILLp = @ - 1]

\* Mutant: the slot keeps the element that has been handed out.
av_shiftKeeps(a) ==
  [a EXCEPT !.off = @ + 1, !.AvMAX = @ - 1, !.AvFILLp = @ - 1]

av_shift(a) ==
  [PutNull(a, {0}) EXCEPT !.off = @ + 1, !.AvMAX = @ - 1, !.AvFILLp = @ - 1]

\* Room for n elements at the start: the slots before the array first, then
\* elements are moved up, as many again to have a buffer for the next time.
av_unshift(a, n) ==
  LET i == Min({n, a.off})
      b == [a EXCEPT !.off = @ - i, !.AvMAX = @ + i, !.AvFILLp = @ + i]
      fill == b.AvFILLp
      slide == Max({fill, 0})
      num == n - i + slide
      c == av_extend(b, fill + num)
      d == Put([c EXCEPT !.AvFILLp = @ + num], 0 .. fill + num,
               LAMBDA j : IF j < num THEN NoElem ELSE At(c, j - num))
  IN  IF n = i THEN b
      ELSE [d EXCEPT !.AvMAX = @ - slide, !.AvFILLp = @ - slide, !.off = @ + slide]

\* unshift @a, LIST: room is made, then the elements are stored.
pp_unshift(a, new) ==
  Put(av_unshift(a, Len(new)), 0 .. Len(new) - 1, LAMBDA j : new[j + 1])

\* The last element takes those before it that do not exist with it.
av_delete(a, key) ==
  LET b == PutNull(a, {key})
  IN  IF key < a.AvFILLp THEN b
      ELSE [b EXCEPT !.AvFILLp = Max({-1} \cup {j \in 0 .. key - 1 : At(a, j) # NoElem})]

\* Mutant: the slots before the array are forgotten.
av_clearLosesSlots(a) ==
  [PutNull(a, 0 .. a.AvFILLp) EXCEPT !.off = 0, !.AvFILLp = -1]

av_clear(a) ==
  [PutNull(a, 0 .. a.AvFILLp) EXCEPT !.off = 0, !.AvMAX = @ + a.off, !.AvFILLp = -1]

-----------------------------------------------------------------------------
(* pp_splice(): length elements from offset on are replaced by new.        *)

\* Fewer elements than before: the shorter part is pulled over the hole.
Shrink(a, offset, length, new) ==
  LET gone == length - Len(new)
      after == a.AvFILLp + 1 - (offset + length)
      b == [a EXCEPT !.AvFILLp = @ - gone]
      up == [PutNull(Put(b, gone .. gone + offset - 1, LAMBDA j : At(a, j - gone)),
                     0 .. gone - 1)
               EXCEPT !.off = @ + gone, !.AvMAX = @ - gone]
      down == PutNull(Put(b, offset + Len(new) .. offset + Len(new) + after - 1,
                          LAMBDA j : At(a, j + gone)),
                      b.AvFILLp + 1 .. b.AvFILLp + gone)
  IN  Put(IF offset < after THEN up ELSE down,
          offset .. offset + Len(new) - 1, LAMBDA j : new[j - offset + 1])

\* More, or as many: the shorter part is pushed away, down if the slots
\* before the array are enough.
Expand(a, offset, length, new) ==
  LET diff == Len(new) - length
      after == a.AvFILLp + 1 - (offset + length)
      low == [a EXCEPT !.off = @ - diff, !.AvMAX = @ + diff, !.AvFILLp = @ + diff]
      down == Put(low, 0 .. offset - 1, LAMBDA j : At(a, j))
      b == IF a.AvFILLp + diff >= a.AvMAX THEN av_extend(a, a.AvFILLp + diff) ELSE a
      up == Put([b EXCEPT !.AvFILLp = @ + diff],
                offset + Len(new) .. offset + Len(new) + after - 1,
                LAMBDA j : At(b, j - diff))
  IN  Put(CASE diff = 0 -> a
            [] diff > 0 /\ offset < after /\ diff <= a.off -> down
            [] OTHER -> up,
          offset .. offset + Len(new) - 1, LAMBDA j : new[j - offset + 1])

\* A length that goes beyond the array is cut off.
pp_splice(a, offset, len, new) ==
  LET length == Min({len, a.AvFILLp + 1 - offset})
      b == IF a.slot = <<>> /\ len > length THEN av_extend(a, 0) ELSE a
  IN  IF length > Len(new) THEN Shrink(b, offset, length, new)
                           ELSE Expand(b, offset, length, new)

-----------------------------------------------------------------------------
(* The actions.                                                            *)

\* The operation makes an array within the bounds.
Becomes(a) ==
  /\ a.off + a.AvMAX < MaxSlots
  /\ av' = a

\* The operation may need room for an element at key.
MayGrow(key) == Slack \/ ~HasSlack(av, key)

Store(k, v) == MayGrow(k) /\ Becomes(av_store(av, k, v))

\* push @a, v
Push(v) == Store(av.AvFILLp + 1, v)

Pop == av.AvFILLp >= 0 /\ Becomes(av_pop(av))

Shift == av.AvFILLp >= 0 /\ Becomes(av_shift(av))

Unshift(new) == Becomes(pp_unshift(av, new))

Fill(fill) == MayGrow(fill) /\ Becomes(av_fill(av, fill))

DeleteElem(k) ==
  /\ k <= av.AvFILLp
  /\ Becomes(av_delete(av, k))

Splice(offset, len, new) ==
  /\ offset <= av.AvFILLp + 1
  /\ LET length == Min({len, av.AvFILLp + 1 - offset})
     IN  /\ MayGrow(av.AvFILLp + Len(new) - length)
         /\ Becomes(pp_splice(av, offset, len, new))

Clear == Becomes(av_clear(av))

\* undef @a
Undef == Becomes(NoBlock)

ArrayNext ==
  \/ \E k \in 0 .. MaxIndex, v \in Elem : Store(k, v)
  \/ \E v \in Elem : Push(v)
  \/ Pop \/ Shift
  \/ \E new \in Lists : Unshift(new)
  \/ \E fill \in -1 .. MaxIndex : Fill(fill)
  \/ \E k \in 0 .. MaxIndex : DeleteElem(k)
  \/ \E offset, len \in 0 .. MaxIndex, new \in Lists : Splice(offset, len, new)
  \/ Clear \/ Undef

ArraySpec == ArrayInit /\ [][ArrayNext]_av

-----------------------------------------------------------------------------
(* Properties.                                                             *)

\* "uninitialized array elements are set to NULL" (av.c, av_exists): a slot
\* before the first or after the last element holds nothing, neither fresh
\* memory nor an element that has left the array.
SpareSlotsAreNull ==
  \A j \in DOMAIN av.slot :
    j < av.off \/ j > av.off + av.AvFILLp => av.slot[j] = NoElem

\* Whatever is moved within the block, or to a larger one, the operations do
\* to the elements what they promise; and those but splice(), which can pass
\* for any other, each do what their own name says.
Abstract == INSTANCE PerlList WITH
  list <- [i \in 1 .. av.AvFILLp + 1 |-> At(av, i - 1)]

EachDoesItsOwn ==
  /\ \A k \in 0 .. MaxIndex, v \in Elem : Store(k, v) => Abstract!Store(k, v)
  /\ \A v \in Elem : Push(v) => Abstract!Push(v)
  /\ Pop => Abstract!Pop
  /\ Shift => Abstract!Shift
  /\ \A new \in Lists : Unshift(new) => Abstract!Unshift(new)
  /\ \A fill \in -1 .. MaxIndex : Fill(fill) => Abstract!SetLength(fill + 1)
  /\ \A k \in 0 .. MaxIndex : DeleteElem(k) => Abstract!Delete(k)
  /\ Clear \/ Undef => Abstract!SetLength(0)

IsAList == Abstract!Spec /\ [][EachDoesItsOwn]_av

=============================================================================
