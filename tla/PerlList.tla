------------------------------- MODULE PerlList -------------------------------
(* What a perl array promises (perlfunc: push, pop, shift, unshift, splice,  *)
(* delete, and $#a): a list of elements, NoElem for one that does not exist.   *)
EXTENDS Integers, Sequences, FiniteSetsExt

CONSTANTS
  Elem,       \* the elements
  NoElem,       \* no element
  MaxIndex,   \* bound: the highest index the operations are given
  Lists       \* bound: the lists that unshift() and splice() insert

VARIABLE list

Nulls(n) == [i \in 1 .. n |-> NoElem]
UpTo(n) == SubSeq(list, 1, n)
After(n) == SubSeq(list, n + 1, Len(list))

Store(k, v) ==
  /\ list' = IF k < Len(list) THEN [list EXCEPT ![k + 1] = v]
                              ELSE list \o Nulls(k - Len(list)) \o <<v>>

Push(v) == Store(Len(list), v)

Pop ==
  /\ list # <<>>
  /\ list' = UpTo(Len(list) - 1)

Shift ==
  /\ list # <<>>
  /\ list' = After(1)

Unshift(new) ==
  /\ list' = new \o list

\* $#a = n - 1
SetLength(n) ==
  /\ list' = IF n < Len(list) THEN UpTo(n) ELSE list \o Nulls(n - Len(list))

\* Deleting the last element shortens the list to the last one that exists.
Delete(k) ==
  /\ k < Len(list)
  /\ list' = IF k < Len(list) - 1
               THEN [list EXCEPT ![k + 1] = NoElem]
               ELSE UpTo(Max({0} \cup {i \in 1 .. k : list[i] # NoElem}))

Splice(offset, length, new) ==
  /\ offset <= Len(list)
  /\ LET n == Min({length, Len(list) - offset})
     IN  list' = UpTo(offset) \o new \o After(offset + n)

Operation ==
  \/ \E k \in 0 .. MaxIndex, v \in Elem : Store(k, v)
  \/ \E v \in Elem : Push(v)
  \/ Pop \/ Shift
  \/ \E new \in Lists : Unshift(new)
  \/ \E n \in 0 .. MaxIndex + 1 : SetLength(n)
  \/ \E k \in 0 .. MaxIndex : Delete(k)
  \/ \E offset, length \in 0 .. MaxIndex, new \in Lists : Splice(offset, length, new)

Next == list' # list /\ Operation

Spec == list = <<>> /\ [][Next]_list

=============================================================================
