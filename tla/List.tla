--------------------------------- MODULE List ---------------------------------
(***************************************************************************)
(* The pointer list of the library (list.c): an array that grows by a      *)
(* fixed increment and a count of the slots in use.  Slots beyond the      *)
(* count keep what was last written to them.  Positions count from 1.      *)
(*                                                                         *)
(* The operators give the list after a call; what a call frees or hands    *)
(* out is given by operators of their own, so that the owner of the        *)
(* objects can account for them.                                           *)
(***************************************************************************)
EXTENDS Integers, Sequences, FiniteSets

CONSTANTS
  Increment,   \* KSI_LIST_SIZE_INCREMENT
  Null         \* the NULL pointer

ASSUME IncrementAssumption == Increment \in Nat \ {0, 1}

NewList == [arr |-> << >>, len |-> 0]

Length(l) == l.len
Elements(l) == SubSeq(l.arr, 1, l.len)

\* The array, grown by one increment when `grow` holds; NULL in the slots not used.
Grown(l, grow) ==
  IF ~grow THEN l.arr
  ELSE SubSeq(l.arr, 1, l.len) \o [i \in 1..(Len(l.arr) + Increment - l.len) |-> Null]
\* Variant: an element the array was grown for is not counted.
AppendUncounted(l, o) ==
  LET grow == l.len + 1 >= Len(l.arr)
  IN [arr |-> [Grown(l, grow) EXCEPT ![l.len + 1] = o], len |-> IF grow /\ l.len > 0 THEN l.len ELSE l.len + 1]
\* A slot is always left over: the array grows when the append would fill it.
AppendElement(l, o) ==
  [arr |-> [Grown(l, l.len + 1 >= Len(l.arr)) EXCEPT ![l.len + 1] = o], len |-> l.len + 1]

\* The position of the first slot that holds o, or Null.
IndexOf(l, o) ==
  IF \E i \in 1..l.len : l.arr[i] = o
    THEN CHOOSE i \in 1..l.len : l.arr[i] = o /\ \A j \in 1..(i - 1) : l.arr[j] # o
    ELSE Null

\* The position one behind the last element is not refused.
ReplaceAllowed(l, pos) == pos <= l.len + 1
Replaced(l, pos) == l.arr[pos]
ReplaceElementAt(l, pos, o) == [l EXCEPT !.arr[pos] = o]

InsertAllowed(l, pos) == pos <= l.len + 1
\* The loop that shifts the tail runs upwards, so every slot above pos takes what has
\* just been written below it: the element that was at pos.
InsertElementAt(l, pos, o) ==
  LET long == AppendElement(l, Null)
  IN [long EXCEPT !.arr = SubSeq(@, 1, pos - 1) \o <<o>> \o [i \in 1..(long.len - pos) |-> @[pos]]
                            \o SubSeq(@, long.len + 1, Len(@))]

ElementAllowed(l, pos) == pos <= l.len
ElementAt(l, pos) == l.arr[pos]

\* Variant: the tail is not shifted.
RemoveLast(l, pos) == [l EXCEPT !.len = @ - 1]
RemoveAllowed(l, pos) == pos <= l.len
\* The last slot keeps its element as well.
RemoveElement(l, pos) ==
  [arr |-> SubSeq(l.arr, 1, pos - 1) \o SubSeq(l.arr, pos + 1, l.len) \o SubSeq(l.arr, l.len, Len(l.arr)),
   len |-> l.len - 1]

\* qsort by a key of the elements, for the total preorder of the caller: some order in
\* which nothing is before a smaller one.
Sorted(l, key) ==
  {[l EXCEPT !.arr = [i \in 1..l.len |-> l.arr[p[i]]] \o SubSeq(l.arr, l.len + 1, Len(l.arr))] :
     p \in {q \in [1..l.len -> 1..l.len] :
              /\ \A i, j \in 1..l.len : q[i] = q[j] => i = j
              /\ \A i \in 1..(l.len - 1) : key[l.arr[q[i]]] <= key[l.arr[q[i + 1]]]}}
=============================================================================
