------------------------------- MODULE Selection -------------------------------
(***************************************************************************)
(* The elements of a sequence that belong to a set, in their order.  This  *)
(* is SelectSeq with a set for its test, so that it can be reasoned about. *)
(***************************************************************************)
EXTENDS Integers, Sequences

\* Of each length, what is selected of the prefix of that length.
Selecting(s, T) ==
  LET f[i \in 0 .. Len(s)] ==
        IF i = 0 THEN << >> ELSE IF s[i] \in T THEN Append(f[i - 1], s[i]) ELSE f[i - 1]
  IN  f

Selected(s, T) == Selecting(s, T)[Len(s)]
=============================================================================
