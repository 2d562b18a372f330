------------------------------- MODULE Selections -------------------------------
(***************************************************************************)
(* Comprehensions: what the code writes as a loop that appends the         *)
(* elements of a list that meet a condition.                               *)
(***************************************************************************)
EXTENDS Integers, Sequences

(* The elements of s at the indices of a set, in their order, as far as    *)
(* the loop has got.                                                       *)
Selected(s, indices) ==
  LET selected[n \in 0..Len(s)] ==
        IF n = 0 THEN <<>>
        ELSE IF n \in indices THEN Append(selected[n - 1], s[n]) ELSE selected[n - 1]
  IN  selected

Select(s, indices) == Selected(s, indices)[Len(s)]
===============================================================================
