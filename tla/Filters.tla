------------------------------ MODULE Filters ------------------------------
(***************************************************************************)
(* Array filtering, as a recursive function: what the provers can unfold,  *)
(* which they cannot with SelectSeq.                                       *)
(***************************************************************************)
EXTENDS Integers, Sequences

\* What is left of the first i elements of s without those in S
Kept(s, S, kept, i) ==
  IF i = 0 THEN <<>> ELSE IF s[i] \in S THEN kept[i - 1] ELSE Append(kept[i - 1], s[i])

\* s without the elements of S, in order
Without(s, S) ==
  LET kept[i \in 0..Len(s)] == Kept(s, S, kept, i)
  IN  kept[Len(s)]
=============================================================================
