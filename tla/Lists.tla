-------------------------------- MODULE Lists --------------------------------
(* A list comprehension with a condition, written so that it can be reasoned *)
(* about: SelectSeq has no definition in the proof system.                   *)
EXTENDS Integers, Sequences

\* The entries of s at the indices of I, in their order.
Kept(s, I) ==
  LET kept[n \in 0..Len(s)] ==
        IF n = 0 THEN <<>>
        ELSE IF n \in I THEN Append(kept[n - 1], s[n]) ELSE kept[n - 1]
  IN  kept[Len(s)]
=============================================================================
