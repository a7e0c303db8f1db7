---------------------------- MODULE Subsequences ----------------------------
(***************************************************************************)
(* What a list comprehension or a filter leaves of a list.                 *)
(***************************************************************************)
EXTENDS Integers, Sequences

\* The elements of s at the positions in I, in their order.
Kept(s, I) ==
  LET upTo[n \in 0 .. Len(s)] ==
        IF n = 0 THEN <<>>
        ELSE IF n \in I THEN Append(upTo[n - 1], s[n]) ELSE upTo[n - 1]
  IN upTo[Len(s)]
=============================================================================
