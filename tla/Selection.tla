------------------------------ MODULE Selection ------------------------------
(***************************************************************************)
(* "for item in items if condition": the one loop several parts share.     *)
(***************************************************************************)
EXTENDS Naturals, Sequences

\* What is selected up to position n, before being what is selected below it.
Taken(items, kept, n, before) ==
  IF n \in kept THEN Append(before, items[n]) ELSE before

\* The elements of items whose positions are in kept, in their order.
Selected(items, kept) ==
  LET taken[n \in 0..Len(items)] ==
        IF n = 0 THEN << >> ELSE Taken(items, kept, n, taken[n - 1])
  IN taken[Len(items)]
=============================================================================
