------------------------------- MODULE Lists -------------------------------
(***************************************************************************)
(* What the loops and comprehensions have in common that build a list of   *)
(* some of the elements of another, such as those of the truncator, of the *)
(* providers and of the sanitisers.  It is SelectSeq by positions, as a    *)
(* recursive function, of which proofs can use the definition.             *)
(***************************************************************************)
EXTENDS Integers, Sequences

\* The elements of s at the positions in I, in their order.
Kept(s, I) ==
  LET Up[n \in 0..Len(s)] ==
        IF n = 0 THEN <<>> ELSE IF n \in I THEN Append(Up[n - 1], s[n]) ELSE Up[n - 1]
  IN Up[Len(s)]
=============================================================================
