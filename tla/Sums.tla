--------------------------------- MODULE Sums ---------------------------------
(***************************************************************************)
(* The sum of a sequence of numbers, as a recursive function: the folds of *)
(* the community modules choose the next element, which leaves nothing to  *)
(* reason from.                                                            *)
(***************************************************************************)
EXTENDS Integers, Sequences

SumOf(s) ==
  LET upTo[n \in 0 .. Len(s)] == IF n = 0 THEN 0 ELSE upTo[n - 1] + s[n] IN upTo[Len(s)]
=============================================================================
