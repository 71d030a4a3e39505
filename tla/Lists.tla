------------------------------- MODULE Lists --------------------------------
(***************************************************************************)
(* Loops over lists, as recursive functions.  The prover can neither       *)
(* unfold SelectSeq nor give an operator to a lemma, so that a step of a   *)
(* loop is a function here and what is left out of a list is a set.        *)
(***************************************************************************)
EXTENDS Naturals, Sequences

Elements(list) == {list[i] : i \in 1 .. Len(list)}

(* What step makes of start over the elements of the list, from left to    *)
(* right.                                                                  *)
Fold(step, start, list) ==
  LET run[i \in 0 .. Len(list)] ==
        IF i = 0 THEN start ELSE step[list[i]][run[i - 1]]
  IN  run[Len(list)]

(* The list without the elements of S, in its order.                       *)
Without(list, S) ==
  LET all  == Elements(list)
      keep == [x \in all |-> [out \in Seq(all) |-> IF x \in S THEN out ELSE Append(out, x)]]
  IN  Fold(keep, <<>>, list)
=============================================================================
