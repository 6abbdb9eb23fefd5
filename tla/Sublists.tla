----------------------------- MODULE Sublists -------------------------------
(***************************************************************************)
(* What is left of a sequence when some of its elements are left out.      *)
(***************************************************************************)
EXTENDS Naturals, Sequences

\* The elements of list that are not in S, in the same order.
Without(list, S) ==
    LET kept[n \in 0 .. Len(list)] ==
            IF n = 0 THEN << >>
            ELSE IF list[n] \in S THEN kept[n - 1]
                                  ELSE Append(kept[n - 1], list[n])
    IN  kept[Len(list)]
=============================================================================
