------------------------------ MODULE Sublists ------------------------------
(***************************************************************************)
(* What Array.prototype.filter and the filtering loops of the server       *)
(* return: the elements of a list at some of its positions, in their order *)
(* (SelectSeq with a set of positions, about which proofs are possible).   *)
(***************************************************************************)
EXTENDS Naturals, Sequences

Sublist(list, positions) ==
    LET upTo[n \in 0 .. Len(list)] ==
          IF n = 0 THEN << >>
          ELSE IF n \in positions THEN Append(upTo[n - 1], list[n])
          ELSE upTo[n - 1]
    IN  upTo[Len(list)]
=============================================================================
