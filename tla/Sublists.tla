------------------------------ MODULE Sublists ------------------------------
(***************************************************************************)
(* What is left of a list when only the entries at some of its positions   *)
(* stay.  SelectSeq does the same; of a list that is built entry by entry  *)
(* nothing can be proved, of one that is given by positions it can.        *)
(***************************************************************************)
EXTENDS Naturals, FiniteSets

Kept(s, positions) ==
    [i \in 1 .. Cardinality(positions) |->
        s[CHOOSE p \in positions : Cardinality({q \in positions : q <= p}) = i]]
=============================================================================
