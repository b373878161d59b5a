------------------------------ MODULE MC_Market ------------------------------
(* Market on small instances. *)
EXTENDS Market, TLC

CONSTANTS ann, bob, rod, trophy, boots, r1, r2, r3

MCOwner == [i \in Items |-> IF i = boots THEN bob ELSE ann]
MCHauls == {-1, 1}
Symmetry == Permutations(Requests)
=============================================================================
