------------------------------ MODULE MC_Resolve ------------------------------
(* Resolve on small instances. *)
EXTENDS Resolve

\* Something small that is sold, something strong that is kept, and one draw
\* for each other fate of a catch.
Small == [category |-> "vendor", force |-> 3, stamina |-> 4, gold |-> 4, xp |-> 1, filtered |-> FALSE]
Ore == [category |-> "material", force |-> 4, stamina |-> 3, gold |-> 0, xp |-> 2, filtered |-> FALSE]
Relic == [category |-> "rune", force |-> 1, stamina |-> 2, gold |-> 0, xp |-> 0, filtered |-> FALSE]
Sold == [category |-> "trophy", force |-> 2, stamina |-> 1, gold |-> 4, xp |-> 2, filtered |-> TRUE]
Giant == [Sold EXCEPT !.filtered = FALSE]

Draw(fish, rare, bite, luck, big, double, drop) ==
  [fish |-> fish, rare |-> rare, bite |-> bite, luck |-> luck, big |-> big,
   double |-> double, drop |-> drop]

MCDraws ==
  {Draw(Small, Ore, 1, TRUE, FALSE, FALSE, "none"),
   Draw(Small, Small, 2, FALSE, TRUE, FALSE, "equipment"),
   Draw(Small, Small, 2, FALSE, FALSE, FALSE, "none"),
   Draw(Ore, Ore, 2, TRUE, FALSE, FALSE, "none"),
   Draw(Ore, Giant, 1, FALSE, FALSE, FALSE, "runes"),
   Draw(Relic, Relic, 1, FALSE, FALSE, TRUE, "none"),
   Draw(Sold, Sold, 2, FALSE, FALSE, TRUE, "none")}
=============================================================================
