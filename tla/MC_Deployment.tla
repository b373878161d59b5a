----------------------------- MODULE MC_Deployment -----------------------------
(* Deployment on small instances. *)
EXTENDS Deployment, TLC

CONSTANTS old, new, s1, p1, p2, ann, r1, r2

\* The first two files stand for everything up to the first release, the baits
\* after the equipment as in 000035 and 000036; the second release adds a pack
\* whose fish and world come a file before its spawn table and locations.
MCShips == old :> 2 @@ new :> 4
MCPackOf == <<1, 1, 2, 2>>
MCSeeds == <<Tables \ {"baits", "extras"}, {"baits", "extras"}, {"fish", "worlds"}, {"spawn", "locations"}>>
MCImageOf == s1 :> old
Symmetry == Permutations(PlayerIds) \union Permutations(Requests)
=============================================================================
