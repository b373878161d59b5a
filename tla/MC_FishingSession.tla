------------------------- MODULE MC_FishingSession -------------------------
(* FishingSession on small instances, and the claims that do not hold. *)
EXTENDS FishingSession, TLC

CONSTANTS r1, r2

Symmetry == Permutations(Requests)

\* The guarded properties promise nothing once requests have overlapped in a
\* way that last_index cannot see; the runs that refute are about what follows.
Guarded == ~unguarded
=============================================================================
