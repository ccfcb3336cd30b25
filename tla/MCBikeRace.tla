----------------------------- MODULE MCBikeRace -----------------------------
(* BikeRace on small races: bikers as model values, interchangeable. *)
EXTENDS BikeRace, TLC

Symmetry == Permutations(Bikers)

=============================================================================
