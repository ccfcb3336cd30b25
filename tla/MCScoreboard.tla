---------------------------- MODULE MCScoreboard ----------------------------
(* Scoreboard with few bikers and short intervals. *)
EXTENDS Scoreboard, TLC

BikerSymmetry == Permutations(Bikers)

=============================================================================
