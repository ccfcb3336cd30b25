---------------------------- MODULE MCRoundRobin ----------------------------
(* RoundRobin with few processes and cores. *)
EXTENDS RoundRobin

=============================================================================
