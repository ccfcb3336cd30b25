----------------------------- MODULE MCRoadMoves -----------------------------
(* RoadMoves on small roads. *)
EXTENDS RoadMoves

\* Of the speeds that calc_new_speed draws, those that lead to a full lane and
\* some more: the first biker stays slow, the others ride on at 60 km/h from
\* their second lap on, one of them at any speed in its third.
OthersCatchUp ==
    /\ speed[0] = Slow
    /\ lap[1] = 1 => speed[1] = Medium
    /\ \A b \in Bikers \ {0, 1} : lap[b] >= 1 => speed[b] = Medium

=============================================================================
