----------------------------- MODULE RaceRounds -----------------------------
(***************************************************************************)
(* What the barriers of the velodrome simulator promise: the race proceeds *)
(* in rounds, bikers leave it only while riding, and it is over exactly    *)
(* when nobody is racing any more.  BikeRace implements this.              *)
(***************************************************************************)
CONSTANT Bikers

VARIABLES
    phase,    \* the part of the round that every thread is in: "grid", "ride",
              \* "regroup" or "classify"; "over" after the last one
    racing    \* the bikers still in the race

Init == phase = "grid" /\ racing = Bikers

GoTo(from, to) == phase = from /\ phase' = to /\ UNCHANGED racing

StartShot == GoTo("grid", "ride")

Retire(b) ==
    /\ phase = "ride"
    /\ b \in racing
    /\ racing' = racing \ {b}
    /\ UNCHANGED phase

AllMoved == GoTo("ride", "regroup")

Classify == racing # {} /\ GoTo("regroup", "classify")

Ride == GoTo("classify", "ride")

End == racing = {} /\ GoTo("regroup", "over")

Next == StartShot \/ (\E b \in Bikers : Retire(b)) \/ AllMoved \/ Classify \/ Ride \/ End

Spec == Init /\ [][Next]_<<phase, racing>>

=============================================================================
