--------------------------- MODULE RoadMovesProofs ---------------------------
(***************************************************************************)
(* Proofs about RoadMoves, for every road, number of bikers and of lanes   *)
(* that main accepts: the road and the bikers' positions agree, no change  *)
(* of the lanes' counts is lost, nobody passes a biker ahead that has      *)
(* still to move, no unlock is lost on a biker that waits, and a circle of *)
(* waits goes around the whole road.                                       *)
(***************************************************************************)
EXTENDS RoadMoves, ProofLemmas

-----------------------------------------------------------------------------
(* The inductive invariant. *)

\* The stages of a biker that has still to move in this round.
Riding == {"look", "probe", "await", "try", "see", "move"} \union Crossing

\* Those of one that has unlocked its semaphores, and not taken them back.
Ended == {"lap", "leave", "barr", "settle"} \union Gone

\* Those in which a biker holds mymtx.
Holders == {"countOut", "countIn", "unlock", "countOff", "unlockOff"}

\* The biker has not unlocked its semaphores in this round.
Before(b) == pc[b][1] \in Riding \union {"done"}

\* The biker has unlocked them, and not taken them back.
After(b) == pc[b][1] \in Ended \ {"out"}

\* The biker no longer waits for the one ahead.
Past(b) ==
    \/ pc[b][1] \in {"try", "see", "move"} \union Crossing
    \/ pc[b][1] \in {"look", "probe", "await"} /\ pc[b][2] \in {2, 3}

Ahead(b) == <<NextMeter(b), at[b][2]>>
Below(b) == <<at[b][1], at[b][2] + 1>>

\* The lanes looked at and tried exist, a biker moves to another cell, and the one
\* ahead is probed for without a condition.
LanesOK ==
    \A b \in Bikers :
       /\ pc[b] # <<"look", 1>>
       /\ pc[b][1] = "probe" => WatchedLane(b, pc[b][2]) \in Lanes
       /\ pc[b][1] \in {"try", "see", "move"} \union Crossing => pc[b][2] \in 0 .. 2
       /\ pc[b][1] \in {"see", "move"} \union Crossing => at[b][2] + pc[b][2] - 1 \in Lanes
       /\ pc[b][1] \in Crossing => Entered(b) # at[b]

\* Who is in the race has laps left.
LapsOK == \A b \in Bikers : pc[b][1] \notin {"leave"} \union Gone => lap[b] < Laps

\* One biker at a time has mymtx, ...
MutexOK == \A b \in Bikers : pc[b][1] \in Holders => mymtx = b

\* ... so that what it loaded is still there when it writes.
LoadedOK ==
    \A b \in Bikers :
       /\ pc[b][1] \in {"countOut", "countOff"} => count[b] = nbpl[at[b][2]]
       /\ pc[b][1] = "countIn" => count[b] = nbpl[Entered(b)[2]]

\* The semaphores are taken back after barr has opened and before anyone rides.
PhaseOK ==
    \/ \A b \in Bikers : pc[b][1] \notin {"settle", "ready"}
    \/ \A b \in Bikers : pc[b][1] \in {"settle", "ready", "out"}

MovedOK ==
    \A b \in Bikers :
       /\ pc[b][1] \in Riding => ~moved[b]
       /\ pc[b][1] \in Ended => moved[b]
       /\ pc[b][1] = "ready" => (moved[b] <=> par[b] % speed[b] # 0)

\* The biker ahead has moved, or is the one waited for.
AheadOK ==
    \A b, m \in Bikers : at[m] = Ahead(b) =>
       /\ Past(b) => moved[m]
       /\ pc[b] = <<"await", 1>> => moved[m] \/ m = awaited[b]

\* Nobody cuts in on a biker just below that has still to move.
BelowOK ==
    \A b, m \in Bikers :
       (pc[b][1] \in {"move"} \union Crossing /\ pc[b][2] = 2 /\ at[m] = Below(b))
          => moved[m] \/ pc[m][1] \in Cleared

\* Where the one waited for is as long as it has not moved: in the cell watched, or,
\* as the lane just above is watched under another mutex, on its way there.
WaitOK ==
    \A b \in Bikers : pc[b][1] = "await" =>
       /\ awaited[b] \in Bikers
       /\ used[awaited[b]][pc[b][2]]
       /\ \/ moved[awaited[b]]
          \/ at[awaited[b]] = WatchedCell(b, pc[b][2])
          \/ /\ pc[b][2] = 3 /\ pc[awaited[b]][1] \in Crossing
             /\ Entered(awaited[b]) = WatchedCell(b, 3)

\* Nobody else waits at the same side of the same biker.
OneWaits ==
    \A b, c \in Bikers :
       (pc[b][1] = "await" /\ pc[c] = pc[b] /\ awaited[c] = awaited[b]) => c = b

\* The semaphores are locked until the biker has moved, and then unlocked
\* or taken by a waiter; one marked as used is free only for its waiter.
SemOK ==
    \A m \in Bikers : \A k \in Sides :
       /\ Before(m) \/ pc[m][1] = "ready" => ~sem[m][k]
       /\ pc[m][1] = "ready" => ~used[m][k]
       /\ After(m) => used[m][k] \/ sem[m][k]
       /\ used[m][k] /\ (Before(m) \/ sem[m][k]) =>
             \E b \in Bikers : pc[b] = <<"await", k>> /\ awaited[b] = m

IInv ==
    /\ TypeOK /\ RoadMatchesBikers /\ LaneCountsExact
    /\ MutexOK /\ LoadedOK
    /\ LanesOK /\ LapsOK /\ PhaseOK /\ MovedOK /\ AheadOK /\ BelowOK
    /\ WaitOK /\ OneWaits /\ SemOK /\ NoUnlockLost

-----------------------------------------------------------------------------
(* What the actions do to the stages and places. *)

\* A biker goes to its next stage, and the others stay where they are.
LEMMA GoesTo ==
    ASSUME TypeOK, NEW b \in Bikers, NEW s, NEW k, Goes(b, s, k)
    PROVE  /\ pc'[b] = <<s, k>> /\ pc'[b][1] = s /\ pc'[b][2] = k
           /\ \A c \in Bikers \ {b} : pc'[c] = pc[c]
           /\ s \in Stages /\ k \in Sides => pc' \in [Bikers -> Stages \X Sides]
BY DEF TypeOK, Goes

\* The components of places and stages.
LEMMA Parts ==
    ASSUME TypeOK, NEW b \in Bikers
    PROVE  /\ pc[b] = <<pc[b][1], pc[b][2]>> /\ pc[b][1] \in Stages /\ pc[b][2] \in Sides
           /\ at[b] = <<at[b][1], at[b][2]>> /\ at[b][1] \in Meters /\ at[b][2] \in Lanes
           /\ NextMeter(b) \in Meters /\ at[b][1] \in Int /\ at[b][2] \in Int /\ pc[b][2] \in Int
           /\ at[b] \in Cells
           /\ moved[b] \in BOOLEAN
<1>1. pc[b] \in Stages \X Sides /\ at[b] \in Meters \X Lanes
  BY DEF TypeOK
<1>2. Length \in Nat \ {0} /\ NumLanes \in Nat \ {0}
  BY SizeAssumption
<1>3. at[b][1] \in 0 .. Length - 1 /\ at[b][2] \in 0 .. NumLanes - 1 /\ pc[b][2] \in 0 .. 3
  BY <1>1 DEF Meters, Lanes, Sides
<1>4. (at[b][1] + 1) % Length \in 0 .. Length - 1
  BY <1>2, <1>3
<1> QED
  BY <1>1, <1>3, <1>4 DEF TypeOK, NextMeter, Meters, Cells

\* The cells a biker holds, by its stage.
LEMMA CellsByStage ==
    ASSUME TypeOK, NEW b \in Bikers
    PROVE  CellsOf(b) = IF pc[b][1] = "enter" THEN {at[b], Entered(b)}
                        ELSE IF pc[b][1] \in Cleared THEN {Entered(b)}
                        ELSE IF pc[b][1] \in Gone THEN {}
                        ELSE {at[b]}
BY DEF CellsOf, Crossing, Cleared, Gone

\* Two bikers on the road that hold no other cell are not in the same one.
LEMMA ApartOnRoad ==
    ASSUME TypeOK, RoadMatchesBikers, NEW b \in Bikers, NEW c \in Bikers,
           pc[b][1] \notin Cleared \union Gone, pc[c][1] \notin Cleared \union Gone,
           at[b] = at[c]
    PROVE  b = c
<1>1. at[b] \in CellsOf(b) /\ at[c] \in CellsOf(c)
  BY CellsByStage
<1>2. at[b] \in Cells /\ at[c] \in Cells
  BY Parts
<1> QED
  BY <1>1, <1>2 DEF RoadMatchesBikers

\* Only one meter is before another one.
LEMMA NextMeterInjective ==
    ASSUME TypeOK, NEW b \in Bikers, NEW c \in Bikers, NextMeter(b) = NextMeter(c)
    PROVE  at[b][1] = at[c][1]
<1>1. Length \in Nat \ {0} /\ at[b][1] \in 0 .. Length - 1 /\ at[c][1] \in 0 .. Length - 1
  BY Parts, SizeAssumption DEF Meters
<1>2. \A i \in 0 .. Length - 1 : (i + 1) % Length = IF i = Length - 1 THEN 0 ELSE i + 1
  BY <1>1
<1> QED
  BY <1>1, <1>2 DEF NextMeter

\* Where a biker goes that need not wait on side k, or no longer.
LEMMA AfterWaitGoes ==
    ASSUME TypeOK, NEW b \in Bikers, NEW k \in Sides, AfterWait(b, k)
    PROVE  /\ pc'[b] = IF k = 3 THEN <<"try", 0>> ELSE IF k = 0 THEN <<"probe", 1>> ELSE <<"look", k + 1>>
           /\ \A c \in Bikers \ {b} : pc'[c] = pc[c]
           /\ pc' \in [Bikers -> Stages \X Sides]
<1>1. CASE k = 3
  BY <1>1, GoesTo DEF AfterWait, Sides, Stages
<1>2. CASE k = 0
  BY <1>2, GoesTo DEF AfterWait, Sides, Stages
<1>3. CASE k \in {1, 2}
  <2>1. k + 1 \in Sides /\ k # 3 /\ k # 0
    BY <1>3 DEF Sides
  <2> QED BY <2>1, GoesTo DEF AfterWait, Stages
<1> QED
  BY <1>1, <1>2, <1>3 DEF Sides

\* Where a biker goes that could not take lane t.
LEMMA AfterTryGoes ==
    ASSUME TypeOK, NEW b \in Bikers, NEW t \in 0 .. 2, AfterTry(b, t)
    PROVE  /\ pc'[b] = IF t = 2 THEN <<"done", 0>> ELSE IF t = 0 THEN <<"move", 1>> ELSE <<"try", 2>>
           /\ \A c \in Bikers \ {b} : pc'[c] = pc[c]
           /\ pc' \in [Bikers -> Stages \X Sides]
<1>1. CASE t = 0
  BY <1>1, GoesTo DEF AfterTry, Stages, Sides
<1>2. CASE t = 1
  BY <1>2, GoesTo DEF AfterTry, Stages, Sides
<1>3. CASE t = 2
  BY <1>3, GoesTo DEF AfterTry, Stages, Sides
<1> QED
  BY <1>1, <1>2, <1>3

\* The steps before a biker enters a cell: it waits for others, or tries a lane.
Prepares(b) ==
    \/ \E k \in Sides : Look(b, k) \/ Probe(b, k) \/ Await(b, k)
    \/ \E t \in 0 .. 2 : Try(b, t) \/ See(b, t) \/ (Enter(b, t) /\ road[Entered(b)] # Free)

\* They leave the road alone, and the biker has still to move or gives up.
LEMMA PreparesInPlace ==
    ASSUME TypeOK, NEW b \in Bikers, Prepares(b)
    PROVE  /\ pc[b][1] \in Riding \ Crossing /\ pc'[b][1] \in (Riding \ Crossing) \union {"done"}
           /\ pc' \in [Bikers -> Stages \X Sides]
           /\ \A c \in Bikers \ {b} : pc'[c] = pc[c]
           /\ at' = at /\ road' = road /\ UNCHANGED laneVars /\ moved' = moved
           /\ moveType' = moveType /\ par' = par /\ speed' = speed /\ lap' = lap
<1>1. ASSUME NEW k \in Sides, Look(b, k) \/ Probe(b, k) \/ Await(b, k)
      PROVE  /\ pc[b][1] \in {"look", "probe", "await"}
             /\ AfterWait(b, k) \/ Goes(b, "probe", k) \/ Goes(b, "await", k)
             /\ UNCHANGED placeVars /\ UNCHANGED rideVars
  BY <1>1 DEF Look, Probe, Await
<1>2. ASSUME NEW t \in 0 .. 2, Try(b, t) \/ See(b, t) \/ (Enter(b, t) /\ road[Entered(b)] # Free)
      PROVE  /\ pc[b][1] \in {"try", "see", "move"}
             /\ AfterTry(b, t) \/ Goes(b, "see", t) \/ Goes(b, "move", t)
             /\ UNCHANGED placeVars /\ UNCHANGED rideVars
  BY <1>2 DEF Try, See, Enter, placeVars, rideVars
<1> QED
  BY <1>1, <1>2, AfterWaitGoes, AfterTryGoes, GoesTo
     DEF Prepares, Riding, Crossing, Cleared, Stages, Sides, placeVars, rideVars

\* A biker enters a cell: neither its own cell nor the new one is being crossed.
LEMMA EnterCell ==
    ASSUME TypeOK, LanesOK, NEW b \in Bikers, NEW t \in 0 .. 2,
           Enter(b, t), road[Entered(b)] = Free
    PROVE  /\ pc[b] = <<"move", t>> /\ pc'[b] = <<"enter", t>>
           /\ \A c \in Bikers \ {b} : pc'[c] = pc[c]
           /\ pc' \in [Bikers -> Stages \X Sides]
           /\ Entered(b) \in Cells
           /\ road' = [road EXCEPT ![Entered(b)] = b]
           /\ at' = at /\ UNCHANGED laneVars /\ moved' = moved
           /\ moveType' = moveType /\ par' = par /\ speed' = speed /\ lap' = lap
           /\ used' = used /\ sem' = sem /\ awaited' = awaited
           /\ ~Locked(Entered(b)) /\ ~Locked(at[b])
<1>1. pc[b] = <<"move", t>> /\ Goes(b, "enter", t)
  BY DEF Enter
<1>2. Entered(b) \in Cells
  BY <1>1, Parts DEF LanesOK, Entered, Cells
<1> QED
  BY <1>1, <1>2, GoesTo DEF Enter, rideVars, waitVars, Stages, Crossing, Sides

\* It leaves the old one, ...
LEMMA VacateCell ==
    ASSUME TypeOK, LanesOK, NEW b \in Bikers, NEW t \in 0 .. 2, Vacate(b, t)
    PROVE  /\ pc[b] = <<"enter", t>> /\ pc'[b] = <<IF t = 1 THEN "place" ELSE "lock", t>>
           /\ pc'[b][1] \in Cleared /\ pc'[b][2] = t
           /\ \A c \in Bikers \ {b} : pc'[c] = pc[c]
           /\ pc' \in [Bikers -> Stages \X Sides]
           /\ Entered(b) \in Cells /\ Entered(b) # at[b] /\ at[b] \in Cells
           /\ road' = [road EXCEPT ![at[b]] = Free]
           /\ at' = at /\ UNCHANGED laneVars /\ moved' = moved
           /\ moveType' = moveType /\ par' = par /\ speed' = speed /\ lap' = lap
           /\ used' = used /\ sem' = sem /\ awaited' = awaited
<1>1. pc[b] = <<"enter", t>> /\ Goes(b, IF t = 1 THEN "place" ELSE "lock", t)
  BY DEF Vacate
<1>2. Entered(b) \in Cells /\ Entered(b) # at[b] /\ at[b] \in Cells
  BY <1>1, Parts DEF LanesOK, Entered, Cells, Crossing
<1>3. (IF t = 1 THEN "place" ELSE "lock") \in Cleared /\ Cleared \subseteq Stages /\ t \in Sides
  BY DEF Cleared, Crossing, Stages, Sides
<1> QED
  BY <1>1, <1>2, <1>3, GoesTo DEF Vacate, rideVars, waitVars

\* ... and is in the new one.
LEMMA PlaceBiker ==
    ASSUME TypeOK, LanesOK, NEW b \in Bikers, NEW t \in 0 .. 2, Place(b, t)
    PROVE  /\ pc[b] = <<"place", t>> /\ pc'[b] = <<"done", 1>>
           /\ \A c \in Bikers \ {b} : pc'[c] = pc[c]
           /\ pc' \in [Bikers -> Stages \X Sides]
           /\ Entered(b) \in Cells
           /\ at' = [at EXCEPT ![b] = Entered(b)] /\ at'[b] = Entered(b) /\ at' \in [Bikers -> Meters \X Lanes]
           /\ \A c \in Bikers \ {b} : at'[c] = at[c]
           /\ UNCHANGED laneVars
           /\ moved' = [moved EXCEPT ![b] = TRUE]
           /\ road' = road
           /\ moveType' = moveType /\ par' = par /\ speed' = speed /\ lap' = lap
           /\ used' = used /\ sem' = sem /\ awaited' = awaited
<1>1. pc[b] = <<"place", t>> /\ Goes(b, "done", 1)
  BY DEF Place
<1>2. Entered(b) \in Cells /\ Entered(b) \in Meters \X Lanes
  BY <1>1, Parts DEF LanesOK, Entered, Cells, Crossing, Cleared
<1>3. at' = [at EXCEPT ![b] = Entered(b)] /\ at \in [Bikers -> Meters \X Lanes]
  BY DEF Place, TypeOK
<1> QED
  BY <1>1, <1>2, <1>3, GoesTo DEF Place, rideVars, waitVars, Stages, Sides

\* The steps that change the counts, of a biker that moves ...
CountsMove(b) ==
    \E t \in {0, 2} : LockLanes(b, t) \/ CountOut(b, t) \/ CountIn(b, t) \/ UnlockLanes(b, t)

\* ... and of one that leaves the road.
CountsLeaving(b) == LockOff(b) \/ CountOff(b) \/ UnlockOff(b)

\* They change nothing else.
LEMMA CountsOnly ==
    ASSUME TypeOK, NEW b \in Bikers, CountsMove(b) \/ CountsLeaving(b)
    PROVE  /\ \/ pc[b][1] \in Cleared /\ pc'[b][1] \in Cleared /\ pc'[b][2] = pc[b][2]
              \/ pc[b][1] \in Gone \ {"out"} /\ pc'[b][1] \in Gone \ {"out"}
           /\ \A c \in Bikers \ {b} : pc'[c] = pc[c]
           /\ pc' \in [Bikers -> Stages \X Sides]
           /\ at' = at /\ road' = road /\ moved' = moved
           /\ moveType' = moveType /\ par' = par /\ speed' = speed /\ lap' = lap
           /\ used' = used /\ sem' = sem /\ awaited' = awaited
<1>1. Cleared \subseteq Stages /\ Gone \subseteq Stages
  BY DEF Stages, Crossing
<1>2. ASSUME CountsMove(b)
      PROVE  /\ \E s \in Cleared : \E t \in {0, 2} : Goes(b, s, t) /\ pc[b][1] \in Cleared /\ pc[b][2] = t
             /\ at' = at /\ road' = road /\ moved' = moved /\ UNCHANGED <<rideVars, waitVars>>
  BY <1>2 DEF CountsMove, LockLanes, CountOut, CountIn, UnlockLanes, Cleared
<1>3. ASSUME CountsLeaving(b)
      PROVE  /\ \E s \in Gone \ {"out"} : Goes(b, s, 0) /\ pc[b][1] \in Gone \ {"out"}
             /\ at' = at /\ road' = road /\ moved' = moved /\ UNCHANGED <<rideVars, waitVars>>
  BY <1>3 DEF CountsLeaving, LockOff, CountOff, UnlockOff, Gone
<1> QED
  BY <1>1, <1>2, <1>3, GoesTo DEF rideVars, waitVars, Sides

\* The end of a round: the semaphores are unlocked, ...
LEMMA DoneRound ==
    ASSUME TypeOK, NEW b \in Bikers, Done(b)
    PROVE  /\ pc[b][1] = "done" /\ pc'[b][1] \in {"lap", "barr"}
           /\ \A c \in Bikers \ {b} : pc'[c] = pc[c]
           /\ pc' \in [Bikers -> Stages \X Sides]
           /\ moved' = [moved EXCEPT ![b] = TRUE]
           /\ sem' = [sem EXCEPT ![b] = [k \in Sides |-> TRUE]]
           /\ par' = [par EXCEPT ![b] = (@ + 1) % Slow]
           /\ moveType' = [moveType EXCEPT ![b] = {"TOP", "DOWN"}]
           /\ at' = at /\ road' = road /\ UNCHANGED laneVars /\ used' = used
           /\ awaited' = awaited /\ speed' = speed /\ lap' = lap
<1>1. \E s \in {"lap", "barr"} : Goes(b, s, 0)
  BY DEF Done
<1> QED
  BY <1>1, GoesTo DEF Done, Stages, Sides

\* ... a lap ends, ...
LEMMA LapEnds ==
    ASSUME TypeOK, NEW b \in Bikers, LapEnd(b)
    PROVE  /\ pc[b][1] = "lap"
           /\ \A c \in Bikers \ {b} : pc'[c] = pc[c]
           /\ pc' \in [Bikers -> Stages \X Sides]
           /\ lap' = [lap EXCEPT ![b] = @ + 1]
           /\ par' = [par EXCEPT ![b] = 1 % Slow]
           /\ (lap[b] + 1 # Laps /\ pc'[b][1] = "barr") \/ pc'[b][1] = "leave"
           /\ at' = at /\ road' = road /\ UNCHANGED laneVars /\ moved' = moved /\ moveType' = moveType
           /\ used' = used /\ sem' = sem /\ awaited' = awaited
<1>1. (Goes(b, "barr", 0) /\ lap[b] + 1 # Laps) \/ Goes(b, "leave", 0)
  BY DEF LapEnd
<1> QED
  BY <1>1, GoesTo DEF LapEnd, placeVars, waitVars, Stages, Sides

\* ... after which a biker may take itself off the road ...
LEMMA LeavesRoad ==
    ASSUME TypeOK, NEW b \in Bikers, LeaveRoad(b)
    PROVE  /\ pc[b][1] = "leave" /\ pc'[b][1] = "lockOff" /\ pc'[b][1] \in Gone \ {"out"}
           /\ \A c \in Bikers \ {b} : pc'[c] = pc[c]
           /\ pc' \in [Bikers -> Stages \X Sides]
           /\ ~Locked(at[b])
           /\ road' = [road EXCEPT ![at[b]] = Free]
           /\ at' = at /\ UNCHANGED laneVars /\ moved' = moved
           /\ moveType' = moveType /\ par' = par /\ speed' = speed /\ lap' = lap
           /\ used' = used /\ sem' = sem /\ awaited' = awaited
BY GoesTo DEF LeaveRoad, rideVars, waitVars, Stages, Gone, Sides

\* ... and the semaphores are taken back.
LEMMA SettleRound ==
    ASSUME TypeOK, NEW b \in Bikers, Settle(b)
    PROVE  /\ pc[b][1] = "settle" /\ pc'[b][1] = "ready"
           /\ \A c \in Bikers \ {b} : pc'[c] = pc[c]
           /\ pc' \in [Bikers -> Stages \X Sides]
           /\ sem' = [sem EXCEPT ![b] = [k \in Sides |-> used[b][k] /\ sem[b][k]]]
           /\ used' = [used EXCEPT ![b] = [k \in Sides |-> FALSE]]
           /\ moved' = [moved EXCEPT ![b] = par[b] % speed[b] # 0]
           /\ at' = at /\ road' = road /\ UNCHANGED laneVars /\ awaited' = awaited
           /\ par' = par /\ speed' = speed /\ lap' = lap /\ moveType' = moveType
BY GoesTo DEF Settle, rideVars, Stages, Sides

\* Everyone that was at barr goes on or is out.
LEMMA BarrOpens ==
    ASSUME TypeOK, Barr
    PROVE  /\ \A b \in Bikers : /\ pc[b][1] \in {"barr", "quit", "out"}
                                /\ pc'[b][1] = IF pc[b][1] = "barr" THEN "settle" ELSE "out"
           /\ pc' \in [Bikers -> Stages \X Sides]
           /\ at' = at /\ road' = road /\ UNCHANGED laneVars /\ moved' = moved
           /\ moveType' = moveType /\ par' = par /\ speed' = speed /\ lap' = lap
           /\ used' = used /\ sem' = sem /\ awaited' = awaited
BY DEF Barr, placeVars, waitVars, rideVars, Stages, Crossing, Cleared, Gone, Sides

LEMMA ClassifyRound ==
    ASSUME TypeOK, Classify
    PROVE  /\ \A b \in Bikers : /\ pc[b][1] \in {"ready", "out"}
                                /\ pc'[b][1] = IF pc[b][1] = "out" THEN "out"
                                               ELSE IF par[b] % speed[b] = 0 THEN "look" ELSE "done"
                                /\ pc[b][1] = "out" \/ pc'[b][2] = 0
           /\ pc' \in [Bikers -> Stages \X Sides]
           /\ at' = at /\ road' = road /\ UNCHANGED laneVars /\ moved' = moved
           /\ par' = par /\ speed' = speed /\ lap' = lap
           /\ used' = used /\ sem' = sem /\ awaited' = awaited
<1>1. \A b \in Bikers : pc'[b] = IF b \in Out THEN pc[b]
                                ELSE <<IF par[b] % speed[b] = 0 THEN "look" ELSE "done", 0>>
  BY DEF Classify
<1>2. \A b \in Bikers : pc[b][1] \in {"ready", "out"} /\ pc'[b] \in Stages \X Sides
  BY <1>1 DEF Classify, Out, Stages, Sides, TypeOK
<1>3. pc' = [b \in Bikers |-> pc'[b]]
  BY DEF Classify
<1> QED
  BY <1>1, <1>2, <1>3 DEF Classify, Out, placeVars, waitVars

\* What a step can be.
LEMMA Steps ==
    ASSUME [Next]_vars
    PROVE  \/ \E b \in Bikers :
                 \/ Prepares(b)
                 \/ \E t \in 0 .. 2 : \/ Enter(b, t) /\ road[Entered(b)] = Free
                                      \/ Vacate(b, t) \/ Place(b, t)
                 \/ CountsMove(b) \/ CountsLeaving(b)
                 \/ Done(b) \/ LapEnd(b) \/ LeaveRoad(b) \/ Settle(b)
           \/ Barr \/ Classify \/ UNCHANGED vars
BY DEF Next, BikerStep, Prepares, CountsMove, CountsLeaving, Finished

-----------------------------------------------------------------------------
(* The road, the counts and the ranges of the variables. *)

\* The cells each biker holds are the same where nothing it rests on changes.
LEMMA SameCells ==
    ASSUME NEW b \in Bikers, pc'[b] = pc[b], at'[b] = at[b]
    PROVE  Entered(b)' = Entered(b) /\ CellsOf(b)' = CellsOf(b)
<1>1. Entered(b)' = Entered(b)
  BY DEF Entered, NextMeter
<1> QED
  BY <1>1 DEF CellsOf

LEMMA RoadStep ==
    ASSUME TypeOK, LanesOK, RoadMatchesBikers, [Next]_vars
    PROVE  RoadMatchesBikers'
<1>1. ASSUME road' = road, \A b \in Bikers : CellsOf(b)' = CellsOf(b)
      PROVE  RoadMatchesBikers'
  BY <1>1 DEF RoadMatchesBikers
<1>2. ASSUME NEW b \in Bikers, at' = at, \A c \in Bikers \ {b} : pc'[c] = pc[c]
      PROVE  \A c \in Bikers \ {b} : CellsOf(c)' = CellsOf(c)
  BY <1>2, SameCells
<1>3. ASSUME NEW b \in Bikers, road' = road, at' = at, \A c \in Bikers \ {b} : pc'[c] = pc[c],
             pc[b][1] \notin Crossing \union Gone, pc'[b][1] \notin Crossing \union Gone
      PROVE  RoadMatchesBikers'
  <2>1. CellsOf(b) = {at[b]} /\ CellsOf(b)' = {at[b]}
    BY <1>3, CellsByStage DEF CellsOf, Crossing
  <2> QED BY <1>1, <1>2, <1>3, <2>1
<1>4. ASSUME NEW b \in Bikers, Prepares(b)
      PROVE  RoadMatchesBikers'
  BY <1>3, <1>4, PreparesInPlace DEF Riding, Crossing, Cleared, Gone
<1>5. ASSUME NEW b \in Bikers, NEW t \in 0 .. 2, Enter(b, t), road[Entered(b)] = Free
      PROVE  RoadMatchesBikers'
  <2>1. CellsOf(b) = {at[b]} /\ CellsOf(b)' = {at[b], Entered(b)} /\ Entered(b) \in Cells
    <3>1. Entered(b)' = Entered(b)
      BY <1>5, EnterCell DEF Entered, NextMeter
    <3> QED BY <1>5, <3>1, EnterCell, CellsByStage DEF CellsOf, Crossing, Cleared, Gone
  <2>2. \A c \in Bikers \ {b} : CellsOf(c)' = CellsOf(c)
    BY <1>2, <1>5, EnterCell
  <2>3. \A c \in Bikers : Entered(b) \notin CellsOf(c)
    BY <1>5, <2>1 DEF RoadMatchesBikers, Free, Bikers
  <2>4. road' = [road EXCEPT ![Entered(b)] = b] /\ road \in [Cells -> Bikers \union {Free}]
    BY <1>5, EnterCell DEF TypeOK
  <2> QED BY <2>1, <2>2, <2>3, <2>4 DEF RoadMatchesBikers
<1>6. ASSUME NEW b \in Bikers, NEW t \in 0 .. 2, Vacate(b, t)
      PROVE  RoadMatchesBikers'
  <2>1. /\ CellsOf(b) = {at[b], Entered(b)} /\ CellsOf(b)' = {Entered(b)}
        /\ at[b] \in Cells /\ at[b] # Entered(b)
    <3>0. /\ pc[b][1] = "enter" /\ pc'[b][1] \in Cleared /\ pc'[b][2] = pc[b][2] /\ at' = at
          /\ at[b] \in Cells /\ at[b] # Entered(b)
      BY <1>6, VacateCell
    <3>1. Entered(b)' = Entered(b)
      BY <3>0 DEF Entered, NextMeter
    <3>2. CellsOf(b) = {at[b], Entered(b)}
      BY <3>0, CellsByStage
    <3>3. CellsOf(b)' = {Entered(b)'}
      BY <3>0 DEF CellsOf, Crossing
    <3> QED BY <3>0, <3>1, <3>2, <3>3
  <2>2. \A c \in Bikers \ {b} : CellsOf(c)' = CellsOf(c)
    BY <1>2, <1>6, VacateCell
  <2>3. \A c \in Bikers \ {b} : at[b] \notin CellsOf(c)
    BY <2>1 DEF RoadMatchesBikers
  <2>4. road' = [road EXCEPT ![at[b]] = Free]
    BY <1>6, VacateCell
  <2>5. road \in [Cells -> Bikers \union {Free}] /\ Free \notin Bikers
    BY DEF TypeOK, Free, Bikers
  <2> QED BY <2>1, <2>2, <2>3, <2>4, <2>5 DEF RoadMatchesBikers
<1>7. ASSUME NEW b \in Bikers, NEW t \in 0 .. 2, Place(b, t)
      PROVE  RoadMatchesBikers'
  <2>1. CellsOf(b) = {Entered(b)} /\ CellsOf(b)' = {Entered(b)}
    BY <1>7, PlaceBiker, CellsByStage DEF CellsOf, Crossing, Cleared, Gone
  <2>2. \A c \in Bikers \ {b} : CellsOf(c)' = CellsOf(c)
    BY <1>7, PlaceBiker, SameCells
  <2> QED BY <1>1, <1>7, <2>1, <2>2, PlaceBiker
<1>8. ASSUME NEW b \in Bikers, Done(b) \/ Settle(b) \/ LapEnd(b)
      PROVE  RoadMatchesBikers'
  BY <1>3, <1>8, DoneRound, SettleRound, LapEnds DEF Crossing, Cleared, Gone
<1>9. ASSUME NEW b \in Bikers, LeaveRoad(b)
      PROVE  RoadMatchesBikers'
  <2>0. pc[b][1] = "leave" /\ pc'[b][1] \in Gone /\ pc'[b][1] \notin Crossing
    BY <1>9, LeavesRoad DEF Crossing, Cleared, Gone
  <2>1. CellsOf(b) = {at[b]} /\ CellsOf(b)' = {} /\ at[b] \in Cells
    BY <2>0, CellsByStage, Parts DEF CellsOf, Cleared, Gone
  <2>2. \A c \in Bikers \ {b} : CellsOf(c)' = CellsOf(c)
    BY <1>2, <1>9, LeavesRoad
  <2>3. \A c \in Bikers \ {b} : at[b] \notin CellsOf(c)
    BY <2>1 DEF RoadMatchesBikers
  <2>4. road' = [road EXCEPT ![at[b]] = Free]
    BY <1>9, LeavesRoad
  <2>5. road \in [Cells -> Bikers \union {Free}] /\ Free \notin Bikers
    BY DEF TypeOK, Free, Bikers
  <2> QED BY <2>1, <2>2, <2>3, <2>4, <2>5 DEF RoadMatchesBikers
<1>12. ASSUME NEW b \in Bikers, CountsMove(b) \/ CountsLeaving(b)
       PROVE  RoadMatchesBikers'
  <2>1. \/ pc[b][1] \in Cleared /\ pc'[b][1] \in Cleared /\ pc'[b][2] = pc[b][2]
        \/ pc[b][1] \in Gone /\ pc'[b][1] \in Gone
    BY <1>12, CountsOnly
  <2>2. at' = at /\ road' = road /\ \A c \in Bikers \ {b} : pc'[c] = pc[c]
    BY <1>12, CountsOnly
  <2>3. CellsOf(b)' = CellsOf(b)
    BY <2>1, <2>2 DEF CellsOf, Entered, NextMeter, Crossing, Cleared, Gone
  <2> QED BY <1>1, <1>2, <2>2, <2>3
<1>10. ASSUME Barr \/ Classify
       PROVE  RoadMatchesBikers'
  <2>1. at' = at /\ road' = road
    BY <1>10, BarrOpens, ClassifyRound
  <2>2. \A b \in Bikers : CellsOf(b)' = CellsOf(b)
    BY <1>10, <2>1, BarrOpens, ClassifyRound DEF CellsOf, Crossing, Cleared, Gone
  <2> QED BY <1>1, <2>1, <2>2
<1>11. ASSUME UNCHANGED vars
       PROVE  RoadMatchesBikers'
  BY <1>1, <1>11, SameCells DEF vars
<1> QED
  BY <1>4, <1>5, <1>6, <1>7, <1>8, <1>9, <1>10, <1>11, <1>12, Steps

\* The bikers counted in a lane.
InLane(l) == {b \in Bikers : CountedIn(l, b)}

LEMMA BikersFinite ==
    /\ IsFiniteSet(Bikers) /\ Cardinality(Bikers) = NumBikers /\ NumBikers \in Nat \ {0}
    /\ \A S \in SUBSET Bikers : IsFiniteSet(S) /\ Cardinality(S) \in 0 .. NumBikers
<1>1. NumBikers \in Nat \ {0}
  BY SizeAssumption
<1>2. IsFiniteSet(0 .. NumBikers - 1) /\ Cardinality(0 .. NumBikers - 1) = NumBikers
  BY <1>1, FS_Interval
<1>3. \A S \in SUBSET Bikers : /\ IsFiniteSet(S) /\ Cardinality(S) \in Nat
                              /\ Cardinality(S) <= Cardinality(Bikers)
  BY <1>2, FS_Subset, FS_CardinalityType DEF Bikers
<1> QED
  BY <1>1, <1>2, <1>3 DEF Bikers

\* A biker more or less in a lane.
LEMMA OneInLane ==
    ASSUME NEW S \in SUBSET Bikers, NEW b \in Bikers
    PROVE  /\ b \in S => Cardinality(S \ {b}) = Cardinality(S) - 1
           /\ b \notin S => Cardinality(S \union {b}) = Cardinality(S) + 1
<1>1. IsFiniteSet(S) /\ IsFiniteSet(S \ {b})
  BY BikersFinite
<1> QED
  BY <1>1, FS_AddElement, FS_RemoveElement

\* The counts change only where a biker that holds mymtx writes them.
LEMMA MutexStep ==
    ASSUME TypeOK, LanesOK, MutexOK, LoadedOK, [Next]_vars
    PROVE  MutexOK' /\ LoadedOK'
<1> DEFINE Held(b) == pc[b][1] \in Holders => mymtx = b
           Loaded(b) == /\ pc[b][1] \in {"countOut", "countOff"} => count[b] = nbpl[at[b][2]]
                        /\ pc[b][1] = "countIn" => count[b] = nbpl[Entered(b)[2]]
<1>0. count \in [Bikers -> 0 .. NumBikers] /\ Free \notin Bikers
  BY DEF TypeOK, Free, Bikers
<1>1. ASSUME NEW x \in Bikers,
             \A c \in Bikers \ {x} : pc'[c] = pc[c] /\ at'[c] = at[c] /\ count'[c] = count[c],
             pc[x][1] \in Holders \/ (nbpl' = nbpl /\ mymtx \in {Free, mymtx'}),
             Held(x)', Loaded(x)'
      PROVE  MutexOK' /\ LoadedOK'
  <2>1. ASSUME NEW c \in Bikers \ {x} PROVE Held(c)' /\ Loaded(c)'
    <3>1. pc'[c] = pc[c] /\ at'[c] = at[c] /\ count'[c] = count[c] /\ Held(c) /\ Loaded(c)
      BY <1>1 DEF MutexOK, LoadedOK
    <3>2. CASE pc[c][1] \notin Holders
      BY <3>1, <3>2 DEF Holders
    <3>3. CASE pc[c][1] \in Holders
      <4>1. mymtx = c
        BY <3>1, <3>3
      <4>2. pc[x][1] \notin Holders
        BY <4>1 DEF MutexOK
      <4>3. nbpl' = nbpl /\ mymtx' = mymtx
        BY <1>0, <1>1, <4>1, <4>2
      <4>4. Entered(c)' = Entered(c)
        BY <3>1 DEF Entered, NextMeter
      <4> QED BY <3>1, <4>3, <4>4
    <3> QED BY <3>2, <3>3
  <2> QED BY <1>1, <2>1 DEF MutexOK, LoadedOK
<1>2. ASSUME NEW x \in Bikers, \A c \in Bikers \ {x} : pc'[c] = pc[c] /\ at'[c] = at[c],
             UNCHANGED laneVars, pc'[x][1] \notin Holders
      PROVE  MutexOK' /\ LoadedOK'
  BY <1>1, <1>2 DEF laneVars, Holders
<1>3. ASSUME NEW x \in Bikers, CountsMove(x) \/ CountsLeaving(x)
      PROVE  MutexOK' /\ LoadedOK'
  <2>1. at' = at /\ \A c \in Bikers \ {x} : pc'[c] = pc[c] /\ at'[c] = at[c]
    BY <1>3, CountsOnly
  <2>2. \A c \in Bikers \ {x} : count'[c] = count[c]
    <3>1. count' = count \/ \E v : count' = [count EXCEPT ![x] = v]
      BY <1>3 DEF CountsMove, CountsLeaving, LockLanes, CountOut, CountIn, UnlockLanes,
                  LockOff, CountOff, UnlockOff
    <3> QED BY <1>0, <3>1
  <2>3. ASSUME NEW t \in {0, 2}, LockLanes(x, t)
        PROVE  nbpl' = nbpl /\ mymtx = Free /\ Held(x)' /\ Loaded(x)'
    <3>1. pc'[x][1] = "countOut" /\ mymtx' = x /\ nbpl' = nbpl /\ mymtx = Free
      BY <2>3, GoesTo DEF LockLanes
    <3>2. count'[x] = nbpl[at[x][2]]
      BY <1>0, <2>3 DEF LockLanes
    <3> QED BY <2>1, <3>1, <3>2
  <2>4. ASSUME NEW t \in {0, 2}, CountOut(x, t)
        PROVE  pc[x][1] \in Holders /\ Held(x)' /\ Loaded(x)'
    <3>1. /\ pc[x][1] = "countOut" /\ pc'[x][1] = "countIn" /\ mymtx' = mymtx
          /\ pc[x][2] = t /\ pc'[x][2] = t
      BY <2>4, GoesTo DEF CountOut
    <3>2. count'[x] = nbpl[Entered(x)[2]] /\ nbpl' = [nbpl EXCEPT ![at[x][2]] = count[x] - 1]
      BY <1>0, <2>4 DEF CountOut
    <3>3. Entered(x)' = Entered(x) /\ Entered(x)[2] # at[x][2]
      <4>1. pc[x][2] = t /\ pc'[x][2] = t /\ at[x][2] \in Int
        BY <3>1, Parts
      <4> QED BY <2>1, <4>1 DEF Entered, NextMeter
    <3>4. nbpl'[Entered(x)[2]] = nbpl[Entered(x)[2]]
      <4>1. nbpl \in [Lanes -> 0 .. NumBikers] /\ Entered(x)[2] \in Lanes
        BY <3>1 DEF TypeOK, LanesOK, Crossing, Cleared, Entered
      <4> QED BY <3>2, <3>3, <4>1
    <3>5. Held(x)
      BY DEF MutexOK
    <3>6. pc[x][1] = "countOut" /\ pc'[x][1] = "countIn"
      BY <3>1
    <3>7. pc[x][1] \in Holders /\ mymtx' = x
      BY <3>1, <3>5, <3>6 DEF Holders
    <3>8. count'[x] = nbpl'[Entered(x)'[2]]
      BY <3>2, <3>3, <3>4
    <3> QED BY <3>6, <3>7, <3>8
  <2>5. ASSUME NEW t \in {0, 2}, CountIn(x, t)
        PROVE  pc[x][1] \in Holders /\ Held(x)' /\ Loaded(x)'
    <3>1. pc[x] = <<"countIn", t>> /\ pc'[x] = <<"unlock", t>> /\ mymtx' = mymtx
      BY <2>5, GoesTo DEF CountIn
    <3> QED BY <3>1 DEF MutexOK, Holders
  <2>6. ASSUME NEW t \in {0, 2}, UnlockLanes(x, t)
        PROVE  pc[x][1] \in Holders /\ Held(x)' /\ Loaded(x)'
    <3>1. pc[x] = <<"unlock", t>> /\ pc'[x] = <<"place", t>>
      BY <2>6, GoesTo DEF UnlockLanes
    <3> QED BY <3>1 DEF Holders
  <2>7. ASSUME LockOff(x)
        PROVE  nbpl' = nbpl /\ mymtx = Free /\ Held(x)' /\ Loaded(x)'
    <3>1. pc'[x][1] = "countOff" /\ mymtx' = x /\ nbpl' = nbpl /\ mymtx = Free
      BY <2>7, GoesTo DEF LockOff
    <3>2. count'[x] = nbpl[at[x][2]]
      BY <1>0, <2>7 DEF LockOff
    <3> QED BY <2>1, <3>1, <3>2
  <2>8. ASSUME CountOff(x)
        PROVE  pc[x][1] \in Holders /\ Held(x)' /\ Loaded(x)'
    <3>1. pc[x][1] = "countOff" /\ pc'[x][1] = "unlockOff" /\ mymtx' = mymtx
      BY <2>8, GoesTo DEF CountOff
    <3> QED BY <3>1 DEF MutexOK, Holders
  <2>9. ASSUME UnlockOff(x)
        PROVE  pc[x][1] \in Holders /\ Held(x)' /\ Loaded(x)'
    <3>1. pc[x][1] = "unlockOff" /\ pc'[x][1] = "quit"
      BY <2>9, GoesTo DEF UnlockOff
    <3> QED BY <3>1 DEF Holders
  <2>10. /\ pc[x][1] \in Holders \/ (nbpl' = nbpl /\ mymtx \in {Free, mymtx'})
         /\ Held(x)' /\ Loaded(x)'
    <3> HIDE DEF Held, Loaded
    <3> QED BY <1>3, <2>3, <2>4, <2>5, <2>6, <2>7, <2>8, <2>9 DEF CountsMove, CountsLeaving
  <2> QED BY <1>1, <2>1, <2>2, <2>10
<1>4. ASSUME NEW x \in Bikers, Prepares(x) \/ Done(x) \/ LapEnd(x) \/ LeaveRoad(x) \/ Settle(x)
      PROVE  MutexOK' /\ LoadedOK'
  BY <1>2, <1>4, PreparesInPlace, DoneRound, LapEnds, LeavesRoad, SettleRound
     DEF Riding, Crossing, Cleared, Holders
<1>5. ASSUME NEW x \in Bikers, NEW t \in 0 .. 2,
             (Enter(x, t) /\ road[Entered(x)] = Free) \/ Vacate(x, t) \/ Place(x, t)
      PROVE  MutexOK' /\ LoadedOK'
  BY <1>2, <1>5, EnterCell, VacateCell, PlaceBiker DEF Holders
<1>6. ASSUME Barr \/ Classify
      PROVE  MutexOK' /\ LoadedOK'
  BY <1>6, BarrOpens, ClassifyRound DEF MutexOK, LoadedOK, Holders
<1>7. ASSUME UNCHANGED vars
      PROVE  MutexOK' /\ LoadedOK'
  BY <1>7 DEF vars, laneVars, placeVars, MutexOK, LoadedOK, Entered, NextMeter
<1> QED
  BY <1>3, <1>4, <1>5, <1>6, <1>7, Steps

LEMMA CountStep ==
    ASSUME TypeOK, LanesOK, LoadedOK, LaneCountsExact, [Next]_vars
    PROVE  LaneCountsExact' /\ nbpl' \in [Lanes -> 0 .. NumBikers]
<1>1. SUFFICES /\ \A l \in Lanes : nbpl'[l] = Cardinality(InLane(l)')
               /\ nbpl' = [l \in Lanes |-> nbpl'[l]]
  <2>1. \A l \in Lanes : InLane(l)' \in SUBSET Bikers
    BY DEF InLane
  <2>2. \A l \in Lanes : Cardinality(InLane(l)') \in 0 .. NumBikers
    BY <2>1, BikersFinite
  <2>3. \A l \in Lanes : nbpl'[l] \in 0 .. NumBikers
    BY <2>2
  <2>4. nbpl' \in [Lanes -> 0 .. NumBikers]
    BY <2>3
  <2>5. LaneCountsExact'
    BY DEF LaneCountsExact, InLane
  <2> QED BY <2>4, <2>5
<1>2. \A l \in Lanes : /\ nbpl[l] = Cardinality(InLane(l)) /\ InLane(l) \in SUBSET Bikers
                       /\ Cardinality(InLane(l)) \in Int
  BY BikersFinite DEF LaneCountsExact, InLane
<1>3. nbpl \in [Lanes -> 0 .. NumBikers] /\ Lanes \subseteq Int
  BY DEF TypeOK, Lanes
<1> DEFINE Exact == /\ \A l \in Lanes : nbpl'[l] = Cardinality(InLane(l)')
                    /\ nbpl' = [l \in Lanes |-> nbpl'[l]]
\* A step that writes no count leaves everyone counted where it is.
<1>4. ASSUME nbpl' = nbpl, \A c \in Bikers : \A l \in Lanes : CountedIn(l, c)' <=> CountedIn(l, c)
      PROVE  Exact
  BY <1>2, <1>3, <1>4 DEF InLane
<1>5. ASSUME NEW x \in Bikers, \A c \in Bikers \ {x} : pc'[c] = pc[c] /\ at'[c] = at[c]
      PROVE  \A c \in Bikers \ {x} : \A l \in Lanes : CountedIn(l, c)' <=> CountedIn(l, c)
  <2> SUFFICES ASSUME NEW c \in Bikers \ {x}, NEW l \in Lanes
               PROVE  CountedIn(l, c)' <=> CountedIn(l, c)
    OBVIOUS
  <2>1. pc'[c] = pc[c] /\ at'[c] = at[c]
    BY <1>5
  <2> QED BY <2>1 DEF CountedIn, Entered, NextMeter
\* One that writes a count takes one biker out of a lane ...
<1>6. ASSUME NEW x \in Bikers, NEW l0 \in Lanes,
             \A c \in Bikers \ {x} : pc'[c] = pc[c] /\ at'[c] = at[c],
             nbpl' = [nbpl EXCEPT ![l0] = nbpl[l0] - 1],
             \A l \in Lanes : (CountedIn(l, x) <=> l = l0) /\ ~CountedIn(l, x)'
      PROVE  Exact
  <2>1. \A l \in Lanes : InLane(l)' = IF l = l0 THEN InLane(l) \ {x} ELSE InLane(l)
    BY <1>5, <1>6 DEF InLane
  <2>2. x \in InLane(l0)
    BY <1>6 DEF InLane
  <2>3. Cardinality(InLane(l0) \ {x}) = Cardinality(InLane(l0)) - 1
    BY <1>2, <2>2, OneInLane
  <2> QED BY <1>2, <1>3, <1>6, <2>1, <2>3
\* ... or puts one into it.
<1>16. ASSUME NEW x \in Bikers, NEW l0 \in Lanes,
              \A c \in Bikers \ {x} : pc'[c] = pc[c] /\ at'[c] = at[c],
              nbpl' = [nbpl EXCEPT ![l0] = nbpl[l0] + 1],
              \A l \in Lanes : ~CountedIn(l, x) /\ (CountedIn(l, x)' <=> l = l0)
       PROVE  Exact
  <2>1. \A l \in Lanes : InLane(l)' = IF l = l0 THEN InLane(l) \union {x} ELSE InLane(l)
    BY <1>5, <1>16 DEF InLane
  <2>2. x \notin InLane(l0)
    BY <1>16 DEF InLane
  <2>3. Cardinality(InLane(l0) \union {x}) = Cardinality(InLane(l0)) + 1
    BY <1>2, <2>2, OneInLane
  <2> QED BY <1>2, <1>3, <1>16, <2>1, <2>3
<1>7. ASSUME NEW x \in Bikers, nbpl' = nbpl, at' = at, \A c \in Bikers \ {x} : pc'[c] = pc[c],
             \/ /\ pc[x][1] \notin {"countIn", "unlock", "place"} \union (Gone \ {"lockOff", "countOff"})
                /\ pc'[x][1] \notin {"countIn", "unlock", "place"} \union (Gone \ {"lockOff", "countOff"})
             \/ pc[x][1] = "unlock" /\ pc'[x][1] = "place" /\ pc'[x][2] = pc[x][2]
             \/ pc[x][1] = "unlockOff" /\ pc'[x][1] = "quit"
      PROVE  Exact
  <2>1. \A l \in Lanes : CountedIn(l, x)' <=> CountedIn(l, x)
    BY <1>7 DEF CountedIn, Entered, NextMeter, Gone
  <2> QED BY <1>4, <1>5, <1>7, <2>1
<1>8. ASSUME NEW x \in Bikers, CountsMove(x)
      PROVE  Exact
  <2>1. at' = at /\ \A c \in Bikers \ {x} : pc'[c] = pc[c] /\ at'[c] = at[c]
    BY <1>8, CountsOnly
  <2>2. PICK t \in {0, 2} : LockLanes(x, t) \/ CountOut(x, t) \/ CountIn(x, t) \/ UnlockLanes(x, t)
    BY <1>8 DEF CountsMove
  <2>3. CASE LockLanes(x, t) \/ UnlockLanes(x, t)
    <3>1. /\ nbpl' = nbpl
          /\ \/ pc[x][1] = "lock" /\ pc'[x][1] = "countOut"
             \/ pc[x][1] = "unlock" /\ pc'[x][1] = "place" /\ pc'[x][2] = pc[x][2]
      BY <2>3, GoesTo DEF LockLanes, UnlockLanes
    <3> QED BY <1>7, <2>1, <3>1 DEF Gone
  <2> DEFINE l0 == at[x][2]
             l1 == Entered(x)[2]
  <2>4. CASE CountOut(x, t)
    <3>1. pc[x][1] = "countOut" /\ pc'[x][1] = "countIn" /\ l0 \in Lanes /\ nbpl[l0] \in Int
      BY <1>3, <2>4, GoesTo, Parts DEF CountOut
    <3>2. nbpl' = [nbpl EXCEPT ![l0] = nbpl[l0] - 1]
      BY <2>4, <3>1 DEF CountOut, LoadedOK
    <3>3. \A l \in Lanes : (CountedIn(l, x) <=> l = l0) /\ ~CountedIn(l, x)'
      BY <3>1 DEF CountedIn
    <3> HIDE DEF l0
    <3> QED BY <1>6, <2>1, <3>1, <3>2, <3>3
  <2>5. CASE CountIn(x, t)
    <3>1. pc[x][1] = "countIn" /\ pc[x][2] = t /\ pc'[x][1] = "unlock" /\ pc'[x][2] = t
      BY <2>5, GoesTo DEF CountIn
    <3>2. l1 \in Lanes
      BY <3>1 DEF LanesOK, Crossing, Cleared, Entered
    <3>3. nbpl' = [nbpl EXCEPT ![l1] = nbpl[l1] + 1]
      BY <2>5, <3>1 DEF CountIn, LoadedOK
    <3>4. Entered(x)' = Entered(x)
      BY <2>1, <3>1 DEF Entered, NextMeter
    <3>5. \A l \in Lanes : ~CountedIn(l, x) /\ (CountedIn(l, x)' <=> l = l1)
      BY <3>1, <3>4 DEF CountedIn
    <3> HIDE DEF l1
    <3> QED BY <1>16, <2>1, <3>2, <3>3, <3>5
  <2> QED BY <2>2, <2>3, <2>4, <2>5
<1>9. ASSUME NEW x \in Bikers, CountsLeaving(x)
      PROVE  Exact
  <2>1. at' = at /\ \A c \in Bikers \ {x} : pc'[c] = pc[c] /\ at'[c] = at[c]
    BY <1>9, CountsOnly
  <2>2. CASE LockOff(x) \/ UnlockOff(x)
    <3>1. /\ nbpl' = nbpl
          /\ \/ pc[x][1] = "lockOff" /\ pc'[x][1] = "countOff"
             \/ pc[x][1] = "unlockOff" /\ pc'[x][1] = "quit"
      BY <2>2, GoesTo DEF LockOff, UnlockOff
    <3> QED BY <1>7, <2>1, <3>1
  <2> DEFINE l0 == at[x][2]
  <2>3. CASE CountOff(x)
    <3>1. pc[x][1] = "countOff" /\ pc'[x][1] = "unlockOff" /\ l0 \in Lanes /\ nbpl[l0] \in Int
      BY <1>3, <2>3, GoesTo, Parts DEF CountOff
    <3>2. nbpl' = [nbpl EXCEPT ![l0] = nbpl[l0] - 1]
      BY <2>3, <3>1 DEF CountOff, LoadedOK
    <3>3. \A l \in Lanes : (CountedIn(l, x) <=> l = l0) /\ ~CountedIn(l, x)'
      BY <3>1 DEF CountedIn
    <3> HIDE DEF l0
    <3> QED BY <1>6, <2>1, <3>1, <3>2, <3>3
  <2> QED BY <1>9, <2>2, <2>3 DEF CountsLeaving
<1>10. ASSUME NEW x \in Bikers, Prepares(x) \/ Done(x) \/ Settle(x) \/ LapEnd(x) \/ LeaveRoad(x)
       PROVE  Exact
  BY <1>7, <1>10, PreparesInPlace, DoneRound, SettleRound, LapEnds, LeavesRoad
     DEF Riding, Crossing, Cleared, Gone, laneVars
<1>11. ASSUME NEW x \in Bikers, NEW t \in 0 .. 2, Enter(x, t), road[Entered(x)] = Free
       PROVE  Exact
  BY <1>7, <1>11, EnterCell DEF Gone, laneVars
<1>12. ASSUME NEW x \in Bikers, NEW t \in 0 .. 2, Vacate(x, t)
       PROVE  Exact
  <2>1. /\ pc[x] = <<"enter", t>> /\ pc'[x] = <<IF t = 1 THEN "place" ELSE "lock", t>>
        /\ at' = at /\ nbpl' = nbpl /\ \A c \in Bikers \ {x} : pc'[c] = pc[c] /\ at'[c] = at[c]
    BY <1>12, VacateCell DEF laneVars
  <2>2. CASE t # 1
    BY <1>7, <2>1, <2>2 DEF Gone
  <2>3. CASE t = 1
    <3>1. Entered(x)[2]' = at[x][2]
      BY <2>1, <2>3, Parts DEF Entered
    <3>2. \A l \in Lanes : CountedIn(l, x)' <=> CountedIn(l, x)
      BY <2>1, <2>3, <3>1 DEF CountedIn
    <3> QED BY <1>4, <1>5, <2>1, <3>2
  <2> QED BY <2>2, <2>3
<1>13. ASSUME NEW x \in Bikers, NEW t \in 0 .. 2, Place(x, t)
       PROVE  Exact
  <2>1. /\ pc[x] = <<"place", t>> /\ pc'[x] = <<"done", 1>> /\ nbpl' = nbpl
        /\ at'[x] = Entered(x) /\ \A c \in Bikers \ {x} : pc'[c] = pc[c] /\ at'[c] = at[c]
    BY <1>13, PlaceBiker DEF laneVars
  <2>2. \A l \in Lanes : CountedIn(l, x)' <=> CountedIn(l, x)
    BY <2>1 DEF CountedIn
  <2> QED BY <1>4, <1>5, <2>1, <2>2
<1>14. ASSUME Barr \/ Classify
       PROVE  Exact
  <2>1. nbpl' = nbpl /\ at' = at
    BY <1>14, BarrOpens, ClassifyRound DEF laneVars
  <2>2. \A c \in Bikers : \A l \in Lanes : CountedIn(l, c)' <=> CountedIn(l, c)
    BY <1>14, <2>1, BarrOpens, ClassifyRound DEF CountedIn
  <2> QED BY <1>4, <2>1, <2>2
<1>15. ASSUME UNCHANGED vars
       PROVE  Exact
  <2>1. nbpl' = nbpl /\ at' = at /\ pc' = pc
    BY <1>15 DEF vars
  <2> QED BY <1>4, <2>1 DEF CountedIn, Entered, NextMeter
<1> QED
  BY <1>8, <1>9, <1>10, <1>11, <1>12, <1>13, <1>14, <1>15, Steps

LEMMA LaneVarsTyped ==
    ASSUME TypeOK, LanesOK, LoadedOK, LaneCountsExact, [Next]_vars
    PROVE  /\ nbpl' \in [Lanes -> 0 .. NumBikers] /\ mymtx' \in Bikers \union {Free}
           /\ count' \in [Bikers -> 0 .. NumBikers]
<1> DEFINE Typed == mymtx' \in Bikers \union {Free} /\ count' \in [Bikers -> 0 .. NumBikers]
<1>1. /\ nbpl \in [Lanes -> 0 .. NumBikers] /\ mymtx \in Bikers \union {Free}
      /\ count \in [Bikers -> 0 .. NumBikers] /\ 0 \in 0 .. NumBikers
  BY SizeAssumption DEF TypeOK
<1>2. ASSUME UNCHANGED laneVars
      PROVE  Typed
  BY <1>1, <1>2 DEF laneVars
<1>3. ASSUME NEW x \in Bikers, CountsMove(x) \/ CountsLeaving(x)
      PROVE  Typed
  <2>1. nbpl[at[x][2]] \in 0 .. NumBikers
    BY <1>1, Parts
  <2>2. pc[x][1] = "countOut" => nbpl[Entered(x)[2]] \in 0 .. NumBikers
    BY <1>1 DEF LanesOK, Crossing, Cleared, Entered
  <2>3. \E v \in 0 .. NumBikers : count' \in {count, [count EXCEPT ![x] = v]}
    BY <1>1, <1>3, <2>1, <2>2 DEF CountsMove, CountsLeaving, LockLanes, CountOut, CountIn, UnlockLanes,
                                 LockOff, CountOff, UnlockOff
  <2>4. mymtx' \in {mymtx, x, Free}
    BY <1>3 DEF CountsMove, CountsLeaving, LockLanes, CountOut, CountIn, UnlockLanes,
                LockOff, CountOff, UnlockOff
  <2> QED BY <1>1, <2>3, <2>4
<1>4. UNCHANGED laneVars \/ \E x \in Bikers : CountsMove(x) \/ CountsLeaving(x)
  BY Steps, PreparesInPlace, EnterCell, VacateCell, PlaceBiker, DoneRound, LapEnds, LeavesRoad,
     SettleRound, BarrOpens, ClassifyRound DEF vars, placeVars, laneVars
<1> QED
  BY <1>2, <1>3, <1>4, CountStep

\* What the waiting steps do to the semaphores, in terms of the biker waited for.
LEMMA WaitVarsTyped ==
    ASSUME TypeOK, LanesOK, WaitOK, NEW b \in Bikers, Prepares(b)
    PROVE  /\ used' \in [Bikers -> [Sides -> BOOLEAN]] /\ sem' \in [Bikers -> [Sides -> BOOLEAN]]
           /\ awaited' \in [Bikers -> Bikers \union {Free}]
<1> DEFINE Typed == /\ used' \in [Bikers -> [Sides -> BOOLEAN]] /\ sem' \in [Bikers -> [Sides -> BOOLEAN]]
                    /\ awaited' \in [Bikers -> Bikers \union {Free}]
<1>1. /\ used \in [Bikers -> [Sides -> BOOLEAN]] /\ sem \in [Bikers -> [Sides -> BOOLEAN]]
      /\ awaited \in [Bikers -> Bikers \union {Free}]
  BY DEF TypeOK
<1>2. ASSUME UNCHANGED waitVars
      PROVE  Typed
  BY <1>1, <1>2 DEF waitVars
<1>3. ASSUME NEW k \in Sides, Probe(b, k)
      PROVE  Typed
  <2>1. WatchedCell(b, k) \in Cells
    BY <1>3, Parts DEF Probe, LanesOK, WatchedCell, Cells
  <2>2. road[WatchedCell(b, k)] \in Bikers \union {Free}
    BY <2>1 DEF TypeOK
  <2> DEFINE mem == road[WatchedCell(b, k)]
  <2>3. CASE mem # Free /\ ~moved[mem]
    <3>1. /\ used' = [used EXCEPT ![mem][k] = TRUE] /\ awaited' = [awaited EXCEPT ![b] = mem]
          /\ sem' = sem /\ mem \in Bikers
      BY <1>3, <2>2, <2>3 DEF Probe
    <3> HIDE DEF mem
    <3> QED BY <1>1, <3>1
  <2>4. CASE ~(mem # Free /\ ~moved[mem])
    BY <1>1, <1>3, <2>4 DEF Probe
  <2> QED BY <2>3, <2>4
<1>4. ASSUME NEW k \in Sides, Await(b, k)
      PROVE  Typed
  <2>1. awaited[b] \in Bikers
    BY <1>4 DEF Await, WaitOK
  <2> QED BY <1>1, <1>4, <2>1 DEF Await
<1> QED
  BY <1>2, <1>3, <1>4 DEF Prepares, Look, Try, See, Enter

LEMMA TypeStep ==
    ASSUME TypeOK, LanesOK, LapsOK, WaitOK, LoadedOK, LaneCountsExact, [Next]_vars
    PROVE  TypeOK' /\ LapsOK'
<1>1. /\ nbpl' \in [Lanes -> 0 .. NumBikers] /\ mymtx' \in Bikers \union {Free}
      /\ count' \in [Bikers -> 0 .. NumBikers]
  BY LaneVarsTyped
<1>2. /\ Slow \in Nat \ {0} /\ Laps \in Nat
      /\ \A i \in Int : i % Slow \in 0 .. Slow - 1
  BY SizeAssumption
<1>3. /\ pc \in [Bikers -> Stages \X Sides]
      /\ at \in [Bikers -> Meters \X Lanes]
      /\ road \in [Cells -> Bikers \union {Free}]
      /\ moved \in [Bikers -> BOOLEAN]
      /\ moveType \in [Bikers -> SUBSET {"TOP", "DOWN"}]
      /\ used \in [Bikers -> [Sides -> BOOLEAN]]
      /\ sem \in [Bikers -> [Sides -> BOOLEAN]]
      /\ awaited \in [Bikers -> Bikers \union {Free}]
      /\ par \in [Bikers -> 0 .. Slow - 1]
      /\ speed \in [Bikers -> {Slow, Medium, Fast}]
      /\ lap \in [Bikers -> -1 .. Laps]
  BY DEF TypeOK
<1> DEFINE Typed == TypeOK' /\ LapsOK'
<1>4. ASSUME NEW b \in Bikers, Prepares(b)
      PROVE  Typed
  <2>1. LapsOK'
    BY <1>4, PreparesInPlace DEF LapsOK, Riding, Crossing, Cleared, Gone
  <2> QED BY <1>1, <1>3, <1>4, <2>1, PreparesInPlace, WaitVarsTyped DEF TypeOK
<1>5. ASSUME NEW b \in Bikers, NEW t \in 0 .. 2, Enter(b, t), road[Entered(b)] = Free
      PROVE  Typed
  <2>1. LapsOK'
    BY <1>5, EnterCell DEF LapsOK, Gone
  <2>2. road' \in [Cells -> Bikers \union {Free}]
    BY <1>3, <1>5, EnterCell
  <2> QED BY <1>1, <1>3, <1>5, <2>1, <2>2, EnterCell DEF TypeOK
<1>6. ASSUME NEW b \in Bikers, NEW t \in 0 .. 2, Vacate(b, t)
      PROVE  Typed
  <2>1. LapsOK'
    BY <1>6, VacateCell DEF LapsOK, Gone
  <2>2. road' \in [Cells -> Bikers \union {Free}]
    BY <1>3, <1>6, VacateCell
  <2> QED BY <1>1, <1>3, <1>6, <2>1, <2>2, VacateCell DEF TypeOK
<1>7. ASSUME NEW b \in Bikers, NEW t \in 0 .. 2, Place(b, t)
      PROVE  Typed
  <2>1. LapsOK'
    BY <1>7, PlaceBiker DEF LapsOK, Gone
  <2> QED BY <1>1, <1>3, <1>7, <2>1, PlaceBiker DEF TypeOK
<1>8. ASSUME NEW b \in Bikers, Done(b)
      PROVE  Typed
  <2>1. LapsOK'
    BY <1>8, DoneRound DEF LapsOK, Gone
  <2>2. par[b] \in 0 .. Slow - 1
    BY <1>3
  <2>3. (par[b] + 1) % Slow \in 0 .. Slow - 1
    BY <1>2, <2>2
  <2>4. /\ par' = [par EXCEPT ![b] = (@ + 1) % Slow] /\ sem' = [sem EXCEPT ![b] = [k \in Sides |-> TRUE]]
        /\ moveType' = [moveType EXCEPT ![b] = {"TOP", "DOWN"}] /\ moved' = [moved EXCEPT ![b] = TRUE]
    BY <1>8, DoneRound
  <2>5. par' \in [Bikers -> 0 .. Slow - 1]
    BY <1>3, <2>3, <2>4
  <2>6. /\ sem' \in [Bikers -> [Sides -> BOOLEAN]] /\ moved' \in [Bikers -> BOOLEAN]
        /\ moveType' \in [Bikers -> SUBSET {"TOP", "DOWN"}]
    BY <1>3, <2>4
  <2> QED BY <1>1, <1>3, <1>8, <2>1, <2>5, <2>6, DoneRound DEF TypeOK
<1>9. ASSUME NEW b \in Bikers, LapEnd(b)
      PROVE  Typed
  <2>1. lap[b] \in -1 .. Laps /\ lap[b] < Laps
    BY <1>3, <1>9, LapEnds DEF LapsOK, Gone
  <2>0. lap' = [lap EXCEPT ![b] = @ + 1] /\ par' = [par EXCEPT ![b] = 1 % Slow] /\ 1 % Slow \in 0 .. Slow - 1
    BY <1>2, <1>9, LapEnds
  <2>2. lap' \in [Bikers -> -1 .. Laps] /\ lap'[b] = lap[b] + 1
    <3>1. lap[b] + 1 \in -1 .. Laps
      BY <1>2, <2>1
    <3> QED BY <1>3, <2>0, <3>1
  <2>3. \A c \in Bikers \ {b} : lap'[c] = lap[c] /\ pc'[c] = pc[c]
    BY <1>3, <1>9, LapEnds
  <2>4. pc'[b][1] = "leave" \/ lap'[b] < Laps
    BY <1>2, <1>9, <2>1, <2>2, LapEnds
  <2>5. LapsOK'
    BY <2>3, <2>4 DEF LapsOK
  <2>6. par' \in [Bikers -> 0 .. Slow - 1]
    BY <1>3, <2>0
  <2>7. NewSpeeds(b) \union {speed[b]} \subseteq {Slow, Medium, Fast}
    BY <1>3 DEF NewSpeeds
  <2>8. speed' \in [Bikers -> {Slow, Medium, Fast}]
    BY <1>3, <1>9, <2>7 DEF LapEnd
  <2> QED BY <1>1, <1>3, <1>9, <2>2, <2>5, <2>6, <2>8, LapEnds DEF TypeOK
<1>14. ASSUME NEW b \in Bikers, LeaveRoad(b)
       PROVE  Typed
  <2>1. LapsOK'
    BY <1>14, LeavesRoad DEF LapsOK, Gone
  <2>2. at[b] \in Cells
    BY Parts
  <2>3. road' \in [Cells -> Bikers \union {Free}]
    BY <1>3, <1>14, <2>2, LeavesRoad
  <2> QED BY <1>1, <1>3, <1>14, <2>1, <2>3, LeavesRoad DEF TypeOK
<1>15. ASSUME NEW b \in Bikers, CountsMove(b) \/ CountsLeaving(b)
       PROVE  Typed
  <2>1. LapsOK'
    BY <1>15, CountsOnly DEF LapsOK, Cleared, Gone
  <2> QED BY <1>1, <1>3, <1>15, <2>1, CountsOnly DEF TypeOK
<1>10. ASSUME NEW b \in Bikers, Settle(b)
       PROVE  Typed
  <2>1. LapsOK'
    BY <1>10, SettleRound DEF LapsOK, Gone
  <2>2. /\ used' \in [Bikers -> [Sides -> BOOLEAN]] /\ sem' \in [Bikers -> [Sides -> BOOLEAN]]
        /\ moved' \in [Bikers -> BOOLEAN]
    <3>1. /\ sem' = [sem EXCEPT ![b] = [k \in Sides |-> used[b][k] /\ sem[b][k]]]
          /\ used' = [used EXCEPT ![b] = [k \in Sides |-> FALSE]]
          /\ moved' = [moved EXCEPT ![b] = par[b] % speed[b] # 0]
      BY <1>10, SettleRound
    <3>2. [k \in Sides |-> used[b][k] /\ sem[b][k]] \in [Sides -> BOOLEAN]
      OBVIOUS
    <3> QED BY <1>3, <3>1, <3>2
  <2> QED BY <1>1, <1>3, <1>10, <2>1, <2>2, SettleRound DEF TypeOK
<1>11. ASSUME Barr
       PROVE  Typed
  <2>1. LapsOK'
    BY <1>11, BarrOpens DEF LapsOK, Gone
  <2> QED BY <1>1, <1>3, <1>11, <2>1, BarrOpens DEF TypeOK
<1>12. ASSUME Classify
       PROVE  Typed
  <2>1. LapsOK'
    BY <1>12, ClassifyRound DEF LapsOK, Gone
  <2>2. \A big : \A l \in Lanes : LaneMoves(big)[l] \in SUBSET {"TOP", "DOWN"}
    BY DEF LaneMoves
  <2>3. moveType' \in [Bikers -> SUBSET {"TOP", "DOWN"}]
    BY <1>3, <1>12, <2>2, Parts DEF Classify
  <2> QED BY <1>1, <1>3, <1>12, <2>1, <2>3, ClassifyRound DEF TypeOK
<1>13. ASSUME UNCHANGED vars
       PROVE  Typed
  BY <1>13 DEF vars, TypeOK, LapsOK
<1> QED
  BY <1>4, <1>5, <1>6, <1>7, <1>8, <1>9, <1>10, <1>11, <1>12, <1>13, <1>14, <1>15, Steps

-----------------------------------------------------------------------------
(* The round and its phases. *)

LEMMA PhaseStep ==
    ASSUME TypeOK, LanesOK, PhaseOK, [Next]_vars
    PROVE  PhaseOK'
<1>1. ASSUME NEW b \in Bikers, \A c \in Bikers \ {b} : pc'[c] = pc[c],
             pc[b][1] \notin {"settle", "ready", "out"}, pc'[b][1] \notin {"settle", "ready"}
      PROVE  PhaseOK'
  BY <1>1 DEF PhaseOK
<1>2. ASSUME NEW b \in Bikers, \/ Prepares(b) \/ CountsMove(b) \/ CountsLeaving(b)
                               \/ Done(b) \/ LapEnd(b) \/ LeaveRoad(b)
      PROVE  PhaseOK'
  BY <1>1, <1>2, PreparesInPlace, CountsOnly, DoneRound, LapEnds, LeavesRoad
     DEF Riding, Crossing, Cleared, Gone
<1>3. ASSUME NEW b \in Bikers, NEW t \in 0 .. 2,
             (Enter(b, t) /\ road[Entered(b)] = Free) \/ Vacate(b, t) \/ Place(b, t)
      PROVE  PhaseOK'
  BY <1>1, <1>3, EnterCell, VacateCell, PlaceBiker DEF Cleared
<1>4. ASSUME NEW b \in Bikers, Settle(b)
      PROVE  PhaseOK'
  BY <1>4, SettleRound DEF PhaseOK
<1>5. ASSUME Barr \/ Classify \/ UNCHANGED vars
      PROVE  PhaseOK'
  BY <1>5, BarrOpens, ClassifyRound DEF PhaseOK, vars
<1> QED
  BY <1>2, <1>3, <1>4, <1>5, Steps

LEMMA MovedStep ==
    ASSUME TypeOK, LanesOK, MovedOK, [Next]_vars
    PROVE  MovedOK'
<1>0. moved \in [Bikers -> BOOLEAN]
  BY DEF TypeOK
<1>1. ASSUME NEW b \in Bikers, \A c \in Bikers \ {b} : pc'[c] = pc[c] /\ (moved'[c] <=> moved[c]),
             \A c \in Bikers \ {b} : par'[c] = par[c] /\ speed'[c] = speed[c],
             \/ pc'[b][1] \in Riding /\ ~moved'[b]
             \/ pc'[b][1] \in Ended /\ moved'[b]
             \/ pc'[b][1] = "ready" /\ (moved'[b] <=> par'[b] % speed'[b] # 0)
             \/ pc'[b][1] = "done"
      PROVE  MovedOK'
  <2>1. /\ pc'[b][1] \in Riding => ~moved'[b]
        /\ pc'[b][1] \in Ended => moved'[b]
        /\ pc'[b][1] = "ready" => (moved'[b] <=> par'[b] % speed'[b] # 0)
    BY <1>1 DEF Riding, Ended, Crossing, Cleared, Gone
  <2>2. ASSUME NEW c \in Bikers \ {b}
        PROVE  /\ pc'[c][1] \in Riding => ~moved'[c]
               /\ pc'[c][1] \in Ended => moved'[c]
               /\ pc'[c][1] = "ready" => (moved'[c] <=> par'[c] % speed'[c] # 0)
    BY <1>1 DEF MovedOK
  <2> QED BY <2>1, <2>2 DEF MovedOK
<1>2. ASSUME NEW b \in Bikers, Prepares(b)
      PROVE  MovedOK'
  <2>1. pc[b][1] \in Riding /\ pc'[b][1] \in Riding \union {"done"} /\ moved' = moved /\ par' = par /\ speed' = speed
    BY <1>2, PreparesInPlace
  <2>2. ~moved[b]
    BY <2>1 DEF MovedOK
  <2> QED BY <1>1, <1>2, <2>1, <2>2, PreparesInPlace
<1>3. ASSUME NEW b \in Bikers, NEW t \in 0 .. 2,
             (Enter(b, t) /\ road[Entered(b)] = Free) \/ Vacate(b, t)
      PROVE  MovedOK'
  <2>1. /\ pc[b][1] \in Riding /\ pc'[b][1] \in Riding /\ moved' = moved /\ par' = par /\ speed' = speed
        /\ \A c \in Bikers \ {b} : pc'[c] = pc[c]
    BY <1>3, EnterCell, VacateCell DEF Riding, Crossing
  <2>2. ~moved[b]
    BY <2>1 DEF MovedOK
  <2> QED BY <1>1, <2>1, <2>2
<1>4. ASSUME NEW b \in Bikers, NEW t \in 0 .. 2, Place(b, t)
      PROVE  MovedOK'
  <2>1. /\ pc'[b][1] = "done" /\ moved' = [moved EXCEPT ![b] = TRUE] /\ par' = par /\ speed' = speed
        /\ \A c \in Bikers \ {b} : pc'[c] = pc[c]
    BY <1>4, PlaceBiker
  <2>2. \A c \in Bikers \ {b} : moved'[c] <=> moved[c]
    BY <1>0, <2>1
  <2> QED BY <1>1, <2>1, <2>2
<1>5. ASSUME NEW b \in Bikers, Done(b)
      PROVE  MovedOK'
  <2>1. /\ pc'[b][1] \in {"lap", "barr"} /\ moved' = [moved EXCEPT ![b] = TRUE] /\ speed' = speed
        /\ par' = [par EXCEPT ![b] = (@ + 1) % Slow]
        /\ \A c \in Bikers \ {b} : pc'[c] = pc[c]
    BY <1>5, DoneRound
  <2>4. pc'[b][1] \in Ended
    BY <2>1 DEF Ended
  <2>2. moved'[b] /\ \A c \in Bikers \ {b} : (moved'[c] <=> moved[c])
    BY <1>0, <2>1
  <2>3. \A c \in Bikers \ {b} : par'[c] = par[c]
    BY <2>1 DEF TypeOK
  <2> QED BY <1>1, <2>1, <2>2, <2>3, <2>4
<1>6. ASSUME NEW b \in Bikers, LapEnd(b)
      PROVE  MovedOK'
  <2>1. /\ pc[b][1] \in Ended /\ pc'[b][1] \in Ended /\ moved' = moved
        /\ \A c \in Bikers \ {b} : pc'[c] = pc[c]
    BY <1>6, LapEnds DEF Ended
  <2>2. \A c \in Bikers \ {b} : par'[c] = par[c] /\ speed'[c] = speed[c]
    BY <1>6 DEF LapEnd, TypeOK
  <2>3. moved[b]
    BY <2>1 DEF MovedOK
  <2> QED BY <1>1, <2>1, <2>2, <2>3
<1>11. ASSUME NEW b \in Bikers, LeaveRoad(b) \/ CountsMove(b) \/ CountsLeaving(b)
       PROVE  MovedOK'
  <2>1. /\ \/ pc[b][1] \in Riding /\ pc'[b][1] \in Riding
           \/ pc[b][1] \in Ended /\ pc'[b][1] \in Ended
        /\ moved' = moved /\ par' = par /\ speed' = speed
        /\ \A c \in Bikers \ {b} : pc'[c] = pc[c]
    BY <1>11, LeavesRoad, CountsOnly DEF Riding, Crossing, Ended
  <2>2. (pc[b][1] \in Riding => ~moved[b]) /\ (pc[b][1] \in Ended => moved[b])
    BY DEF MovedOK
  <2> QED BY <1>1, <2>1, <2>2
<1>7. ASSUME NEW b \in Bikers, Settle(b)
      PROVE  MovedOK'
  <2>1. /\ pc'[b][1] = "ready" /\ moved' = [moved EXCEPT ![b] = par[b] % speed[b] # 0]
        /\ par' = par /\ speed' = speed
        /\ \A c \in Bikers \ {b} : pc'[c] = pc[c]
    BY <1>7, SettleRound
  <2>2. (moved'[b] <=> par[b] % speed[b] # 0) /\ \A c \in Bikers \ {b} : (moved'[c] <=> moved[c])
    BY <1>0, <2>1
  <2> QED BY <1>1, <2>1, <2>2
<1>8. ASSUME Barr
      PROVE  MovedOK'
  <2>1. \A b \in Bikers : moved[b] /\ pc'[b][1] \in {"settle", "out"} /\ moved' = moved
    BY <1>8, BarrOpens DEF MovedOK, Ended, Gone
  <2> QED BY <2>1 DEF MovedOK, Riding, Crossing, Cleared
<1>9. ASSUME Classify
      PROVE  MovedOK'
  <2>1. ASSUME NEW b \in Bikers
        PROVE  /\ moved' = moved
               /\ \/ pc'[b][1] = "out" /\ moved[b]
                  \/ pc'[b][1] = "look" /\ ~moved[b]
                  \/ pc'[b][1] = "done"
    BY <1>9, ClassifyRound DEF MovedOK, Ended, Gone
  <2> QED BY <2>1 DEF MovedOK, Riding, Crossing, Cleared, Ended, Gone
<1>10. ASSUME UNCHANGED vars
       PROVE  MovedOK'
  BY <1>10 DEF vars, MovedOK
<1> QED
  BY <1>2, <1>3, <1>4, <1>5, <1>6, <1>7, <1>8, <1>9, <1>10, <1>11, Steps

LEMMA LanesStep ==
    ASSUME TypeOK, LanesOK, RoadMatchesBikers, [Next]_vars
    PROVE  LanesOK'
<1> DEFINE Fine(b) == /\ pc[b] # <<"look", 1>>
                      /\ pc[b][1] = "probe" => WatchedLane(b, pc[b][2]) \in Lanes
                      /\ pc[b][1] \in {"try", "see", "move"} \union Crossing => pc[b][2] \in 0 .. 2
                      /\ pc[b][1] \in {"see", "move"} \union Crossing => at[b][2] + pc[b][2] - 1 \in Lanes
                      /\ pc[b][1] \in Crossing => Entered(b) # at[b]
<1>1. ASSUME NEW b \in Bikers, \A c \in Bikers \ {b} : pc'[c] = pc[c] /\ at'[c] = at[c], Fine(b)'
      PROVE  LanesOK'
  <2>1. ASSUME NEW c \in Bikers \ {b} PROVE Fine(c)'
    <3>1. pc'[c] = pc[c] /\ at'[c] = at[c] /\ Fine(c)
      BY <1>1 DEF LanesOK
    <3> QED BY <3>1 DEF WatchedLane, Entered, NextMeter
  <2> QED BY <1>1, <2>1 DEF LanesOK
<1>2. ASSUME NEW b \in Bikers, \A c \in Bikers \ {b} : pc'[c] = pc[c] /\ at'[c] = at[c],
             pc'[b][1] \notin {"look", "probe", "try", "see", "move"} \union Crossing
      PROVE  LanesOK'
  BY <1>1, <1>2
<1>3. ASSUME NEW b \in Bikers, NEW k \in Sides, Look(b, k) \/ Probe(b, k) \/ Await(b, k)
      PROVE  Fine(b)'
  <2>1. at' = at /\ at[b][2] \in Lanes /\ at[b][2] \in Int
    BY <1>3, Parts DEF Look, Probe, Await, placeVars
  <2>2. \/ pc'[b] = <<"probe", k>> /\ WatchedLane(b, k) \in Lanes
        \/ pc'[b] = <<"await", k>>
        \/ pc'[b] = IF k = 3 THEN <<"try", 0>> ELSE IF k = 0 THEN <<"probe", 1>> ELSE <<"look", k + 1>>
    BY <1>3, GoesTo, AfterWaitGoes DEF Look, Probe, Await, Open, Exists
  <2>3. CASE pc'[b] = <<"probe", k>> /\ WatchedLane(b, k) \in Lanes
    BY <2>1, <2>3 DEF WatchedLane, Crossing, Cleared
  <2>4. CASE pc'[b] = <<"probe", 1>>
    BY <2>1, <2>4 DEF WatchedLane, Crossing, Cleared
  <2>5. CASE pc'[b] \in {<<"await", k>>, <<"look", 2>>, <<"look", 3>>, <<"try", 0>>}
    BY <2>5 DEF Crossing, Cleared
  <2> QED BY <2>2, <2>3, <2>4, <2>5 DEF Sides
<1>4. ASSUME NEW b \in Bikers, NEW t \in 0 .. 2,
             Try(b, t) \/ See(b, t) \/ (Enter(b, t) /\ road[Entered(b)] # Free)
      PROVE  Fine(b)'
  <2>1. at' = at /\ at[b][2] \in Lanes /\ at[b][2] \in Int
    BY <1>4, Parts DEF Try, See, Enter, placeVars
  <2>2. \/ pc'[b] = <<"see", t>> /\ at[b][2] + t - 1 \in Lanes
        \/ pc'[b] = <<"move", t>> /\ at[b][2] + t - 1 \in Lanes
        \/ AfterTry(b, t)
    <3>1. CASE Try(b, t)
      BY <3>1, GoesTo DEF Try, Open, Exists
    <3>2. CASE See(b, t)
      <4>1. at[b][2] + t - 1 \in Lanes
        BY <3>2 DEF See, LanesOK
      <4> QED BY <3>2, <4>1, GoesTo DEF See
    <3>3. CASE Enter(b, t) /\ road[Entered(b)] # Free
      BY <3>3 DEF Enter
    <3> QED BY <1>4, <3>1, <3>2, <3>3
  <2>3. CASE pc'[b] \in {<<"see", t>>, <<"move", t>>} /\ at[b][2] + t - 1 \in Lanes
    BY <2>1, <2>3 DEF Crossing, Cleared
  <2>4. CASE AfterTry(b, t)
    <3>1. pc'[b] = IF t = 2 THEN <<"done", 0>> ELSE IF t = 0 THEN <<"move", 1>> ELSE <<"try", 2>>
      BY <2>4, AfterTryGoes
    <3> QED BY <2>1, <3>1 DEF Crossing, Cleared
  <2> QED BY <2>2, <2>3, <2>4
<1>5. ASSUME NEW b \in Bikers, Prepares(b)
      PROVE  LanesOK'
  <2>1. Fine(b)'
    BY <1>3, <1>4, <1>5 DEF Prepares
  <2> QED BY <1>1, <1>5, <2>1, PreparesInPlace
<1>6. ASSUME NEW b \in Bikers, NEW t \in 0 .. 2, Enter(b, t), road[Entered(b)] = Free
      PROVE  LanesOK'
  <2>1. pc[b] = <<"move", t>> /\ pc'[b] = <<"enter", t>> /\ at' = at
    BY <1>6, EnterCell
  <2>2. at[b] \in CellsOf(b) /\ at[b] \in Cells
    BY <2>1, CellsByStage, Parts DEF Cleared, Gone
  <2>3. Entered(b) # at[b]
    BY <1>6, <2>2 DEF RoadMatchesBikers, Free, Bikers
  <2>4. Entered(b)' # at'[b] /\ at[b][2] + t - 1 \in Lanes
    BY <2>1, <2>3 DEF Entered, NextMeter, LanesOK
  <2>5. Fine(b)'
    BY <2>1, <2>4 DEF Crossing, Cleared
  <2> QED BY <1>1, <1>6, <2>5, EnterCell
<1>7. ASSUME NEW b \in Bikers, CountsMove(b) \/ \E t \in 0 .. 2 : Vacate(b, t)
      PROVE  LanesOK'
  <2>1. /\ pc[b][1] \in Crossing /\ pc'[b][1] \in Cleared /\ pc'[b][2] = pc[b][2] /\ at' = at
        /\ \A c \in Bikers \ {b} : pc'[c] = pc[c]
    <3>1. CASE CountsMove(b)
      <4>1. pc[b][1] \notin Gone
        BY <3>1 DEF CountsMove, LockLanes, CountOut, CountIn, UnlockLanes, Gone
      <4> QED BY <3>1, <4>1, CountsOnly DEF Crossing
    <3>2. CASE \E t \in 0 .. 2 : Vacate(b, t)
      BY <3>2, VacateCell DEF Crossing
    <3> QED BY <1>7, <3>1, <3>2
  <2>2. /\ at[b][2] + pc[b][2] - 1 \in Lanes /\ Entered(b) # at[b] /\ pc[b][2] \in 0 .. 2
        /\ Entered(b)' = Entered(b)
    BY <2>1 DEF Entered, NextMeter, LanesOK
  <2>3. Fine(b)'
    BY <2>1, <2>2 DEF Cleared
  <2> QED BY <1>1, <2>1, <2>3
<1>8. ASSUME NEW b \in Bikers, \/ Done(b) \/ LapEnd(b) \/ LeaveRoad(b) \/ CountsLeaving(b) \/ Settle(b)
                               \/ \E t \in 0 .. 2 : Place(b, t)
      PROVE  LanesOK'
  <2>1. CASE CountsLeaving(b)
    <3>1. pc[b][1] \notin Cleared
      BY <2>1 DEF CountsLeaving, LockOff, CountOff, UnlockOff, Cleared
    <3> QED BY <1>2, <2>1, <3>1, CountsOnly DEF Crossing, Cleared, Gone
  <2>2. CASE Done(b) \/ LapEnd(b) \/ LeaveRoad(b) \/ Settle(b) \/ \E t \in 0 .. 2 : Place(b, t)
    BY <1>2, <2>2, DoneRound, LapEnds, LeavesRoad, SettleRound, PlaceBiker DEF Crossing, Cleared
  <2> QED BY <1>8, <2>1, <2>2
<1>9. ASSUME Barr \/ Classify
      PROVE  LanesOK'
  BY <1>9, BarrOpens, ClassifyRound DEF LanesOK, Crossing, Cleared
<1>10. ASSUME UNCHANGED vars
       PROVE  LanesOK'
  BY <1>10 DEF vars, LanesOK, WatchedLane, Entered, NextMeter
<1> QED
  BY <1>5, <1>6, <1>7, <1>8, <1>9, <1>10, Steps

-----------------------------------------------------------------------------
(* Waiting for the bikers in the way. *)

\* The probe finds a biker that has still to move.
Finds(b, k, mem) ==
    /\ pc[b] = <<"probe", k>> /\ ~Locked(ProbeCell(b, k))
    /\ WatchedCell(b, k) \in Cells /\ road[WatchedCell(b, k)] = mem /\ ~moved[mem]
    /\ used' = [used EXCEPT ![mem][k] = TRUE]
    /\ awaited' = [awaited EXCEPT ![b] = mem] /\ awaited'[b] = mem
    /\ sem' = sem
    /\ pc'[b] = <<"await", k>>

LEMMA ProbeKinds ==
    ASSUME TypeOK, LanesOK, NEW b \in Bikers, NEW k \in Sides, Probe(b, k)
    PROVE  \/ \E mem \in Bikers : Finds(b, k, mem)
           \/ /\ UNCHANGED waitVars /\ AfterWait(b, k)
              /\ WatchedCell(b, k) \in Cells /\ ~Locked(ProbeCell(b, k))
              /\ \/ road[WatchedCell(b, k)] = Free
                 \/ /\ road[WatchedCell(b, k)] \in Bikers
                    /\ moved[road[WatchedCell(b, k)]]
<1>1. WatchedCell(b, k) \in Cells
  BY Parts DEF Probe, LanesOK, WatchedCell, Cells
<1>2. road[WatchedCell(b, k)] \in Bikers \union {Free}
  BY <1>1 DEF TypeOK
<1> DEFINE mem == road[WatchedCell(b, k)]
<1>3. CASE mem # Free /\ ~moved[mem]
  <2>1. Goes(b, "await", k) /\ awaited' = [awaited EXCEPT ![b] = mem] /\ mem \in Bikers
    BY <1>2, <1>3 DEF Probe
  <2>2. pc'[b] = <<"await", k>>
    BY <2>1, GoesTo
  <2>3. awaited'[b] = mem
    BY <2>1 DEF TypeOK
  <2>4. Finds(b, k, mem)
    BY <1>1, <1>3, <2>1, <2>2, <2>3 DEF Probe, Finds
  <2> QED BY <2>1, <2>4
<1>4. CASE ~(mem # Free /\ ~moved[mem])
  BY <1>1, <1>2, <1>4 DEF Probe, waitVars
<1> QED
  BY <1>3, <1>4

LEMMA PreparesKinds ==
    ASSUME TypeOK, LanesOK, NEW b \in Bikers, Prepares(b)
    PROVE  \/ UNCHANGED waitVars /\ pc[b][1] # "await" /\ pc'[b][1] # "await"
           \/ \E k \in Sides : \E mem \in Bikers : Finds(b, k, mem)
           \/ \E k \in Sides : Await(b, k)
<1>1. ASSUME NEW k \in Sides, AfterWait(b, k)
      PROVE  pc'[b][1] # "await"
  <2>1. pc'[b] \in {<<"try", 0>>, <<"probe", 1>>, <<"look", k + 1>>}
    BY <1>1, AfterWaitGoes
  <2> QED BY <2>1
<1>2. ASSUME NEW t \in 0 .. 2, AfterTry(b, t)
      PROVE  pc'[b][1] # "await"
  BY <1>2, AfterTryGoes
<1>3. ASSUME NEW k \in Sides, Look(b, k)
      PROVE  UNCHANGED waitVars /\ pc[b][1] # "await" /\ pc'[b][1] # "await"
  BY <1>1, <1>3, GoesTo DEF Look
<1>4. ASSUME NEW k \in Sides, Probe(b, k)
      PROVE  \/ \E mem \in Bikers : Finds(b, k, mem)
             \/ UNCHANGED waitVars /\ pc[b][1] # "await" /\ pc'[b][1] # "await"
  <2>1. pc[b][1] # "await"
    BY <1>4 DEF Probe
  <2> QED BY <1>1, <1>4, <2>1, ProbeKinds
<1>5. ASSUME NEW t \in 0 .. 2, Try(b, t) \/ See(b, t) \/ (Enter(b, t) /\ road[Entered(b)] # Free)
      PROVE  UNCHANGED waitVars /\ pc[b][1] # "await" /\ pc'[b][1] # "await"
  BY <1>2, <1>5, GoesTo DEF Try, See, Enter
<1> QED
  BY <1>3, <1>4, <1>5 DEF Prepares

\* A biker whose semaphore is unlocked has moved, as long as anybody rides.
LEMMA UnlockedHasMoved ==
    ASSUME TypeOK, PhaseOK, MovedOK, SemOK, NEW b \in Bikers, pc[b][1] \in Riding,
           NEW m \in Bikers, NEW k \in Sides, sem[m][k]
    PROVE  moved[m] /\ ~Before(m)
<1>1. pc[m][1] \notin {"settle", "ready"}
  BY DEF PhaseOK, Riding, Crossing, Cleared
<1>2. ~Before(m)
  BY DEF SemOK
<1>3. pc[m][1] \in Stages
  BY Parts
<1>4. pc[m][1] \in Ended
  BY <1>1, <1>2, <1>3 DEF Before, Stages, Riding, Ended
<1> QED
  BY <1>2, <1>4 DEF MovedOK

\* A biker in a cell that nobody is crossing is on the road there, or has moved.
LEMMA FoundAt ==
    ASSUME TypeOK, RoadMatchesBikers, MovedOK, NEW m \in Bikers, pc[m][1] \notin Cleared
    PROVE  moved[m] \/ (at[m] \in Cells /\ road[at[m]] = m)
<1>1. at[m] \in Cells
  BY Parts
<1>2. CASE pc[m][1] \in Gone
  BY <1>2 DEF MovedOK, Ended
<1>3. CASE pc[m][1] \notin Gone
  <2>1. at[m] \in CellsOf(m)
    BY <1>3, CellsByStage
  <2> QED BY <1>1, <2>1 DEF RoadMatchesBikers
<1> QED
  BY <1>2, <1>3

LEMMA AheadStep ==
    ASSUME TypeOK, LanesOK, RoadMatchesBikers, PhaseOK, MovedOK, SemOK, WaitOK, AheadOK, [Next]_vars
    PROVE  AheadOK'
<1>0. moved \in [Bikers -> BOOLEAN] /\ at \in [Bikers -> Meters \X Lanes]
  BY DEF TypeOK
\* It is enough to look at the biker that takes a step, where the others keep
\* what they have.
<1>1. ASSUME NEW x \in Bikers,
             \A c \in Bikers \ {x} : pc'[c] = pc[c] /\ at'[c] = at[c] /\ awaited'[c] = awaited[c],
             \A c \in Bikers : moved[c] => moved'[c],
             at'[x] = at[x] \/ moved'[x],
             \A m \in Bikers : at'[m] = Ahead(x)' =>
                /\ Past(x)' => moved'[m]
                /\ pc'[x] = <<"await", 1>> => moved'[m] \/ m = awaited'[x]
      PROVE  AheadOK'
  <2>1. ASSUME NEW b \in Bikers \ {x}, NEW m \in Bikers, at'[m] = Ahead(b)'
        PROVE  /\ Past(b)' => moved'[m]
               /\ pc'[b] = <<"await", 1>> => moved'[m] \/ m = awaited'[b]
    <3>1. pc'[b] = pc[b] /\ at'[b] = at[b] /\ awaited'[b] = awaited[b] /\ (moved[m] => moved'[m])
      BY <1>1
    <3>2. Ahead(b)' = Ahead(b) /\ (Past(b)' <=> Past(b))
      BY <3>1 DEF Ahead, NextMeter, Past
    <3>3. at[m] = Ahead(b) \/ moved'[m]
      BY <1>1, <2>1, <3>2
    <3>4. CASE at[m] = Ahead(b)
      BY <3>1, <3>2, <3>4 DEF AheadOK
    <3> QED BY <3>3, <3>4
  <2> QED BY <1>1, <2>1 DEF AheadOK
\* The steps after which the biker does not watch the one ahead.
<1>2. ASSUME NEW x \in Bikers,
             \A c \in Bikers \ {x} : pc'[c] = pc[c] /\ at'[c] = at[c] /\ awaited'[c] = awaited[c],
             \A c \in Bikers : moved[c] => moved'[c],
             at'[x] = at[x] \/ moved'[x], ~Past(x)', pc'[x] # <<"await", 1>>
      PROVE  AheadOK'
  BY <1>1, <1>2
\* The steps after it has stopped to.
<1>3. ASSUME NEW x \in Bikers, Past(x), pc'[x] # <<"await", 1>>, at' = at, moved' = moved,
             \A c \in Bikers \ {x} : pc'[c] = pc[c] /\ awaited'[c] = awaited[c]
      PROVE  AheadOK'
  <2>1. Ahead(x)' = Ahead(x)
    BY <1>3 DEF Ahead, NextMeter
  <2>2. \A m \in Bikers : at'[m] = Ahead(x)' => moved'[m]
    BY <1>3, <2>1 DEF AheadOK
  <2> QED BY <1>1, <1>3, <2>2
<1>4. ASSUME NEW x \in Bikers, Prepares(x)
      PROVE  \A c \in Bikers \ {x} : pc'[c] = pc[c] /\ at'[c] = at[c] /\ awaited'[c] = awaited[c]
  <2>1. UNCHANGED awaited \/ \E v : awaited' = [awaited EXCEPT ![x] = v]
    BY <1>4, PreparesKinds DEF Finds, Await, waitVars
  <2>2. \A c \in Bikers \ {x} : awaited'[c] = awaited[c]
    BY <2>1 DEF TypeOK
  <2> QED BY <1>4, <2>2, PreparesInPlace
<1>5. ASSUME NEW x \in Bikers, NEW k \in Sides, Look(x, k) \/ Probe(x, k) \/ Await(x, k)
      PROVE  AheadOK'
  <2>0. Prepares(x)
    BY <1>5 DEF Prepares
  <2>1. at' = at /\ moved' = moved
    BY <2>0, PreparesInPlace
  <2>2. /\ (pc[x] = <<"look", k>> /\ k # 1) \/ pc[x] \in {<<"probe", k>>, <<"await", k>>}
        /\ pc'[x] \in {<<"probe", k>>, <<"await", k>>}
              \/ pc'[x] = IF k = 3 THEN <<"try", 0>> ELSE IF k = 0 THEN <<"probe", 1>> ELSE <<"look", k + 1>>
        /\ pc'[x] = <<"await", k>> => pc[x] = <<"probe", k>>
        /\ pc'[x] = <<"probe", k>> => pc[x] = <<"look", k>>
    BY <1>5, GoesTo, AfterWaitGoes DEF Look, Probe, Await, LanesOK, Sides
  <2>3. CASE k \in {2, 3}
    <3>1. Past(x) /\ pc'[x] # <<"await", 1>>
      BY <2>2, <2>3 DEF Past
    <3> QED BY <1>3, <1>4, <2>0, <2>1, <3>1
  <2>4. CASE k = 0
    <3>1. ~Past(x)' /\ pc'[x] # <<"await", 1>>
      BY <2>2, <2>4 DEF Past, Crossing, Cleared
    <3> QED BY <1>2, <1>4, <2>0, <2>1, <3>1
  <2>5. CASE k = 1
    <3>1. WatchedCell(x, 1) = Ahead(x) /\ ProbeCell(x, 1) = Ahead(x) /\ Ahead(x)' = Ahead(x)
      BY <2>1, Parts DEF WatchedCell, ProbeCell, WatchedLane, Ahead, NextMeter
    <3>2. CASE Await(x, 1)
      <4>1. sem[awaited[x]][1] /\ awaited[x] \in Bikers /\ pc[x] = <<"await", 1>>
        BY <3>2 DEF Await, WaitOK
      <4>2. moved[awaited[x]]
        BY <4>1, UnlockedHasMoved DEF Riding, Sides
      <4>3. \A m \in Bikers : at'[m] = Ahead(x)' => moved'[m]
        BY <2>1, <3>1, <4>1, <4>2 DEF AheadOK
      <4> QED BY <1>1, <1>4, <2>0, <2>1, <4>3
    <3>3. CASE Probe(x, 1)
      <4>1. ~Locked(Ahead(x))
        BY <3>1, <3>3 DEF Probe
      <4>2. \A m \in Bikers : at[m] = Ahead(x) => pc[m][1] \notin Cleared
        BY <4>1 DEF Locked, Crossing
      <4>3. \A m \in Bikers : at[m] = Ahead(x) => moved[m] \/ road[Ahead(x)] = m
        BY <4>2, FoundAt
      <4>4. \/ \E mem \in Bikers : Finds(x, 1, mem)
            \/ /\ AfterWait(x, 1)
               /\ road[Ahead(x)] = Free \/ moved[road[Ahead(x)]]
        <5>1. 1 \in Sides
          BY DEF Sides
        <5> QED BY <3>1, <3>3, <5>1, ProbeKinds
      <4>5. CASE \E mem \in Bikers : Finds(x, 1, mem)
        <5>1. PICK mem \in Bikers : Finds(x, 1, mem)
          BY <4>5
        <5>2. pc'[x] = <<"await", 1>> /\ awaited'[x] = mem /\ road[Ahead(x)] = mem
          BY <3>1, <5>1 DEF Finds
        <5>3. ~Past(x)'
          BY <5>2 DEF Past, Crossing, Cleared
        <5>4. \A m \in Bikers : at'[m] = Ahead(x)' => moved'[m] \/ m = awaited'[x]
          BY <2>1, <3>1, <4>3, <5>2
        <5> QED BY <1>1, <1>4, <2>0, <2>1, <5>3, <5>4
      <4>6. CASE AfterWait(x, 1) /\ (road[Ahead(x)] = Free \/ moved[road[Ahead(x)]])
        <5>1. Free \notin Bikers
          BY DEF Free, Bikers
        <5>2. \A m \in Bikers : at'[m] = Ahead(x)' => moved'[m]
          BY <2>1, <3>1, <4>3, <4>6, <5>1
        <5> QED BY <1>1, <1>4, <2>0, <2>1, <5>2
      <4> QED BY <4>4, <4>5, <4>6
    <3> QED BY <1>5, <2>2, <2>5, <3>2, <3>3 DEF Look
  <2> QED BY <2>3, <2>4, <2>5 DEF Sides
<1>6. ASSUME NEW x \in Bikers, NEW t \in 0 .. 2,
             Try(x, t) \/ See(x, t) \/ (Enter(x, t) /\ road[Entered(x)] # Free)
      PROVE  AheadOK'
  <2>1. Prepares(x) /\ Past(x)
    BY <1>6 DEF Prepares, Past, Try, See, Enter
  <2>2. at' = at /\ moved' = moved
    BY <2>1, PreparesInPlace
  <2>3. pc'[x][1] # "await"
    BY <1>6, AfterTryGoes, GoesTo DEF Try, See, Enter
  <2> QED BY <1>3, <1>4, <2>1, <2>2, <2>3
<1>7. ASSUME NEW x \in Bikers, NEW t \in 0 .. 2,
             (Enter(x, t) /\ road[Entered(x)] = Free) \/ Vacate(x, t)
      PROVE  AheadOK'
  <2>1. /\ Past(x) /\ pc'[x][1] # "await" /\ at' = at /\ moved' = moved /\ awaited' = awaited
        /\ \A c \in Bikers \ {x} : pc'[c] = pc[c]
    BY <1>7, EnterCell, VacateCell, CountsOnly DEF Past, Crossing, Cleared
  <2> QED BY <1>3, <2>1
<1>8. ASSUME NEW x \in Bikers, (\E t \in 0 .. 2 : Place(x, t)) \/ Done(x)
      PROVE  AheadOK'
  <2>1. /\ pc'[x][1] \in {"done", "lap", "barr"} /\ moved' = [moved EXCEPT ![x] = TRUE]
        /\ awaited' = awaited
        /\ \A c \in Bikers \ {x} : pc'[c] = pc[c] /\ at'[c] = at[c]
    BY <1>8, PlaceBiker, DoneRound
  <2>2. moved'[x] /\ \A c \in Bikers : moved[c] => moved'[c]
    BY <1>0, <2>1
  <2>3. ~Past(x)' /\ pc'[x][1] # "await"
    BY <2>1 DEF Past, Crossing, Cleared
  <2> QED BY <1>2, <2>1, <2>2, <2>3
<1>9. ASSUME NEW x \in Bikers, LapEnd(x) \/ LeaveRoad(x) \/ CountsLeaving(x) \/ CountsMove(x)
      PROVE  AheadOK'
  <2>1. /\ (pc[x][1] \in Cleared /\ pc'[x][1] \in Cleared) \/ pc'[x][1] \in {"barr", "leave"} \union Gone
        /\ moved' = moved /\ at' = at /\ awaited' = awaited
        /\ \A c \in Bikers \ {x} : pc'[c] = pc[c]
    BY <1>9, LapEnds, LeavesRoad, CountsOnly
  <2>2. pc'[x][1] # "await" /\ (Past(x) \/ ~Past(x)')
    BY <2>1 DEF Past, Crossing, Cleared, Gone
  <2>3. pc'[x] # <<"await", 1>>
    BY <2>2
  <2> QED BY <1>2, <1>3, <2>1, <2>2, <2>3
<1>10. ASSUME Barr \/ Classify \/ \E x \in Bikers : Settle(x)
       PROVE  AheadOK'
  <2>1. \A c \in Bikers : \/ pc'[c][1] \in {"settle", "ready", "out", "done"}
                          \/ pc'[c][1] = "look" /\ pc'[c][2] = 0
    BY <1>10, BarrOpens, ClassifyRound, SettleRound DEF PhaseOK
  <2>2. \A c \in Bikers : ~Past(c)' /\ pc'[c][1] # "await"
    BY <2>1 DEF Past, Crossing, Cleared
  <2> QED BY <2>2 DEF AheadOK
<1>11. ASSUME UNCHANGED vars
       PROVE  AheadOK'
  BY <1>11 DEF vars, AheadOK, Ahead, NextMeter, Past
<1> QED
  BY <1>5, <1>6, <1>7, <1>8, <1>9, <1>10, <1>11, Steps DEF Prepares

LEMMA BelowStep ==
    ASSUME TypeOK, LanesOK, RoadMatchesBikers, PhaseOK, MovedOK, BelowOK, [Next]_vars
    PROVE  BelowOK'
<1>0. moved \in [Bikers -> BOOLEAN] /\ at \in [Bikers -> Meters \X Lanes]
  BY DEF TypeOK
<1> DEFINE Cuts(b) == pc[b][1] \in {"move"} \union Crossing /\ pc[b][2] = 2
           Clear(m) == moved[m] \/ pc[m][1] \in Cleared
<1>1. ASSUME NEW x \in Bikers,
             \A c \in Bikers \ {x} : pc'[c] = pc[c] /\ at'[c] = at[c] /\ (moved'[c] <=> moved[c]),
             Clear(x) => Clear(x)',
             at'[x] = at[x] \/ moved'[x],
             Cuts(x)' => \A m \in Bikers : at'[m] = Below(x)' => Clear(m)'
      PROVE  BelowOK'
  <2>1. ASSUME NEW b \in Bikers \ {x}, NEW m \in Bikers, Cuts(b)', at'[m] = Below(b)'
        PROVE  Clear(m)'
    <3>1. pc'[b] = pc[b] /\ at'[b] = at[b]
      BY <1>1
    <3>2. Below(b)' = Below(b) /\ Cuts(b)
      BY <2>1, <3>1 DEF Below
    <3>3. at[m] = Below(b) => Clear(m)
      BY <3>2 DEF BelowOK
    <3>4. CASE m = x
      BY <1>1, <2>1, <3>2, <3>3, <3>4
    <3>5. CASE m # x
      BY <1>1, <2>1, <3>2, <3>3, <3>5
    <3> QED BY <3>4, <3>5
  <2>2. \A b, m \in Bikers : Cuts(b)' /\ at'[m] = Below(b)' => Clear(m)'
    BY <1>1, <2>1
  <2> QED BY <2>2 DEF BelowOK
<1>2. ASSUME NEW x \in Bikers,
             \A c \in Bikers \ {x} : pc'[c] = pc[c] /\ at'[c] = at[c] /\ (moved'[c] <=> moved[c]),
             Clear(x) => Clear(x)',
             at'[x] = at[x] \/ moved'[x], ~Cuts(x)'
      PROVE  BelowOK'
  BY <1>1, <1>2
<1>3. ASSUME NEW x \in Bikers, Cuts(x), at' = at, moved' = moved,
             \A c \in Bikers \ {x} : pc'[c] = pc[c], Clear(x) => Clear(x)'
      PROVE  BelowOK'
  <2>1. Below(x)' = Below(x)
    BY <1>3 DEF Below
  <2>2. \A m \in Bikers : at'[m] = Below(x)' => Clear(m)
    BY <1>3, <2>1 DEF BelowOK
  <2>3. \A m \in Bikers : at'[m] = Below(x)' => Clear(m)'
    BY <1>3, <2>2
  <2> QED BY <1>1, <1>3, <2>3
<1>4. ASSUME NEW x \in Bikers, Prepares(x)
      PROVE  BelowOK'
  <2>1. /\ at' = at /\ moved' = moved /\ pc[x][1] \notin Cleared
        /\ \A c \in Bikers \ {x} : pc'[c] = pc[c]
    BY <1>4, PreparesInPlace DEF Riding, Crossing
  <2>2. CASE ~Cuts(x)'
    BY <1>2, <2>1, <2>2
  <2>3. CASE Cuts(x)'
    <3>1. See(x, 2) /\ pc'[x] = <<"move", 2>>
      <4>1. pc'[x] = <<"move", 2>>
        <5>1. pc'[x][1] = "move" /\ pc'[x][2] = 2
          BY <1>4, <2>3, PreparesInPlace DEF Crossing, Cleared
        <5>2. pc' \in [Bikers -> Stages \X Sides]
          BY <1>4, PreparesInPlace
        <5> QED BY <5>1, <5>2
      <4>2. ASSUME NEW k \in Sides, Look(x, k) \/ Probe(x, k) \/ Await(x, k)
            PROVE  FALSE
        <5>1. pc'[x] \in {<<"probe", k>>, <<"await", k>>, <<"try", 0>>, <<"probe", 1>>, <<"look", k + 1>>}
          <6>1. AfterWait(x, k) \/ Goes(x, "probe", k) \/ Goes(x, "await", k)
            BY <4>2 DEF Look, Probe, Await
          <6>2. CASE AfterWait(x, k)
            BY <6>2, AfterWaitGoes
          <6> QED BY <6>1, <6>2, GoesTo
        <5> QED BY <4>1, <5>1
      <4>3. ASSUME NEW t \in 0 .. 2, AfterTry(x, t) \/ Goes(x, "see", t)
            PROVE  FALSE
        BY <4>1, <4>3, GoesTo, AfterTryGoes
      <4>4. ASSUME NEW t \in 0 .. 2, Try(x, t) \/ (Enter(x, t) /\ road[Entered(x)] # Free)
            PROVE  FALSE
        BY <4>3, <4>4 DEF Try, Enter
      <4>5. ASSUME NEW t \in 0 .. 2, See(x, t)
            PROVE  t = 2
        BY <4>1, <4>3, <4>5, GoesTo DEF See
      <4> QED BY <1>4, <4>1, <4>2, <4>4, <4>5 DEF Prepares
    <3>2. road[Below(x)] = Free \/ moved[road[Below(x)]]
      BY <3>1, AfterTryGoes DEF See, Below
    <3>3. Below(x)' = Below(x)
      BY <2>1 DEF Below
    <3>4. Free \notin Bikers
      BY DEF Free, Bikers
    <3>5. ASSUME NEW m \in Bikers, at[m] = Below(x), pc[m][1] \notin Cleared
          PROVE  moved[m]
      BY <3>2, <3>4, <3>5, FoundAt
    <3>6. \A m \in Bikers : at'[m] = Below(x)' => Clear(m)'
      <4> SUFFICES ASSUME NEW m \in Bikers, at[m] = Below(x)
                   PROVE  Clear(m)'
        BY <2>1, <3>3
      <4>1. CASE m = x
        BY <2>1, <3>5, <4>1
      <4>2. CASE m # x
        BY <2>1, <3>5, <4>2
      <4> QED BY <4>1, <4>2
    <3> QED BY <1>1, <2>1, <3>6
  <2> QED BY <2>2, <2>3
<1>5. ASSUME NEW x \in Bikers, CountsMove(x) \/ \E t \in 0 .. 2 :
                (Enter(x, t) /\ road[Entered(x)] = Free) \/ Vacate(x, t)
      PROVE  BelowOK'
  <2>1. /\ at' = at /\ moved' = moved /\ \A c \in Bikers \ {x} : pc'[c] = pc[c]
        /\ \/ /\ pc[x][1] \in {"move"} \union Crossing /\ pc'[x][1] \in Crossing /\ pc'[x][2] = pc[x][2]
              /\ pc[x][1] \in Cleared => pc'[x][1] \in Cleared
           \/ pc[x][1] \in Gone /\ pc'[x][1] \in Gone
    <3>1. CASE CountsMove(x)
      BY <3>1, CountsOnly DEF Crossing
    <3>2. ASSUME NEW t \in 0 .. 2, Enter(x, t), road[Entered(x)] = Free
          PROVE  /\ pc[x][1] = "move" /\ pc'[x][1] = "enter" /\ pc'[x][2] = pc[x][2]
                 /\ at' = at /\ moved' = moved /\ \A c \in Bikers \ {x} : pc'[c] = pc[c]
      BY <3>2, EnterCell
    <3>3. ASSUME NEW t \in 0 .. 2, Vacate(x, t)
          PROVE  /\ pc[x][1] = "enter" /\ pc'[x][1] \in Cleared /\ pc'[x][2] = pc[x][2]
                 /\ at' = at /\ moved' = moved /\ \A c \in Bikers \ {x} : pc'[c] = pc[c]
      BY <3>3, VacateCell
    <3>4. "move" \notin Cleared /\ "enter" \notin Cleared /\ {"enter"} \union Cleared = Crossing
      BY DEF Cleared, Crossing
    <3> QED BY <1>5, <3>1, <3>2, <3>3, <3>4
  <2>2. (Cuts(x)' => Cuts(x)) /\ (Clear(x) => Clear(x)')
    BY <2>1 DEF Crossing, Cleared, Gone
  <2> QED BY <1>2, <1>3, <2>1, <2>2
<1>6. ASSUME NEW x \in Bikers, (\E t \in 0 .. 2 : Place(x, t)) \/ Done(x)
      PROVE  BelowOK'
  <2>1. /\ pc'[x][1] \in {"done", "lap", "barr"} /\ moved' = [moved EXCEPT ![x] = TRUE]
        /\ \A c \in Bikers \ {x} : pc'[c] = pc[c] /\ at'[c] = at[c]
    BY <1>6, PlaceBiker, DoneRound
  <2>2. moved'[x] /\ \A c \in Bikers \ {x} : (moved'[c] <=> moved[c])
    BY <1>0, <2>1
  <2>3. ~Cuts(x)'
    BY <2>1 DEF Crossing, Cleared
  <2> QED BY <1>2, <2>1, <2>2, <2>3
<1>7. ASSUME NEW x \in Bikers, LapEnd(x) \/ LeaveRoad(x) \/ CountsLeaving(x)
      PROVE  BelowOK'
  <2>1. /\ pc[x][1] \in {"lap", "leave"} \union Gone /\ pc'[x][1] \in {"barr", "leave"} \union Gone
        /\ moved' = moved /\ at' = at
        /\ \A c \in Bikers \ {x} : pc'[c] = pc[c]
    <3>1. CountsLeaving(x) => pc[x][1] \notin Cleared
      BY DEF CountsLeaving, LockOff, CountOff, UnlockOff, Cleared
    <3> QED BY <1>7, <3>1, LapEnds, LeavesRoad, CountsOnly
  <2>2. ~Cuts(x)' /\ (Clear(x) => Clear(x)')
    BY <2>1 DEF Crossing, Cleared, Gone
  <2> QED BY <1>2, <2>1, <2>2
<1>8. ASSUME Barr \/ Classify \/ \E x \in Bikers : Settle(x)
      PROVE  BelowOK'
  <2>1. \A c \in Bikers : pc'[c][1] \in {"settle", "ready", "out", "done", "look"}
    BY <1>8, BarrOpens, ClassifyRound, SettleRound DEF PhaseOK
  <2> QED BY <2>1 DEF BelowOK, Crossing, Cleared
<1>9. ASSUME UNCHANGED vars
      PROVE  BelowOK'
  BY <1>9 DEF vars, BelowOK, Below
<1> QED
  BY <1>4, <1>5, <1>6, <1>7, <1>8, <1>9, Steps

\* The cells that can hold a biker when another one probes for it.
LEMMA FoundWhere ==
    ASSUME TypeOK, LanesOK, RoadMatchesBikers, NEW b \in Bikers, NEW k \in Sides,
           NEW mem \in Bikers, Finds(b, k, mem)
    PROVE  \/ at[mem] = WatchedCell(b, k)
           \/ k = 3 /\ pc[mem][1] \in Crossing /\ Entered(mem) = WatchedCell(b, 3)
<1>1. WatchedCell(b, k) \in CellsOf(mem)
  BY DEF Finds, RoadMatchesBikers
<1>2. CASE pc[mem][1] \notin Crossing
  BY <1>1, <1>2, CellsByStage DEF Crossing, Gone
<1>3. CASE pc[mem][1] \in Crossing /\ k = 3
  BY <1>1, <1>3, CellsByStage DEF Crossing, Gone
<1>4. CASE pc[mem][1] \in Crossing /\ k # 3
  <2>1. ProbeCell(b, k) = WatchedCell(b, k)
    BY <1>4 DEF ProbeCell, WatchedCell
  <2>2. WatchedCell(b, k) \in {at[mem], Entered(mem)}
    BY <1>1, <1>4, CellsByStage DEF Crossing, Gone
  <2>3. Locked(WatchedCell(b, k))
    BY <1>4, <2>2 DEF Locked
  <2> QED BY <2>1, <2>3 DEF Finds
<1> QED
  BY <1>2, <1>3, <1>4

LEMMA WaitStep ==
    ASSUME TypeOK, LanesOK, RoadMatchesBikers, PhaseOK, MovedOK, WaitOK, [Next]_vars
    PROVE  WaitOK'
<1>0. moved \in [Bikers -> BOOLEAN] /\ used \in [Bikers -> [Sides -> BOOLEAN]]
  BY DEF TypeOK
<1> DEFINE Fine(b) == /\ awaited[b] \in Bikers
                      /\ used[awaited[b]][pc[b][2]]
                      /\ \/ moved[awaited[b]]
                         \/ at[awaited[b]] = WatchedCell(b, pc[b][2])
                         \/ /\ pc[b][2] = 3 /\ pc[awaited[b]][1] \in Crossing
                            /\ Entered(awaited[b]) = WatchedCell(b, 3)
\* A biker that waits goes on waiting while another one, x, takes a step.
<1>1. ASSUME NEW x \in Bikers,
             \A c \in Bikers \ {x} : pc'[c] = pc[c] /\ at'[c] = at[c] /\ awaited'[c] = awaited[c],
             \A c \in Bikers : moved[c] => moved'[c],
             \A c \in Bikers : \A k \in Sides : used[c][k] => used'[c][k],
             \/ moved'[x]
             \/ at'[x] = at[x] /\ (pc[x][1] \in Crossing => pc'[x][1] \in Crossing /\ Entered(x)' = Entered(x)),
             pc'[x][1] = "await" => Fine(x)'
      PROVE  WaitOK'
  <2>1. ASSUME NEW b \in Bikers \ {x}, pc'[b][1] = "await"
        PROVE  Fine(b)'
    <3>1. pc'[b] = pc[b] /\ at'[b] = at[b] /\ awaited'[b] = awaited[b] /\ pc[b][2] \in Sides
      BY <1>1, Parts
    <3>2. \A k \in Sides : WatchedCell(b, k)' = WatchedCell(b, k)
      BY <3>1 DEF WatchedCell, WatchedLane, NextMeter
    <3>3. Fine(b)
      BY <2>1, <3>1 DEF WaitOK
    <3>4. awaited'[b] \in Bikers /\ used'[awaited'[b]][pc'[b][2]]
      BY <1>1, <3>1, <3>3
    <3>5. CASE awaited[b] = x
      <4>1. moved'[x] \/ (at'[x] = at[x] /\ (pc[x][1] \in Crossing => pc'[x][1] \in Crossing /\ Entered(x)' = Entered(x)))
        BY <1>1
      <4>2. 3 \in Sides
        BY DEF Sides
      <4>3. Entered(awaited[b])' = Entered(x)'
        BY <3>1, <3>5 DEF Entered, NextMeter
      <4> QED BY <1>1, <3>1, <3>2, <3>3, <3>4, <3>5, <4>1, <4>2, <4>3
    <3>6. CASE awaited[b] # x
      <4>1. at'[awaited[b]] = at[awaited[b]] /\ pc'[awaited[b]] = pc[awaited[b]]
        BY <1>1, <3>3, <3>6
      <4>2. Entered(awaited[b])' = Entered(awaited[b])
        BY <3>1, <4>1 DEF Entered, NextMeter
      <4>3. 3 \in Sides
        BY DEF Sides
      <4> QED BY <1>1, <3>1, <3>2, <3>3, <3>4, <4>1, <4>2, <4>3
    <3> QED BY <3>5, <3>6
  <2>2. \A b \in Bikers : pc'[b][1] = "await" => Fine(b)'
    BY <1>1, <2>1
  <2> QED BY <2>2 DEF WaitOK

<1>2. ASSUME NEW x \in Bikers, Prepares(x)
      PROVE  /\ at' = at /\ moved' = moved /\ pc[x][1] \notin Crossing
             /\ \A c \in Bikers \ {x} : pc'[c] = pc[c] /\ awaited'[c] = awaited[c]
             /\ \A c \in Bikers : \A k \in Sides : used[c][k] => used'[c][k]
  <2>1. UNCHANGED awaited \/ \E v : awaited' = [awaited EXCEPT ![x] = v]
    BY <1>2, PreparesKinds DEF Finds, Await, waitVars
  <2>2. \A c \in Bikers \ {x} : awaited'[c] = awaited[c]
    BY <2>1 DEF TypeOK
  <2>3. used' = used \/ \E k \in Sides : \E mem \in Bikers : used' = [used EXCEPT ![mem][k] = TRUE]
    BY <1>2, PreparesKinds DEF Finds, Await, waitVars
  <2>4. \A c \in Bikers : \A k \in Sides : used[c][k] => used'[c][k]
    BY <1>0, <2>3
  <2> QED BY <1>2, <2>2, <2>4, PreparesInPlace
<1>3. ASSUME NEW x \in Bikers, Prepares(x)
      PROVE  WaitOK'
  <2>1. \A c \in Bikers : moved[c] => moved'[c]
    BY <1>2, <1>3
  <2>2. CASE pc'[x][1] # "await"
    BY <1>1, <1>2, <1>3, <2>1, <2>2
  <2>3. CASE pc'[x][1] = "await"
    <3>1. PICK k \in Sides, mem \in Bikers : Finds(x, k, mem)
      <4>1. ASSUME NEW i \in Sides, Await(x, i) PROVE pc'[x][1] # "await"
        <5>1. pc'[x] \in {<<"try", 0>>, <<"probe", 1>>, <<"look", i + 1>>}
          BY <4>1, AfterWaitGoes DEF Await
        <5> QED BY <5>1
      <4> QED BY <1>3, <2>3, <4>1, PreparesKinds
    <3>2. pc'[x] = <<"await", k>> /\ awaited'[x] = mem /\ used' = [used EXCEPT ![mem][k] = TRUE]
      BY <3>1 DEF Finds
    <3>3. used'[mem][k]
      BY <1>0, <3>2
    <3>4. \A i \in Sides : WatchedCell(x, i)' = WatchedCell(x, i)
      BY <1>2, <1>3 DEF WatchedCell, WatchedLane, NextMeter
    <3>5. mem # x \/ at[mem] = WatchedCell(x, k)
      BY <1>2, <1>3, <3>1, FoundWhere
    <3>6. mem # x => pc'[mem] = pc[mem] /\ Entered(mem)' = Entered(mem)
      BY <1>2, <1>3 DEF Entered, NextMeter
    <3>7. 3 \in Sides
      BY DEF Sides
    <3>8. \/ at'[mem] = WatchedCell(x, k)'
          \/ k = 3 /\ pc'[mem][1] \in Crossing /\ Entered(mem)' = WatchedCell(x, 3)'
      BY <1>2, <1>3, <3>1, <3>4, <3>5, <3>6, <3>7, FoundWhere
    <3>9. Entered(awaited[x])' = Entered(mem)'
      BY <3>2 DEF Entered, NextMeter
    <3>10. Fine(x)'
      BY <3>2, <3>3, <3>8, <3>9
    <3> QED BY <1>1, <1>2, <1>3, <2>1, <3>10
  <2> QED BY <2>2, <2>3
<1>4. ASSUME NEW x \in Bikers, CountsMove(x) \/ CountsLeaving(x) \/ \E t \in 0 .. 2 :
                (Enter(x, t) /\ road[Entered(x)] = Free) \/ Vacate(x, t)
      PROVE  WaitOK'
  <2>1. /\ at' = at /\ moved' = moved /\ used' = used /\ awaited' = awaited
        /\ \A c \in Bikers \ {x} : pc'[c] = pc[c]
        /\ \/ pc'[x][1] \in Crossing /\ pc'[x][2] = pc[x][2]
           \/ pc[x][1] \in Gone /\ pc'[x][1] \in Gone
    <3>1. ASSUME NEW t \in 0 .. 2, (Enter(x, t) /\ road[Entered(x)] = Free) \/ Vacate(x, t)
          PROVE  /\ at' = at /\ moved' = moved /\ used' = used /\ awaited' = awaited
                 /\ \A c \in Bikers \ {x} : pc'[c] = pc[c]
                 /\ pc'[x][1] \in Crossing /\ pc'[x][2] = pc[x][2]
      <4>1. "enter" \in Crossing /\ Cleared \subseteq Crossing
        BY DEF Crossing
      <4>2. CASE Enter(x, t) /\ road[Entered(x)] = Free
        <5>1. pc[x][2] = t /\ pc'[x][1] = "enter" /\ pc'[x][2] = t
          BY <4>2, EnterCell
        <5> QED BY <4>1, <4>2, <5>1, EnterCell
      <4>3. CASE Vacate(x, t)
        <5>1. pc[x][2] = t /\ pc'[x][1] \in Cleared /\ pc'[x][2] = t
          BY <4>3, VacateCell
        <5> QED BY <4>1, <4>3, <5>1, VacateCell
      <4> QED BY <3>1, <4>2, <4>3
    <3> QED BY <1>4, <3>1, CountsOnly DEF Crossing
  <2>2. /\ Entered(x)' = Entered(x) \/ pc[x][1] \notin Crossing
        /\ pc[x][1] \in Crossing => pc'[x][1] \in Crossing
        /\ pc'[x][1] # "await"
    BY <2>1 DEF Entered, NextMeter, Crossing, Cleared, Gone
  <2> QED BY <1>1, <2>1, <2>2
<1>5. ASSUME NEW x \in Bikers, (\E t \in 0 .. 2 : Place(x, t)) \/ Done(x)
      PROVE  WaitOK'
  <2>1. /\ pc'[x][1] \in {"done", "lap", "barr"} /\ moved' = [moved EXCEPT ![x] = TRUE]
        /\ used' = used /\ awaited' = awaited
        /\ \A c \in Bikers \ {x} : pc'[c] = pc[c] /\ at'[c] = at[c]
    BY <1>5, PlaceBiker, DoneRound
  <2>2. moved'[x] /\ \A c \in Bikers : moved[c] => moved'[c]
    BY <1>0, <2>1
  <2> QED BY <1>1, <2>1, <2>2
<1>6. ASSUME NEW x \in Bikers, LapEnd(x) \/ LeaveRoad(x)
      PROVE  WaitOK'
  <2>1. /\ pc[x][1] \in {"lap", "leave"} /\ pc'[x][1] \in {"barr", "leave", "lockOff"}
        /\ moved' = moved /\ at' = at /\ used' = used /\ awaited' = awaited
        /\ \A c \in Bikers \ {x} : pc'[c] = pc[c]
    BY <1>6, LapEnds, LeavesRoad
  <2> QED BY <1>1, <2>1 DEF Crossing, Cleared
<1>7. ASSUME Barr \/ Classify \/ \E x \in Bikers : Settle(x)
      PROVE  WaitOK'
  <2>1. \A c \in Bikers : pc'[c][1] \in {"settle", "ready", "out", "done", "look"}
    BY <1>7, BarrOpens, ClassifyRound, SettleRound DEF PhaseOK
  <2> QED BY <2>1 DEF WaitOK
<1>8. ASSUME UNCHANGED vars
      PROVE  WaitOK'
  BY <1>8 DEF vars, WaitOK, WatchedCell, WatchedLane, NextMeter, Entered
<1> QED
  BY <1>3, <1>4, <1>5, <1>6, <1>7, <1>8, Steps

\* A biker is watched at one side from one cell only.
LEMMA WatchedFromOne ==
    ASSUME TypeOK, RoadMatchesBikers, NEW b \in Bikers, NEW c \in Bikers, NEW k \in Sides,
           pc[b][1] \in {"probe", "await"}, pc[c][1] \in {"probe", "await"},
           WatchedCell(b, k) = WatchedCell(c, k)
    PROVE  b = c
<1>1. at[b][2] = at[c][2]
  BY Parts DEF WatchedCell, WatchedLane, Sides
<1>2. at[b][1] = at[c][1]
  BY NextMeterInjective DEF WatchedCell
<1>3. at[b] = at[c]
  BY <1>1, <1>2, Parts
<1> QED
  BY <1>3, ApartOnRoad DEF Cleared, Gone

\* A biker on its way to the cell just above b is not waited for there by b and,
\* from its own cell, by c: it would not have gone there with c below it, nor with
\* b ahead of it, nor would c have come to wait with b ahead.
LEMMA NotOnBothSides ==
    ASSUME TypeOK, LanesOK, RoadMatchesBikers, MovedOK, AheadOK, BelowOK,
           NEW b \in Bikers, NEW c \in Bikers, NEW m \in Bikers,
           pc[b][1] \in {"probe", "await"}, pc[b][2] = 3,
           pc[c][1] \in {"probe", "await"}, pc[c][2] = 3,
           pc[m][1] \in Crossing,
           Entered(m) = WatchedCell(b, 3), at[m] = WatchedCell(c, 3)
    PROVE  FALSE
<1>1. ~moved[b] /\ ~moved[c]
  BY DEF MovedOK, Riding
<1>2. Past(b) /\ Past(c) /\ Past(m)
  BY DEF Past
<1>3. at[b] = <<at[b][1], at[b][2]>> /\ at[c] = <<at[c][1], at[c][2]>> /\ at[m] = <<at[m][1], at[m][2]>>
  BY Parts
<1>4. at[b][2] \in Int /\ at[c][2] \in Int /\ at[m][2] \in Int /\ pc[m][2] \in 0 .. 2
  BY Parts DEF LanesOK
<1>5. /\ at[b][1] = NextMeter(m) /\ at[b][2] = at[m][2] + pc[m][2]
      /\ at[c][1] = at[m][1] /\ at[c][2] = at[m][2] + 1
  BY <1>3, <1>4 DEF Entered, WatchedCell, WatchedLane
<1>6. CASE pc[m][2] = 0
  <2>1. at[b] = Ahead(m)
    BY <1>3, <1>4, <1>5, <1>6 DEF Ahead
  <2> QED BY <1>1, <1>2, <2>1 DEF AheadOK
<1>7. CASE pc[m][2] = 1
  <2>1. at[b] = Ahead(c)
    BY <1>3, <1>4, <1>5, <1>7 DEF Ahead, NextMeter
  <2> QED BY <1>1, <1>2, <2>1 DEF AheadOK
<1>8. CASE pc[m][2] = 2
  <2>1. at[c] = Below(m)
    BY <1>3, <1>4, <1>5 DEF Below
  <2>2. moved[c] \/ pc[c][1] \in Cleared
    BY <1>8, <2>1 DEF BelowOK
  <2> QED BY <1>1, <2>2 DEF Cleared
<1> QED
  BY <1>4, <1>6, <1>7, <1>8

LEMMA OneWaitsStep ==
    ASSUME TypeOK, LanesOK, RoadMatchesBikers, MovedOK, AheadOK, BelowOK, WaitOK, OneWaits,
           [Next]_vars
    PROVE  OneWaits'
<1>1. ASSUME NEW x \in Bikers, \A c \in Bikers \ {x} : pc'[c] = pc[c] /\ awaited'[c] = awaited[c],
             pc'[x][1] # "await"
      PROVE  OneWaits'
  <2>1. ASSUME NEW b \in Bikers, NEW c \in Bikers,
               pc'[b][1] = "await", pc'[c] = pc'[b], awaited'[c] = awaited'[b]
        PROVE  c = b
    <3>1. b # x /\ c # x
      BY <1>1, <2>1
    <3> QED BY <1>1, <2>1, <3>1 DEF OneWaits
  <2> QED BY <2>1 DEF OneWaits
<1>2. ASSUME NEW x \in Bikers, Prepares(x)
      PROVE  \A c \in Bikers \ {x} : pc'[c] = pc[c] /\ awaited'[c] = awaited[c]
  <2>1. UNCHANGED awaited \/ \E v : awaited' = [awaited EXCEPT ![x] = v]
    BY <1>2, PreparesKinds DEF Finds, Await, waitVars
  <2>2. \A c \in Bikers \ {x} : awaited'[c] = awaited[c]
    BY <2>1 DEF TypeOK
  <2> QED BY <1>2, <2>2, PreparesInPlace
<1>3. ASSUME NEW x \in Bikers, NEW k \in Sides, NEW mem \in Bikers, Finds(x, k, mem), Prepares(x)
      PROVE  OneWaits'
  <2>1. pc'[x] = <<"await", k>> /\ awaited'[x] = mem /\ pc[x] = <<"probe", k>> /\ ~moved[mem]
    BY <1>3 DEF Finds
  <2>2. ASSUME NEW c \in Bikers \ {x}, pc[c] = <<"await", k>>, awaited[c] = mem
        PROVE  FALSE
    <3>1. \/ at[mem] = WatchedCell(c, k)
          \/ k = 3 /\ pc[mem][1] \in Crossing /\ Entered(mem) = WatchedCell(c, 3)
      <4>1. pc[c][1] = "await" /\ pc[c][2] = k
        BY <2>2
      <4> QED BY <2>1, <2>2, <4>1 DEF WaitOK
    <3>2. \/ at[mem] = WatchedCell(x, k)
          \/ k = 3 /\ pc[mem][1] \in Crossing /\ Entered(mem) = WatchedCell(x, 3)
      BY <1>3, FoundWhere
    <3>3. WatchedCell(x, k) # WatchedCell(c, k)
      BY <2>1, <2>2, WatchedFromOne
    <3>4. k = 3 /\ pc[mem][1] \in Crossing
      BY <3>1, <3>2, <3>3
    <3>5. \/ Entered(mem) = WatchedCell(x, 3) /\ at[mem] = WatchedCell(c, 3)
          \/ Entered(mem) = WatchedCell(c, 3) /\ at[mem] = WatchedCell(x, 3)
      BY <3>1, <3>2, <3>3, <3>4
    <3>6. pc[x][1] = "probe" /\ pc[x][2] = 3 /\ pc[c][1] = "await" /\ pc[c][2] = 3
      BY <2>1, <2>2, <3>4
    <3> QED BY <3>4, <3>5, <3>6, NotOnBothSides
  <2>3. ASSUME NEW b \in Bikers, NEW c \in Bikers,
               pc'[b][1] = "await", pc'[c] = pc'[b], awaited'[c] = awaited'[b]
        PROVE  c = b
    <3>1. CASE b # x /\ c # x
      BY <1>2, <1>3, <2>3, <3>1 DEF OneWaits
    <3>2. CASE b = x /\ c # x
      BY <1>2, <1>3, <2>1, <2>2, <2>3, <3>2
    <3>3. CASE b # x /\ c = x
      BY <1>2, <1>3, <2>1, <2>2, <2>3, <3>3
    <3> QED BY <3>1, <3>2, <3>3
  <2> QED BY <2>3 DEF OneWaits
<1>4. ASSUME NEW x \in Bikers, Prepares(x)
      PROVE  OneWaits'
  <2>1. ASSUME NEW k \in Sides, Await(x, k)
        PROVE  pc'[x][1] # "await"
    <3>1. pc'[x] \in {<<"try", 0>>, <<"probe", 1>>, <<"look", k + 1>>}
      BY <2>1, AfterWaitGoes DEF Await
    <3> QED BY <3>1
  <2> QED BY <1>1, <1>2, <1>3, <1>4, <2>1, PreparesKinds
<1>5. ASSUME NEW x \in Bikers, NEW t \in 0 .. 2,
             (Enter(x, t) /\ road[Entered(x)] = Free) \/ Vacate(x, t) \/ Place(x, t)
      PROVE  OneWaits'
  BY <1>1, <1>5, EnterCell, VacateCell, PlaceBiker DEF Cleared
<1>6. ASSUME NEW x \in Bikers, \/ CountsMove(x) \/ CountsLeaving(x)
                               \/ Done(x) \/ LapEnd(x) \/ LeaveRoad(x) \/ Settle(x)
      PROVE  OneWaits'
  BY <1>1, <1>6, CountsOnly, DoneRound, LapEnds, LeavesRoad, SettleRound DEF Cleared, Gone
<1>7. ASSUME Barr \/ Classify
      PROVE  OneWaits'
  BY <1>7, BarrOpens, ClassifyRound DEF OneWaits
<1>8. ASSUME UNCHANGED vars
      PROVE  OneWaits'
  BY <1>8 DEF vars, OneWaits
<1> QED
  BY <1>4, <1>5, <1>6, <1>7, <1>8, Steps

LEMMA SemStep ==
    ASSUME TypeOK, LanesOK, PhaseOK, MovedOK, WaitOK, SemOK, [Next]_vars
    PROVE  SemOK'
<1>0. sem \in [Bikers -> [Sides -> BOOLEAN]] /\ used \in [Bikers -> [Sides -> BOOLEAN]]
  BY DEF TypeOK
<1> DEFINE Waiter(b, m, k) == pc[b] = <<"await", k>> /\ awaited[b] = m
           Fine(m, k) == /\ Before(m) \/ pc[m][1] = "ready" => ~sem[m][k]
                         /\ pc[m][1] = "ready" => ~used[m][k]
                         /\ After(m) => used[m][k] \/ sem[m][k]
                         /\ used[m][k] /\ (Before(m) \/ sem[m][k]) =>
                               \E b \in Bikers : Waiter(b, m, k)
<1>1. \A m \in Bikers : \A k \in Sides : Fine(m, k)
  BY DEF SemOK
\* A biker that does not wait goes to a stage of the same kind.
<1>2. ASSUME NEW x \in Bikers, \A c \in Bikers \ {x} : pc'[c] = pc[c],
             used' = used, sem' = sem, awaited' = awaited,
             pc[x][1] # "await",
             Before(x) <=> Before(x)', After(x) <=> After(x)',
             pc[x][1] = "ready" <=> pc'[x][1] = "ready"
      PROVE  SemOK'
  <2>1. \A b, m \in Bikers : \A k \in Sides : Waiter(b, m, k) => Waiter(b, m, k)'
    BY <1>2
  <2>2. ASSUME NEW m \in Bikers
        PROVE  /\ (Before(m) <=> Before(m)') /\ (After(m) <=> After(m)')
               /\ pc[m][1] = "ready" <=> pc'[m][1] = "ready"
    BY <1>2 DEF Before, After
  <2>3. \A m \in Bikers : \A k \in Sides : Fine(m, k)'
    BY <1>1, <1>2, <2>1, <2>2
  <2> QED BY <2>3 DEF SemOK
<1>3. ASSUME NEW x \in Bikers, Prepares(x)
      PROVE  /\ \A c \in Bikers \ {x} : pc'[c] = pc[c]
             /\ Before(x) /\ Before(x)' /\ ~After(x) /\ ~After(x)'
             /\ pc[x][1] # "ready" /\ pc'[x][1] # "ready"
  BY <1>3, PreparesInPlace DEF Before, After, Riding, Crossing, Cleared, Ended, Gone
<1>4. ASSUME NEW x \in Bikers, CountsMove(x) \/ CountsLeaving(x) \/ \E t \in 0 .. 2 :
                (Enter(x, t) /\ road[Entered(x)] = Free) \/ Vacate(x, t) \/ Place(x, t)
      PROVE  SemOK'
  <2>1. /\ used' = used /\ sem' = sem /\ awaited' = awaited
        /\ \A c \in Bikers \ {x} : pc'[c] = pc[c]
        /\ \/ pc[x][1] \in {"move"} \union Crossing /\ pc'[x][1] \in {"done"} \union Crossing
           \/ pc[x][1] \in Gone \ {"out"} /\ pc'[x][1] \in Gone \ {"out"}
    BY <1>4, CountsOnly, EnterCell, VacateCell, PlaceBiker DEF Crossing, Cleared
  <2>2. /\ Before(x) <=> Before(x)'
        /\ After(x) <=> After(x)'
        /\ pc[x][1] \notin {"await", "ready"} /\ pc'[x][1] # "ready"
    BY <2>1 DEF Before, After, Riding, Ended, Crossing, Cleared, Gone
  <2> QED BY <1>2, <2>1, <2>2
<1>5. ASSUME NEW x \in Bikers, NEW k \in Sides, NEW mem \in Bikers, Prepares(x), Finds(x, k, mem)
      PROVE  SemOK'
  <2>1. /\ pc'[x] = <<"await", k>> /\ awaited'[x] = mem /\ pc[x] = <<"probe", k>> /\ sem' = sem
        /\ used' = [used EXCEPT ![mem][k] = TRUE] /\ awaited' = [awaited EXCEPT ![x] = mem]
    BY <1>5 DEF Finds
  <2>2. \A c \in Bikers \ {x} : awaited'[c] = awaited[c]
    BY <2>1 DEF TypeOK
  <2>3. \A b, m \in Bikers : \A i \in Sides : Waiter(b, m, i) => Waiter(b, m, i)'
    BY <1>3, <1>5, <2>1, <2>2
  <2>4. Waiter(x, mem, k)'
    BY <2>1
  <2>5. pc'[mem][1] # "ready"
    BY <1>3, <1>5, <2>1 DEF PhaseOK
  <2>6. /\ used'[mem][k]
        /\ \A m \in Bikers : \A i \in Sides : <<m, i>> # <<mem, k>> => (used'[m][i] <=> used[m][i])
    BY <1>0, <2>1
  <2>7. ASSUME NEW m \in Bikers
        PROVE  /\ (Before(m) <=> Before(m)') /\ (After(m) <=> After(m)')
               /\ pc[m][1] = "ready" <=> pc'[m][1] = "ready"
    BY <1>3, <1>5 DEF Before, After
  <2>8. ASSUME NEW m \in Bikers, NEW i \in Sides
        PROVE  Fine(m, i)'
    <3>1. CASE <<m, i>> = <<mem, k>>
      BY <1>1, <2>1, <2>4, <2>5, <2>6, <2>7, <3>1
    <3>2. CASE <<m, i>> # <<mem, k>>
      <4>1. Fine(m, i)
        BY <1>1
      <4>2. (\E b \in Bikers : Waiter(b, m, i)) => \E b \in Bikers : Waiter(b, m, i)'
        BY <2>3
      <4>3. used'[m][i] <=> used[m][i]
        BY <2>6, <3>2
      <4> QED BY <2>1, <2>7, <4>1, <4>2, <4>3
    <3> QED BY <3>1, <3>2
  <2> QED BY <2>8 DEF SemOK
<1>6. ASSUME NEW x \in Bikers, NEW k \in Sides, Prepares(x), Await(x, k)
      PROVE  SemOK'
  <2> DEFINE a == awaited[x]
  <2>1. /\ pc[x] = <<"await", k>> /\ sem[a][k] /\ used' = used
        /\ sem' = [sem EXCEPT ![a][k] = FALSE] /\ awaited' = [awaited EXCEPT ![x] = Free]
    BY <1>6 DEF Await
  <2>2. a \in Bikers /\ used[a][k]
    BY <2>1 DEF WaitOK
  <2>3. ~Before(a) /\ pc[a][1] # "ready"
    BY <1>1, <2>1, <2>2
  <2>4. \A c \in Bikers \ {x} : awaited'[c] = awaited[c]
    BY <2>1 DEF TypeOK
  <2>5. \A b, m \in Bikers : \A i \in Sides :
           Waiter(b, m, i) /\ <<m, i>> # <<a, k>> => Waiter(b, m, i)'
    BY <1>3, <1>6, <2>1, <2>4
  <2>6. /\ ~sem'[a][k]
        /\ \A m \in Bikers : \A i \in Sides : <<m, i>> # <<a, k>> => (sem'[m][i] <=> sem[m][i])
    BY <1>0, <2>1, <2>2
  <2>7. ASSUME NEW m \in Bikers
        PROVE  /\ (Before(m) <=> Before(m)') /\ (After(m) <=> After(m)')
               /\ pc[m][1] = "ready" <=> pc'[m][1] = "ready"
    BY <1>3, <1>6 DEF Before, After
  <2> HIDE DEF a
  <2>8. ASSUME NEW m \in Bikers, NEW i \in Sides
        PROVE  Fine(m, i)'
    <3>1. CASE <<m, i>> = <<a, k>>
      BY <1>1, <2>1, <2>2, <2>3, <2>6, <2>7, <3>1
    <3>2. CASE <<m, i>> # <<a, k>>
      <4>1. Fine(m, i)
        BY <1>1
      <4>2. (\E b \in Bikers : Waiter(b, m, i)) => \E b \in Bikers : Waiter(b, m, i)'
        BY <2>5, <3>2
      <4>3. sem'[m][i] <=> sem[m][i]
        BY <2>6, <3>2
      <4> QED BY <2>1, <2>7, <4>1, <4>2, <4>3
    <3> QED BY <3>1, <3>2
  <2> QED BY <2>8 DEF SemOK
<1>7. ASSUME NEW x \in Bikers, Prepares(x)
      PROVE  SemOK'
  BY <1>2, <1>3, <1>5, <1>6, <1>7, PreparesKinds DEF waitVars
<1>8. ASSUME NEW x \in Bikers, Done(x)
      PROVE  SemOK'
  <2>1. /\ pc[x][1] = "done" /\ pc'[x][1] \in {"lap", "barr"} /\ used' = used /\ awaited' = awaited
        /\ sem' = [sem EXCEPT ![x] = [k \in Sides |-> TRUE]]
        /\ \A c \in Bikers \ {x} : pc'[c] = pc[c]
    BY <1>8, DoneRound
  <2>2. \A b, m \in Bikers : \A k \in Sides : Waiter(b, m, k) => Waiter(b, m, k)'
    BY <2>1
  <2>3. /\ \A k \in Sides : sem'[x][k]
        /\ \A m \in Bikers \ {x} : \A k \in Sides : (sem'[m][k] <=> sem[m][k])
    BY <1>0, <2>1
  <2>4. Before(x) /\ ~Before(x)' /\ pc'[x][1] # "ready"
    BY <2>1 DEF Before, Riding, Crossing, Cleared
  <2>5. ASSUME NEW m \in Bikers \ {x}
        PROVE  /\ (Before(m) <=> Before(m)') /\ (After(m) <=> After(m)')
               /\ pc[m][1] = "ready" <=> pc'[m][1] = "ready"
    BY <2>1 DEF Before, After
  <2>6. ASSUME NEW m \in Bikers, NEW k \in Sides
        PROVE  Fine(m, k)'
    <3>1. Fine(m, k)
      BY <1>1
    <3>2. (\E b \in Bikers : Waiter(b, m, k)) => \E b \in Bikers : Waiter(b, m, k)'
      BY <2>2
    <3>3. CASE m = x
      <4>1. used[x][k] => \E b \in Bikers : Waiter(b, x, k)
        BY <2>4, <3>1, <3>3
      <4>2. sem'[x][k]
        BY <2>3
      <4> QED BY <2>1, <2>4, <3>2, <3>3, <4>1, <4>2
    <3>4. CASE m # x
      <4>1. sem'[m][k] <=> sem[m][k]
        BY <2>3, <3>4
      <4> QED BY <2>1, <2>5, <3>1, <3>2, <3>4, <4>1
    <3> QED BY <3>3, <3>4
  <2> QED BY <2>6 DEF SemOK
<1>9. ASSUME NEW x \in Bikers, LapEnd(x) \/ LeaveRoad(x)
      PROVE  SemOK'
  <2>1. /\ pc[x][1] \in {"lap", "leave"} /\ pc'[x][1] \in {"barr", "leave", "lockOff"}
        /\ used' = used /\ sem' = sem /\ awaited' = awaited
        /\ \A c \in Bikers \ {x} : pc'[c] = pc[c]
    BY <1>9, LapEnds, LeavesRoad
  <2>2. ~Before(x) /\ ~Before(x)' /\ After(x) /\ After(x)'
    BY <2>1 DEF Before, After, Riding, Crossing, Cleared, Ended, Gone
  <2> QED BY <1>2, <2>1, <2>2
\* While nobody waits, a semaphore marked as used is locked.
<1>10. ASSUME \A c \in Bikers : pc[c][1] # "await"
       PROVE  \A m \in Bikers : \A k \in Sides : ~(used[m][k] /\ sem[m][k])
  <2> SUFFICES ASSUME NEW m \in Bikers, NEW k \in Sides
               PROVE  ~(used[m][k] /\ sem[m][k])
    OBVIOUS
  <2>1. \A b \in Bikers : ~Waiter(b, m, k)
    BY <1>10
  <2>2. Fine(m, k)
    BY <1>1
  <2> QED BY <2>1, <2>2
<1>11. ASSUME NEW x \in Bikers, Settle(x)
       PROVE  SemOK'
  <2>1. /\ pc[x][1] = "settle" /\ pc'[x][1] = "ready"
        /\ sem' = [sem EXCEPT ![x] = [k \in Sides |-> used[x][k] /\ sem[x][k]]]
        /\ used' = [used EXCEPT ![x] = [k \in Sides |-> FALSE]]
        /\ \A c \in Bikers \ {x} : pc'[c] = pc[c]
    BY <1>11, SettleRound
  <2>2. \A c \in Bikers : pc[c][1] \in {"settle", "ready", "out"}
    BY <2>1 DEF PhaseOK
  <2>3. \A m \in Bikers : \A k \in Sides : ~(used[m][k] /\ sem[m][k])
    BY <1>10, <2>2
  <2>4. /\ \A k \in Sides : ~sem'[x][k] /\ ~used'[x][k]
        /\ \A m \in Bikers \ {x} : \A k \in Sides : (sem'[m][k] <=> sem[m][k]) /\ (used'[m][k] <=> used[m][k])
    BY <1>0, <2>1, <2>3
  <2>5. ASSUME NEW m \in Bikers
        PROVE  ~Before(m) /\ ~Before(m)'
    BY <2>1, <2>2 DEF Before, Riding, Crossing, Cleared
  <2>6. ~After(x)'
    BY <2>1 DEF After, Ended, Gone
  <2>7. ASSUME NEW m \in Bikers \ {x}
        PROVE  After(m) <=> After(m)'
    BY <2>1 DEF After
  <2>8. ASSUME NEW m \in Bikers, NEW k \in Sides
        PROVE  Fine(m, k)'
    <3>1. CASE m = x
      BY <2>4, <2>5, <2>6, <3>1
    <3>2. CASE m # x
      BY <1>1, <2>1, <2>3, <2>4, <2>5, <2>7, <3>2
    <3> QED BY <3>1, <3>2
  <2> QED BY <2>8 DEF SemOK
<1>12. ASSUME Barr
       PROVE  SemOK'
  <2>1. /\ used' = used /\ sem' = sem
        /\ \A m \in Bikers : pc[m][1] \in {"barr", "quit", "out"} /\ pc'[m][1] \in {"settle", "out"}
                             /\ (pc'[m][1] = "settle" => pc[m][1] = "barr")
    BY <1>12, BarrOpens
  <2>2. \A m \in Bikers : \A k \in Sides : ~(used[m][k] /\ sem[m][k])
    BY <1>10, <2>1
  <2>3. \A m \in Bikers : ~Before(m)' /\ (After(m)' => After(m))
    BY <2>1 DEF Before, After, Riding, Crossing, Cleared, Ended, Gone
  <2>4. \A m \in Bikers : \A k \in Sides : Fine(m, k)'
    BY <1>1, <2>1, <2>2, <2>3
  <2> QED BY <2>4 DEF SemOK
<1>13. ASSUME Classify
       PROVE  SemOK'
  <2>1. /\ used' = used /\ sem' = sem
        /\ \A m \in Bikers : pc[m][1] \in {"ready", "out"} /\ pc'[m][1] \in {"look", "done", "out"}
                             /\ (pc'[m][1] # "out" => pc[m][1] = "ready")
    BY <1>13, ClassifyRound
  <2>2. \A m \in Bikers : \A k \in Sides : ~(used[m][k] /\ sem[m][k])
    BY <1>10, <2>1
  <2>3. \A m \in Bikers : ~After(m)' /\ (Before(m)' => pc[m][1] = "ready")
    BY <2>1 DEF Before, After, Riding, Crossing, Cleared, Ended, Gone
  <2>4. \A m \in Bikers : \A k \in Sides : Fine(m, k)'
    BY <1>1, <2>1, <2>2, <2>3
  <2> QED BY <2>4 DEF SemOK
<1>14. ASSUME UNCHANGED vars
       PROVE  SemOK'
  BY <1>14 DEF vars, SemOK, Before, After
<1> QED
  BY <1>4, <1>7, <1>8, <1>9, <1>11, <1>12, <1>13, <1>14, Steps

LEMMA UnlockStep ==
    ASSUME TypeOK, LanesOK, PhaseOK, MovedOK, WaitOK, SemOK, OneWaits, NoUnlockLost, [Next]_vars
    PROVE  NoUnlockLost'
<1>0. sem \in [Bikers -> [Sides -> BOOLEAN]]
  BY DEF TypeOK
<1> DEFINE Late(m) == pc[m][1] \in Ended \union {"ready"}
<1>1. \A b \in Bikers : pc[b][1] = "await" =>
         awaited[b] \in Bikers /\ (sem[awaited[b]][pc[b][2]] \/ ~Late(awaited[b]))
  BY DEF NoUnlockLost, WaitOK, Ended
<1>2. ASSUME NEW x \in Bikers, \A c \in Bikers \ {x} : pc'[c] = pc[c] /\ awaited'[c] = awaited[c],
             pc'[x][1] # "await", sem' = sem, Late(x)' => Late(x)
      PROVE  NoUnlockLost'
  <2>1. ASSUME NEW b \in Bikers, pc'[b][1] = "await"
        PROVE  sem'[awaited'[b]][pc'[b][2]] \/ ~Late(awaited[b])'
    <3>1. b # x /\ pc'[b] = pc[b] /\ awaited'[b] = awaited[b]
      BY <1>2, <2>1
    <3>2. awaited[b] \in Bikers /\ (sem[awaited[b]][pc[b][2]] \/ ~Late(awaited[b]))
      BY <1>1, <2>1, <3>1
    <3>3. Late(awaited[b])' => Late(awaited[b])
      BY <1>2, <3>1, <3>2
    <3> QED BY <1>2, <3>1, <3>2, <3>3
  <2> QED BY <2>1 DEF NoUnlockLost, Ended
<1>3. ASSUME NEW x \in Bikers, Prepares(x)
      PROVE  /\ ~Late(x)' /\ ~Late(x) /\ pc[x][1] \in Riding
             /\ \A c \in Bikers \ {x} : pc'[c] = pc[c] /\ awaited'[c] = awaited[c]
  <2>1. UNCHANGED awaited \/ \E v : awaited' = [awaited EXCEPT ![x] = v]
    BY <1>3, PreparesKinds DEF Finds, Await, waitVars
  <2>2. \A c \in Bikers \ {x} : awaited'[c] = awaited[c]
    BY <2>1 DEF TypeOK
  <2> QED BY <1>3, <2>2, PreparesInPlace DEF Riding, Crossing, Cleared, Ended, Gone
<1>4. ASSUME NEW x \in Bikers, NEW k \in Sides, NEW mem \in Bikers, Prepares(x), Finds(x, k, mem)
      PROVE  NoUnlockLost'
  <2>1. pc'[x] = <<"await", k>> /\ awaited'[x] = mem /\ ~moved[mem] /\ sem' = sem
    BY <1>4 DEF Finds
  <2>2. ~Late(mem)
    BY <1>3, <1>4, <2>1 DEF MovedOK, PhaseOK, Riding, Crossing, Cleared
  <2>3. \A m \in Bikers : Late(m)' => Late(m)
    BY <1>3, <1>4
  <2>4. ASSUME NEW b \in Bikers, pc'[b][1] = "await"
        PROVE  sem'[awaited'[b]][pc'[b][2]] \/ ~Late(awaited[b])'
    <3>1. CASE b = x
      <4>1. awaited'[b] = mem /\ mem \in Bikers
        BY <2>1, <3>1
      <4> QED BY <2>2, <2>3, <4>1
    <3>2. CASE b # x
      <4>1. pc'[b] = pc[b] /\ awaited'[b] = awaited[b]
        BY <1>3, <1>4, <3>2
      <4>2. awaited[b] \in Bikers /\ (sem[awaited[b]][pc[b][2]] \/ ~Late(awaited[b]))
        BY <1>1, <2>4, <4>1
      <4>3. Late(awaited[b])' => Late(awaited[b])
        BY <2>3, <4>1, <4>2
      <4> QED BY <2>1, <4>1, <4>2, <4>3
    <3> QED BY <3>1, <3>2
  <2> QED BY <2>4 DEF NoUnlockLost, Ended
<1>5. ASSUME NEW x \in Bikers, NEW k \in Sides, Prepares(x), Await(x, k)
      PROVE  NoUnlockLost'
  <2> DEFINE a == awaited[x]
  <2>1. /\ pc[x] = <<"await", k>> /\ sem' = [sem EXCEPT ![a][k] = FALSE] /\ AfterWait(x, k)
    BY <1>5 DEF Await
  <2>2. pc'[x][1] # "await"
    <3>1. pc'[x] \in {<<"try", 0>>, <<"probe", 1>>, <<"look", k + 1>>}
      BY <2>1, AfterWaitGoes
    <3> QED BY <3>1
  <2>3. \A m \in Bikers : Late(m)' => Late(m)
    BY <1>3, <1>5
  <2>4. ASSUME NEW b \in Bikers, pc'[b][1] = "await"
        PROVE  sem'[awaited'[b]][pc'[b][2]] \/ ~Late(awaited[b])'
    <3>1. b # x /\ pc'[b] = pc[b] /\ awaited'[b] = awaited[b] /\ pc[b][1] = "await"
      BY <1>3, <1>5, <2>2, <2>4
    <3>2. awaited[b] \in Bikers /\ (sem[awaited[b]][pc[b][2]] \/ ~Late(awaited[b]))
      BY <1>1, <3>1
    <3>3. Late(awaited[b])' => Late(awaited[b])
      BY <2>3, <3>1, <3>2
    <3>4. pc[b] = <<"await", pc[b][2]>> /\ pc[b][2] \in Sides
      BY <3>1, Parts
    <3>5. awaited[b] # a \/ pc[b][2] # k
      BY <2>1, <3>1, <3>4 DEF OneWaits
    <3>6. sem'[awaited[b]][pc[b][2]] <=> sem[awaited[b]][pc[b][2]]
      <4> HIDE DEF a
      <4> QED BY <1>0, <2>1, <3>2, <3>4, <3>5
    <3> QED BY <3>1, <3>2, <3>3, <3>6
  <2> QED BY <2>4 DEF NoUnlockLost, Ended
<1>6. ASSUME NEW x \in Bikers, Prepares(x)
      PROVE  NoUnlockLost'
  BY <1>2, <1>3, <1>4, <1>5, <1>6, PreparesKinds DEF waitVars
<1>7. ASSUME NEW x \in Bikers, CountsMove(x) \/ CountsLeaving(x) \/ \E t \in 0 .. 2 :
                (Enter(x, t) /\ road[Entered(x)] = Free) \/ Vacate(x, t) \/ Place(x, t)
      PROVE  NoUnlockLost'
  <2>1. /\ sem' = sem /\ awaited' = awaited
        /\ \A c \in Bikers \ {x} : pc'[c] = pc[c]
        /\ \/ pc'[x][1] \in {"done"} \union Crossing
           \/ pc[x][1] \in Gone /\ pc'[x][1] \in Gone
    BY <1>7, CountsOnly, EnterCell, VacateCell, PlaceBiker DEF Crossing
  <2>2. pc'[x][1] # "await" /\ (Late(x)' => Late(x))
    BY <2>1 DEF Crossing, Cleared, Ended, Gone
  <2> QED BY <1>2, <2>1, <2>2
<1>8. ASSUME NEW x \in Bikers, LapEnd(x) \/ LeaveRoad(x)
      PROVE  NoUnlockLost'
  <2>1. /\ pc[x][1] \in {"lap", "leave"} /\ pc'[x][1] \in {"barr", "leave", "lockOff"}
        /\ sem' = sem /\ awaited' = awaited
        /\ \A c \in Bikers \ {x} : pc'[c] = pc[c]
    BY <1>8, LapEnds, LeavesRoad
  <2> QED BY <1>2, <2>1 DEF Ended
<1>9. ASSUME NEW x \in Bikers, Done(x)
      PROVE  NoUnlockLost'
  <2>1. /\ pc'[x][1] \in {"lap", "barr"} /\ awaited' = awaited
        /\ sem' = [sem EXCEPT ![x] = [k \in Sides |-> TRUE]]
        /\ \A c \in Bikers \ {x} : pc'[c] = pc[c]
    BY <1>9, DoneRound
  <2>2. ASSUME NEW b \in Bikers, pc'[b][1] = "await"
        PROVE  sem'[awaited'[b]][pc'[b][2]] \/ ~Late(awaited[b])'
    <3>1. b # x /\ pc'[b] = pc[b] /\ awaited'[b] = awaited[b] /\ pc[b][2] \in Sides
      BY <2>1, <2>2, Parts
    <3>2. awaited[b] \in Bikers /\ (sem[awaited[b]][pc[b][2]] \/ ~Late(awaited[b]))
      BY <1>1, <2>2, <3>1
    <3>3. CASE awaited[b] = x
      BY <1>0, <2>1, <3>1, <3>3
    <3>4. CASE awaited[b] # x
      BY <1>0, <2>1, <3>1, <3>2, <3>4
    <3> QED BY <3>3, <3>4
  <2> QED BY <2>2 DEF NoUnlockLost, Ended
<1>10. ASSUME Barr \/ Classify \/ \E x \in Bikers : Settle(x)
       PROVE  NoUnlockLost'
  <2>1. \A c \in Bikers : pc'[c][1] \in {"settle", "ready", "out", "done", "look"}
    BY <1>10, BarrOpens, ClassifyRound, SettleRound DEF PhaseOK
  <2> QED BY <2>1 DEF NoUnlockLost
<1>11. ASSUME UNCHANGED vars
       PROVE  NoUnlockLost'
  BY <1>11 DEF vars, NoUnlockLost
<1> QED
  BY <1>6, <1>7, <1>8, <1>9, <1>10, <1>11, Steps

-----------------------------------------------------------------------------
(* The start. *)

\* The bikers start in cells of their own.
LEMMA StartCells ==
    /\ \A b \in Bikers : StartCell(b) \in Cells /\ StartCell(b) \in Meters \X Lanes /\ StartCell(b)[2] \in Lanes
    /\ \A b, c \in Bikers : StartCell(b) = StartCell(c) => b = c
<1>1. /\ NumBikers \in Nat \ {0} /\ Length \in Nat \ {0} /\ NumLanes \in Nat \ {0}
      /\ 2 * NumBikers <= NumLanes * Length
  BY SizeAssumption DEF Accepted
<1>2. ASSUME NEW b \in Bikers
      PROVE  /\ b \in Nat /\ b \div NumLanes \in 0 .. Length - 1 /\ b % NumLanes \in 0 .. NumLanes - 1
             /\ b = NumLanes * (b \div NumLanes) + (b % NumLanes)
  <2>1. b \in Nat /\ b < NumBikers
    BY <1>1 DEF Bikers
  <2>2. /\ b \div NumLanes \in Nat /\ b % NumLanes \in 0 .. NumLanes - 1
        /\ b = NumLanes * (b \div NumLanes) + (b % NumLanes)
    BY <1>1, <2>1, DivMod
  <2>3. b < NumLanes * Length
    <3>1. NumLanes * Length \in Int
      BY <1>1
    <3> QED BY <1>1, <2>1, <3>1
  <2>4. \A q, r \in Nat : NumLanes * q + r < NumLanes * Length => q < Length
    <3> SUFFICES ASSUME NEW q \in Nat, NEW r \in Nat, q >= Length
                 PROVE  NumLanes * q + r >= NumLanes * Length
      BY <1>1
    <3>1. PICK d \in Nat : q = Length + d
      <4>1. q - Length \in Nat /\ q = Length + (q - Length)
        BY <1>1
      <4> QED BY <4>1
    <3>2. NumLanes * q = NumLanes * Length + NumLanes * d
      BY <1>1, <3>1
    <3>3. NumLanes * d \in Nat /\ NumLanes * Length \in Nat
      BY <1>1
    <3> QED BY <3>2, <3>3
  <2>5. b \div NumLanes < Length
    <3>1. NumLanes * (b \div NumLanes) + (b % NumLanes) < NumLanes * Length /\ b % NumLanes \in Nat
      BY <1>1, <2>2, <2>3
    <3> QED BY <2>2, <2>4, <3>1
  <2> QED BY <1>1, <2>1, <2>2, <2>5
<1>3. \A q \in 0 .. Length - 1 : (Length - q - 1) % Length = Length - q - 1 /\ Length - q - 1 \in 0 .. Length - 1
  BY <1>1
<1>4. ASSUME NEW b \in Bikers
      PROVE  StartCell(b) = <<Length - (b \div NumLanes) - 1, b % NumLanes>>
  BY <1>2, <1>3 DEF StartCell
<1>5. \A b \in Bikers : StartCell(b) \in Cells /\ StartCell(b) \in Meters \X Lanes /\ StartCell(b)[2] \in Lanes
  BY <1>2, <1>3, <1>4 DEF Cells, Meters, Lanes
<1>6. ASSUME NEW b \in Bikers, NEW c \in Bikers, StartCell(b) = StartCell(c)
      PROVE  b = c
  <2>1. b \div NumLanes = c \div NumLanes /\ b % NumLanes = c % NumLanes
    <3>1. /\ Length - (b \div NumLanes) - 1 = Length - (c \div NumLanes) - 1
          /\ b % NumLanes = c % NumLanes
      BY <1>4, <1>6
    <3> QED BY <1>1, <1>2, <3>1
  <2>2. NumLanes * (b \div NumLanes) + (b % NumLanes) = NumLanes * (c \div NumLanes) + (c % NumLanes)
    BY <2>1
  <2> QED BY <1>2, <2>2
<1> QED
  BY <1>5, <1>6

\* The speedway is built one biker after the other.
LEMMA WithBikersDef ==
    \A n \in 0 .. NumBikers :
       WithBikers[n] = IF n = 0 THEN CreateSpeedway ELSE NewBiker(WithBikers[n - 1], n - 1)
<1> DEFINE Step(f, n) == IF n = 0 THEN CreateSpeedway ELSE NewBiker(f[n - 1], n - 1)
           Built(f, k) == f = [n \in 0 .. k |-> Step(f, n)]
           G == {k \in Nat : \E f : Built(f, k)}
<1>1. 0 \in G
  <2> DEFINE f0 == [n \in 0 .. 0 |-> CreateSpeedway]
  <2>1. Built(f0, 0)
    OBVIOUS
  <2> QED BY <2>1
<1>2. ASSUME NEW k \in Nat, k \in G
      PROVE  k + 1 \in G
  <2>1. PICK f : Built(f, k)
    BY <1>2
  <2> DEFINE h == [n \in 0 .. k + 1 |-> IF n = k + 1 THEN NewBiker(f[k], k) ELSE f[n]]
  <2>2. \A n \in 0 .. k : f[n] = Step(f, n)
    BY <2>1
  <2>3. ASSUME NEW n \in 0 .. k + 1
        PROVE  h[n] = Step(h, n)
    <3>1. CASE n = k + 1
      <4>1. n # 0 /\ n - 1 = k /\ k \in 0 .. k + 1 /\ k # k + 1
        BY <3>1
      <4>2. h[n - 1] = f[k] /\ h[n] = NewBiker(f[k], k)
        BY <3>1, <4>1
      <4> QED BY <4>1, <4>2
    <3>2. CASE n \in 1 .. k
      <4>1. n # 0 /\ n # k + 1 /\ n - 1 \in 0 .. k + 1 /\ n - 1 # k + 1 /\ n \in 0 .. k
        BY <3>2
      <4>2. h[n - 1] = f[n - 1] /\ h[n] = f[n]
        BY <4>1
      <4> QED BY <2>2, <4>1, <4>2
    <3>3. CASE n = 0
      <4>1. h[n] = f[n]
        BY <3>3
      <4> QED BY <2>2, <3>3, <4>1
    <3> QED BY <3>1, <3>2, <3>3
  <2>4. h = [n \in 0 .. k + 1 |-> h[n]]
    OBVIOUS
  <2> HIDE DEF h
  <2>5. Built(h, k + 1)
    BY <2>3, <2>4
  <2> QED BY <2>5
<1>3. \A k \in Nat : k \in G
  <2> HIDE DEF G
  <2> QED BY <1>1, <1>2, NaturalInduction
<1>4. NumBikers \in Nat
  BY SizeAssumption
<1>5. \E f : Built(f, NumBikers)
  BY <1>3, <1>4
<1>6. WithBikers = CHOOSE f : Built(f, NumBikers)
  BY DEF WithBikers
<1>7. Built(WithBikers, NumBikers)
  <2> HIDE DEF Built
  <2> QED BY <1>5, <1>6
<1> QED
  BY <1>7

\* The first n bikers are in their cells and counted.
LEMMA FirstBikers ==
    ASSUME NEW n \in 0 .. NumBikers
    PROVE  /\ WithBikers[n].road \in [Cells -> Bikers \union {Free}]
           /\ \A c \in Cells : \A b \in Bikers : WithBikers[n].road[c] = b <=> b < n /\ StartCell(b) = c
           /\ WithBikers[n].nbpl = [l \in Lanes |-> Cardinality({b \in Bikers : b < n /\ StartCell(b)[2] = l})]
<1> DEFINE In(l, k) == {b \in Bikers : b < k /\ StartCell(b)[2] = l}
           Fine(k) == /\ WithBikers[k].road \in [Cells -> Bikers \union {Free}]
                      /\ \A c \in Cells : \A b \in Bikers :
                            WithBikers[k].road[c] = b <=> b < k /\ StartCell(b) = c
                      /\ WithBikers[k].nbpl = [l \in Lanes |-> Cardinality(In(l, k))]
           G == {k \in Nat : k <= NumBikers => Fine(k)}
<1>1. NumBikers \in Nat /\ Bikers \subseteq Nat /\ Free \notin Bikers
  BY SizeAssumption DEF Bikers, Free
<1>2. 0 \in G
  <2>1. WithBikers[0] = CreateSpeedway
    BY <1>1, WithBikersDef
  <2>2. WithBikers[0].road = [c \in Cells |-> Free] /\ WithBikers[0].nbpl = [l \in Lanes |-> 0]
    BY <2>1 DEF CreateSpeedway
  <2>3. \A l : In(l, 0) = {}
    <3>1. \A b \in Bikers : ~(b < 0)
      BY <1>1
    <3> QED BY <3>1
  <2>4. \A l : Cardinality(In(l, 0)) = 0
    BY <2>3, FS_EmptySet
  <2> HIDE DEF In
  <2>5. Fine(0)
    BY <1>1, <2>2, <2>4
  <2> QED BY <2>5
<1>3. ASSUME NEW k \in Nat, k \in G
      PROVE  k + 1 \in G
  <2> SUFFICES ASSUME k + 1 <= NumBikers
               PROVE  Fine(k + 1)
    OBVIOUS
  <2>1. Fine(k) /\ k \in Bikers /\ k + 1 \in 0 .. NumBikers /\ k \in 0 .. NumBikers
    BY <1>1, <1>3 DEF Bikers
  <2>2. WithBikers[k + 1] = NewBiker(WithBikers[k], k)
    <3>1. k + 1 # 0 /\ (k + 1) - 1 = k
      OBVIOUS
    <3> QED BY <2>1, <3>1, WithBikersDef
  <2> DEFINE r == WithBikers[k].road
             c0 == StartCell(k)
  <2>3. c0 \in Cells /\ c0[2] \in Lanes /\ \A b \in Bikers : StartCell(b) = c0 => b = k
    BY <2>1, StartCells
  <2>4. /\ WithBikers[k + 1].road = [r EXCEPT ![c0] = k]
        /\ WithBikers[k + 1].nbpl = [WithBikers[k].nbpl EXCEPT ![c0[2]] = @ + 1]
    BY <2>2 DEF NewBiker
  <2>5. WithBikers[k + 1].road \in [Cells -> Bikers \union {Free}]
    BY <2>1, <2>3, <2>4
  <2>6. ASSUME NEW c \in Cells, NEW b \in Bikers
        PROVE  WithBikers[k + 1].road[c] = b <=> b < k + 1 /\ StartCell(b) = c
    <3>1. b < k + 1 <=> b < k \/ b = k
      BY <1>1
    <3>2. WithBikers[k + 1].road[c] = IF c = c0 THEN k ELSE r[c]
      BY <2>1, <2>4
    <3>3. r[c] = b <=> b < k /\ StartCell(b) = c
      BY <2>1
    <3> QED BY <1>1, <2>3, <3>1, <3>2, <3>3
  <2>7. \A l \in Lanes : In(l, k + 1) = IF l = c0[2] THEN In(l, k) \union {k} ELSE In(l, k)
    <3>1. \A b \in Bikers : b < k + 1 <=> b < k \/ b = k
      BY <1>1
    <3> QED BY <2>1, <3>1
  <2>8. \A l \in Lanes : In(l, k) \in SUBSET Bikers /\ k \notin In(l, k)
    BY <1>1
  <2>9. \A l \in Lanes : Cardinality(In(l, k) \union {k}) = Cardinality(In(l, k)) + 1
    BY <2>1, <2>8, OneInLane
  <2>10. \A l \in Lanes : Cardinality(In(l, k + 1)) = IF l = c0[2] THEN Cardinality(In(l, k)) + 1
                                                      ELSE Cardinality(In(l, k))
    BY <2>7, <2>9
  <2>11. WithBikers[k].nbpl = [l \in Lanes |-> Cardinality(In(l, k))]
    BY <2>1
  <2> HIDE DEF In
  <2>12. WithBikers[k + 1].nbpl = [l \in Lanes |-> Cardinality(In(l, k + 1))]
    BY <2>3, <2>4, <2>10, <2>11
  <2> QED BY <2>5, <2>6, <2>12
<1>4. \A k \in Nat : k \in G
  <2> HIDE DEF G
  <2> QED BY <1>2, <1>3, NaturalInduction
<1> QED
  BY <1>1, <1>4

LEMMA InitIInv ==
    ASSUME Init
    PROVE  IInv
<1>1. /\ NumBikers \in Nat \ {0} /\ Slow \in Nat \ {0} /\ Laps \in Nat
      /\ 0 \in 0 .. Slow - 1 /\ -1 \in -1 .. Laps /\ -1 < Laps /\ 0 % Slow = 0
  BY SizeAssumption
<1>2. /\ NewBikers.road \in [Cells -> Bikers \union {Free}]
      /\ \A c \in Cells : \A b \in Bikers : NewBikers.road[c] = b <=> StartCell(b) = c
      /\ NewBikers.nbpl = [l \in Lanes |-> Cardinality({b \in Bikers : StartCell(b)[2] = l})]
  <2>1. NumBikers \in 0 .. NumBikers /\ \A b \in Bikers : b < NumBikers
    BY <1>1 DEF Bikers
  <2>2. \A l : {b \in Bikers : b < NumBikers /\ StartCell(b)[2] = l} = {b \in Bikers : StartCell(b)[2] = l}
    BY <2>1
  <2> QED BY <2>1, <2>2, FirstBikers DEF NewBikers
<1>3. /\ \A b \in Bikers : pc[b] = <<"look", 0>> /\ at[b] = StartCell(b) /\ lap[b] = -1
      /\ \A b \in Bikers : ~moved[b] /\ \A k \in Sides : ~used[b][k] /\ ~sem[b][k]
      /\ road = NewBikers.road /\ nbpl = NewBikers.nbpl
  BY DEF Init
<1>4. \A l : {b \in Bikers : StartCell(b)[2] = l} = {b \in Bikers : CountedIn(l, b)}
  BY <1>3 DEF CountedIn
<1>5. \A l : Cardinality({b \in Bikers : StartCell(b)[2] = l}) \in 0 .. NumBikers
  <2>1. \A l : {b \in Bikers : StartCell(b)[2] = l} \in SUBSET Bikers
    OBVIOUS
  <2> QED BY <2>1, BikersFinite
<1>6. nbpl \in [Lanes -> 0 .. NumBikers]
  <2>1. nbpl = [l \in Lanes |-> Cardinality({b \in Bikers : StartCell(b)[2] = l})]
    BY <1>2, <1>3
  <2> QED BY <1>5, <2>1
<1>7. pc \in [Bikers -> Stages \X Sides] /\ at \in [Bikers -> Meters \X Lanes]
  BY StartCells DEF Init, Stages, Sides
<1>8. TypeOK
  BY <1>1, <1>2, <1>6, <1>7 DEF Init, TypeOK
<1>9. LaneCountsExact
  <2>1. \A l \in Lanes : nbpl[l] = Cardinality({b \in Bikers : StartCell(b)[2] = l})
    BY <1>2, <1>3
  <2> QED BY <1>4, <2>1 DEF LaneCountsExact
<1>10. RoadMatchesBikers
  <2>1. \A b \in Bikers : CellsOf(b) = {StartCell(b)}
    BY <1>3, <1>8, CellsByStage DEF Cleared, Gone
  <2>2. \A b \in Bikers : StartCell(b) \in Cells
    BY StartCells
  <2> QED BY <1>2, <1>3, <2>1, <2>2 DEF RoadMatchesBikers
<1>11. LanesOK /\ LapsOK /\ PhaseOK /\ MovedOK /\ MutexOK /\ LoadedOK
  BY <1>1, <1>3 DEF LanesOK, LapsOK, PhaseOK, MovedOK, MutexOK, LoadedOK,
                    Holders, Crossing, Cleared, Riding, Ended, Gone
<1>12. AheadOK /\ BelowOK /\ WaitOK /\ OneWaits /\ SemOK /\ NoUnlockLost
  BY <1>3 DEF AheadOK, BelowOK, WaitOK, OneWaits, SemOK, NoUnlockLost,
              Crossing, Cleared, Past, Before, After, Riding, Ended, Gone
<1> QED
  BY <1>8, <1>9, <1>10, <1>11, <1>12 DEF IInv

-----------------------------------------------------------------------------
(* Circles of waits. *)

\* Meters that hold the next one of each are all the meters.
LEMMA AroundTheRoad ==
    ASSUME NEW n \in Nat \ {0}, NEW S, S \subseteq 0 .. n - 1, S # {},
           \A i \in S : (i + 1) % n \in S
    PROVE  S = 0 .. n - 1
<1>1. \A i \in 0 .. n - 1 : (i + 1) % n = IF i = n - 1 THEN 0 ELSE i + 1
  OBVIOUS
<1>2. n - 1 \in S
  <2>1. IsFiniteSet(0 .. n - 1)
    BY FS_Interval
  <2>2. S \in SUBSET (0 .. n - 1) /\ S \subseteq Int
    OBVIOUS
  <2>3. IsFiniteSet(S)
    BY <2>1, <2>2, FS_Subset
  <2>4. PICK m \in S : \A y \in S : y <= m
    BY <2>2, <2>3, MaxIn
  <2>5. CASE m # n - 1
    <3>1. m \in 0 .. n - 1 /\ (m + 1) % n = m + 1
      BY <1>1, <2>5
    <3>2. m + 1 \in S
      BY <3>1
    <3>3. m + 1 <= m
      BY <2>4, <3>2
    <3> QED BY <3>1, <3>3
  <2> QED BY <2>5
<1>3. 0 \in S
  BY <1>1, <1>2
<1> DEFINE G == {k \in Nat : k <= n - 1 => k \in S}
<1>4. ASSUME NEW k \in Nat, k \in G
      PROVE  k + 1 \in G
  BY <1>1, <1>4
<1>5. \A k \in Nat : k \in G
  <2>1. 0 \in G
    BY <1>3
  <2> HIDE DEF G
  <2> QED BY <1>4, <2>1, NaturalInduction
<1>6. ASSUME NEW i \in 0 .. n - 1
      PROVE  i \in S
  <2>1. i \in Nat /\ i <= n - 1
    OBVIOUS
  <2> QED BY <1>5, <2>1
<1> QED
  BY <1>6

\* In a circle nobody has moved: who is waited for is in the cell watched.
LEMMA CircleWatches ==
    ASSUME IInv, NEW s \in Circles, NEW b \in s
    PROVE  /\ b \in Bikers /\ pc[b][1] = "await"
           /\ \E m \in s : at[m] = WatchedCell(b, pc[b][2])
<1>1. s \subseteq {c \in Bikers : pc[c][1] = "await"} /\ \E m \in s : WaitsOn(b, m)
  BY DEF Circles
<1>2. PICK m \in s : WaitsOn(b, m)
  BY <1>1
<1>3. b \in Bikers /\ pc[b][1] = "await" /\ m \in Bikers /\ pc[m][1] = "await" /\ awaited[b] = m
  BY <1>1, <1>2 DEF WaitsOn
<1>4. ~moved[m] /\ pc[m][1] \notin Crossing
  BY <1>3 DEF IInv, MovedOK, Riding, Crossing, Cleared
<1>5. at[m] = WatchedCell(b, pc[b][2])
  BY <1>3, <1>4 DEF IInv, WaitOK
<1> QED
  BY <1>3, <1>5

\* Somebody of a circle is on the meter after each biker of it: of those on one
\* meter the one of the innermost lane waits for nobody beside it.
LEMMA CircleGoesOn ==
    ASSUME IInv, NEW s \in Circles, NEW b \in s
    PROVE  \E c \in s : at[c][1] = NextMeter(b)
<1> DEFINE T == {at[c][2] : c \in {x \in s : at[x][1] = at[b][1]}}
<1>1. TypeOK
  BY DEF IInv
<1>2. \A c \in s : c \in Bikers /\ at[c][2] \in Nat /\ at[c][2] \in Int /\ pc[c][2] \in Sides
  BY <1>1, CircleWatches, Parts DEF Lanes
<1>3. T \subseteq Nat /\ T # {}
  BY <1>2
<1>4. Min(T) \in T /\ \A l \in T : Min(T) <= l
  <2> HIDE DEF T
  <2> QED BY <1>3, MinIn
<1>5. PICK c \in s : at[c][1] = at[b][1] /\ at[c][2] = Min(T)
  BY <1>4
<1>6. PICK m \in s : at[m] = WatchedCell(c, pc[c][2])
  BY CircleWatches
<1>7. pc[c][2] # 3
  <2> SUFFICES ASSUME pc[c][2] = 3
               PROVE  FALSE
    OBVIOUS
  <2>1. at[m][1] = at[b][1] /\ at[m][2] = at[c][2] - 1
    <3>1. WatchedCell(c, 3) = <<at[c][1], at[c][2] + (-1)>>
      BY DEF WatchedCell, WatchedLane
    <3>2. at[m] = <<at[c][1], at[c][2] + (-1)>>
      BY <1>6, <3>1
    <3>3. at[m][1] = at[c][1] /\ at[m][2] = at[c][2] + (-1)
      BY <3>2
    <3>4. at[c][2] + (-1) = at[c][2] - 1
      BY <1>2
    <3> QED BY <1>5, <3>3, <3>4
  <2>2. at[m][2] \in T
    BY <2>1
  <2>3. at[c][2] <= at[m][2]
    BY <1>4, <1>5, <2>2
  <2> QED BY <1>2, <2>1, <2>3
<1>8. at[m][1] = NextMeter(c)
  BY <1>6, <1>7 DEF WatchedCell
<1>9. NextMeter(c) = NextMeter(b)
  BY <1>5 DEF NextMeter
<1> QED
  BY <1>8, <1>9

LEMMA CirclesGoAround == IInv => CircleGoesAround
<1> SUFFICES ASSUME IInv, NEW s \in Circles
             PROVE  \A i \in Meters : \E b \in s : at[b][1] = i
  BY DEF CircleGoesAround
<1> DEFINE S == {at[b][1] : b \in s}
<1>1. \A b \in s : at[b][1] \in Meters
  BY CircleWatches, Parts DEF IInv
<1>2. S \subseteq 0 .. Length - 1 /\ S # {}
  <2>1. s # {}
    BY DEF Circles
  <2>2. \A i \in S : i \in Meters
    BY <1>1
  <2>3. S # {}
    BY <2>1
  <2> QED BY <2>2, <2>3 DEF Meters
<1>3. \A i \in S : (i + 1) % Length \in S
  BY CircleGoesOn DEF NextMeter
<1>4. S = 0 .. Length - 1
  <2>1. Length \in Nat \ {0}
    BY SizeAssumption
  <2> HIDE DEF S
  <2> QED BY <1>2, <1>3, <2>1, AroundTheRoad
<1> QED
  BY <1>4 DEF Meters

-----------------------------------------------------------------------------
(* The theorems. *)

\* The invariant holds in every state of every run.
THEOREM Invariant == Spec => []IInv
<1>1. Init => IInv
  BY InitIInv
<1>2. IInv /\ [Next]_vars => IInv'
  BY TypeStep, RoadStep, MutexStep, CountStep, LanesStep, PhaseStep, MovedStep, AheadStep, BelowStep,
     WaitStep, OneWaitsStep, SemStep, UnlockStep DEF IInv
<1> QED
  BY <1>1, <1>2, PTL DEF Spec

\* Every variable of biker_loop and of the speedway stays in its range; nbpl
\* never goes below zero or above the number of bikers.
THEOREM TypeCorrect == Spec => []TypeOK
<1>1. IInv => TypeOK
  BY DEF IInv
<1> QED
  BY <1>1, Invariant, PTL

\* try_move and the ends of the race keep the road and the bikers' positions
\* in agreement, although they write the cells one after the other.
THEOREM RoadCorrect == Spec => []RoadMatchesBikers
<1>1. IInv => RoadMatchesBikers
  BY DEF IInv
<1> QED
  BY <1>1, Invariant, PTL

\* No -- or ++ of nbpl is lost, although each is a load and a store: mymtx is taken
\* around those of try_move and of both ways to leave the road, so what a biker has
\* loaded is still there when it writes.
THEOREM CountsCorrect == Spec => []LaneCountsExact
<1>1. IInv => LaneCountsExact
  BY DEF IInv
<1> QED
  BY <1>1, Invariant, PTL

\* Nobody tries its moves while the biker ahead in its lane has still to move.
THEOREM WaitsForTheOneAhead == Spec => []AheadHasMoved
<1>1. IInv => AheadHasMoved
  <2> SUFFICES ASSUME IInv, NEW b \in Bikers, pc[b][1] \in {"try", "see", "move"},
                      road[Ahead(b)] # Free, at[road[Ahead(b)]] = Ahead(b)
               PROVE  moved[road[Ahead(b)]]
    BY DEF AheadHasMoved, Ahead
  <2>1. Ahead(b) \in Cells
    BY Parts DEF IInv, Ahead, Cells
  <2>2. road[Ahead(b)] \in Bikers
    BY <2>1 DEF IInv, TypeOK
  <2>3. Past(b)
    BY DEF Past
  <2> QED BY <2>2, <2>3 DEF IInv, AheadOK
<1> QED
  BY <1>1, Invariant, PTL

\* No unlock is lost on a biker that waits, although a semaphore that is unlocked
\* once can wake one waiter only: on every road there is no other.
THEOREM UnlocksReachWaiters == Spec => []NoUnlockLost
<1>1. IInv => NoUnlockLost
  BY DEF IInv
<1> QED
  BY <1>1, Invariant, PTL

\* When a biker takes its semaphores back the handshakes of the round are over.
THEOREM RoundsEndClean == Spec => []HandshakesOver
<1>1. IInv => HandshakesOver
  BY DEF IInv, HandshakesOver, SemOK, PhaseOK, After, Ended
<1> QED
  BY <1>1, Invariant, PTL

\* Bikers that wait for each other in a circle are on every meter of the road:
\* the waits for the lanes beside always end at somebody further ahead.
THEOREM CirclesAreAround == Spec => []CircleGoesAround
<1> QED
  BY CirclesGoAround, Invariant, PTL

\* So no round can stop that way once there are fewer bikers than meters.
THEOREM FewBikersNoCircle ==
    ASSUME NumBikers < Length
    PROVE  Spec => []NoCircle
<1>1. IInv => NoCircle
  <2> SUFFICES ASSUME IInv, NEW s \in Circles
               PROVE  FALSE
    BY DEF NoCircle
  <2>1. \A i \in Meters : \E b \in s : at[b][1] = i
    BY CirclesGoAround DEF CircleGoesAround
  <2>2. s \in SUBSET Bikers
    BY DEF Circles
  <2>3. IsFiniteSet(s) /\ Cardinality(s) \in 0 .. NumBikers
    BY <2>2, BikersFinite
  <2> DEFINE f == [b \in s |-> at[b][1]]
  <2>4. f \in Surjection(s, {f[b] : b \in s})
    BY DEF Surjection
  <2>5. /\ IsFiniteSet({f[b] : b \in s})
        /\ Cardinality({f[b] : b \in s}) <= Cardinality(s)
    <3> HIDE DEF f
    <3> QED BY <2>3, <2>4, FS_Surjection
  <2>6. Meters \subseteq {f[b] : b \in s}
    BY <2>1
  <2>7. Length \in Nat \ {0} /\ NumBikers \in Nat
    BY SizeAssumption
  <2>8. Cardinality(Meters) = Length
    BY <2>7, FS_Interval DEF Meters
  <2>9. Cardinality(Meters) <= Cardinality({f[b] : b \in s}) /\ Cardinality({f[b] : b \in s}) \in Nat
    <3> HIDE DEF f
    <3> QED BY <2>5, <2>6, FS_Subset, FS_CardinalityType
  <2> QED BY <2>3, <2>5, <2>7, <2>8, <2>9
<1> QED
  BY <1>1, Invariant, PTL

=============================================================================
