------------------------------ MODULE RoadMoves ------------------------------
(***************************************************************************)
(* How the bikers of the velodrome simulator move (biker_loop and try_move *)
(* in biker.c) and how main keeps them from waiting in a circle            *)
(* (bikeSim.c, graph.c).  In every round a biker first waits for the       *)
(* bikers that could be in its way: it sets used_mtx[k] of that biker and  *)
(* locks its mtxs[k], a mutex used as a binary semaphore that the other    *)
(* unlocks once it has moved.  Then it tries the inner lane, its own lane  *)
(* and the outer lane.  The counts nbpl and many cells are read without    *)
(* their mutex, so looking, probing, moving and each write of the counts,  *)
(* which happen under mymtx, are separate steps.                           *)
(*                                                                         *)
(* The barriers are the steps Barr and Classify, which all bikers take     *)
(* together: BikeRace models how the barriers achieve that.                *)
(***************************************************************************)
EXTENDS Integers, FiniteSets

CONSTANTS
    NumBikers,  \* num_bikers
    Length,     \* speedway.length
    NumLanes,   \* NUM_LANES, 10 in the code
    Laps,       \* speedway.laps
    Span,       \* laps between two chances to break, 15 in the code
    Slow,       \* rounds per meter at 30 km/h, 6 in the code,
    Medium,     \* at 60 km/h, 3 in the code
    Fast        \* and at 90 km/h, 2 in the code

\* The arguments main accepts: at most 5 bikers per meter of the 10 lanes.  The
\* least sizes, 250 meters and 6 bikers, are given up for small instances.
Accepted(road_sz, num_bikers) == 2 * num_bikers <= NumLanes * road_sz

ASSUME SizeAssumption ==
    /\ {NumBikers, Length, NumLanes, Slow, Medium, Fast, Span} \subseteq Nat \ {0}
    /\ Laps \in Nat
    /\ Accepted(Length, NumBikers)
    /\ Slow % Medium = 0 /\ Slow % Fast = 0

\* No lap is both the last one and one to break after (laps is a multiple of 20).
ASSUME LapsAssumption == (Laps + 1) % Span # 0

Bikers == 0 .. NumBikers - 1
Meters == 0 .. Length - 1
Lanes == 0 .. NumLanes - 1
Cells == Meters \X Lanes
Free == -1

\* What mtxs[k] of a biker is for: the bikers behind it that wait at its top
\* left (0), left (1), bottom left (2) and bottom (3).
Sides == 0 .. 3

VARIABLES
    pc,        \* <<stage, k>>: k is the side waited on or the lane tried
    at,        \* <<self->i, self->j>>
    road,      \* speedway.road
    nbpl,      \* speedway.nbpl, the number of bikers per lane
    mymtx,     \* speedway.mymtx: the biker that holds it
    count,     \* the entry of nbpl that a biker loaded and is about to write
    moved,     \* self->moved
    moveType,  \* self->moveType as a subset of {"TOP", "DOWN"}
    used,      \* self->used_mtx
    sem,       \* self->mtxs: TRUE when unlocked
    awaited,   \* the biker whose mutex is being locked
    par,       \* par modulo Slow
    speed,     \* self->speed
    lap        \* self->lap

vars == <<pc, at, road, nbpl, mymtx, count, moved, moveType, used, sem, awaited, par, speed, lap>>

rideVars == <<par, speed, lap, moveType>>
laneVars == <<nbpl, mymtx, count>>
placeVars == <<at, road, laneVars, moved>>
waitVars == <<used, sem, awaited>>

-----------------------------------------------------------------------------
\* try_move once the new cell is taken, both it and the old one locked: the old
\* one is still held in the first of these stages, and cleared in the others.
Cleared == {"lock", "countOut", "countIn", "unlock", "place"}
Crossing == {"enter"} \union Cleared

\* A biker that took itself off the road.
Gone == {"lockOff", "countOff", "unlockOff", "quit", "out"}

Stages == {"look", "probe", "await", "try", "see", "move", "done", "lap", "leave", "barr",
           "settle", "ready"} \union Crossing \union Gone

\* The bikers that left the race.
Out == {b \in Bikers : pc[b][1] = "out"}

NextMeter(b) == (at[b][1] + 1) % Length
Exists(lane) == lane \in Lanes

\* The cell a biker enters, and those whose mutex try_move holds.
Entered(b) == <<NextMeter(b), at[b][2] + pc[b][2] - 1>>

Locked(cell) == \E b \in Bikers : pc[b][1] \in Crossing /\ cell \in {at[b], Entered(b)}

TypeOK ==
    /\ pc \in [Bikers -> Stages \X Sides]
    /\ at \in [Bikers -> Meters \X Lanes]
    /\ road \in [Cells -> Bikers \union {Free}]
    /\ nbpl \in [Lanes -> 0 .. NumBikers]
    /\ mymtx \in Bikers \union {Free}
    /\ count \in [Bikers -> 0 .. NumBikers]
    /\ moved \in [Bikers -> BOOLEAN]
    /\ moveType \in [Bikers -> SUBSET {"TOP", "DOWN"}]
    /\ used \in [Bikers -> [Sides -> BOOLEAN]]
    /\ sem \in [Bikers -> [Sides -> BOOLEAN]]
    /\ awaited \in [Bikers -> Bikers \union {Free}]
    /\ par \in [Bikers -> 0 .. Slow - 1]
    /\ speed \in [Bikers -> {Slow, Medium, Fast}]
    /\ lap \in [Bikers -> -1 .. Laps]

\* Rows of bikers behind the starting line.
StartCell(b) == <<(Length - b \div NumLanes - 1) % Length, b % NumLanes>>

\* create_speedway: an empty road.
CreateSpeedway == [road |-> [c \in Cells |-> Free], nbpl |-> [l \in Lanes |-> 0]]

\* new_biker puts a biker on the road, whatever is in its cell.
NewBiker(speedway, b) ==
    [road |-> [speedway.road EXCEPT ![StartCell(b)] = b],
     nbpl |-> [speedway.nbpl EXCEPT ![StartCell(b)[2]] = @ + 1]]

\* The speedway with the first n bikers, in the order main makes them.
WithBikers[n \in 0 .. NumBikers] ==
    IF n = 0 THEN CreateSpeedway ELSE NewBiker(WithBikers[n - 1], n - 1)

NewBikers == WithBikers[NumBikers]

Init ==
    /\ pc = [b \in Bikers |-> <<"look", 0>>]
    /\ at = [b \in Bikers |-> StartCell(b)]
    /\ road = NewBikers.road /\ nbpl = NewBikers.nbpl
    /\ mymtx = Free /\ count = [b \in Bikers |-> 0]
    /\ moved = [b \in Bikers |-> FALSE]
    /\ moveType = [b \in Bikers |-> {"TOP", "DOWN"}]
    /\ used = [b \in Bikers |-> [k \in Sides |-> FALSE]]
    /\ sem = [b \in Bikers |-> [k \in Sides |-> FALSE]]
    /\ awaited = [b \in Bikers |-> Free]
    /\ par = [b \in Bikers |-> 0]
    /\ speed = [b \in Bikers |-> Slow]
    /\ lap = [b \in Bikers |-> -1]

-----------------------------------------------------------------------------
(* Waiting for the bikers in the way: k = 0 top diagonal, 1 ahead, 2 bottom
   diagonal, 3 the lane just above. *)

Goes(b, stage, k) == pc' = [pc EXCEPT ![b] = <<stage, k>>]

\* Mutant: nobody waits for the biker ahead.
AfterWaitSkipsAhead(b, k) ==
    IF k = 3 THEN Goes(b, "try", 0) ELSE Goes(b, "look", IF k = 0 THEN 2 ELSE k + 1)

\* The one ahead is waited for in any case.
AfterWait(b, k) ==
    IF k = 3 THEN Goes(b, "try", 0) ELSE Goes(b, IF k = 0 THEN "probe" ELSE "look", k + 1)

WatchedLane(b, k) == at[b][2] + (IF k = 3 THEN -1 ELSE k - 1)

\* Mutant: below, the cell beside is watched instead of the one ahead of it.
WatchedCellBeside(b, k) == <<IF k \in {2, 3} THEN at[b][1] ELSE NextMeter(b), WatchedLane(b, k)>>

WatchedCell(b, k) == <<IF k = 3 THEN at[b][1] ELSE NextMeter(b), WatchedLane(b, k)>>

\* The mutex taken to look at the watched cell; for the lane just above it is
\* the one of the cell ahead of it.
ProbeCell(b, k) == <<NextMeter(b), WatchedLane(b, k)>>

\* A lane is open when it can still take a biker.
Open(lane) == Exists(lane) /\ nbpl[lane] < Length - 1

\* The conditions before the mutex of the watched cell is taken.
Look(b, k) ==
    /\ pc[b] = <<"look", k>>
    /\ IF /\ Open(WatchedLane(b, k))
          /\ k = 0 => "TOP" \in moveType[b]
          /\ k = 2 => "DOWN" \in moveType[b]
       THEN Goes(b, "probe", k)
       ELSE AfterWait(b, k)
    /\ UNCHANGED <<placeVars, waitVars, rideVars>>

\* Under that mutex: is there a biker that has not moved yet?
Probe(b, k) ==
    /\ pc[b] = <<"probe", k>>
    /\ ~Locked(ProbeCell(b, k))
    /\ LET mem == road[WatchedCell(b, k)] IN
         IF mem # Free /\ ~moved[mem]
         THEN /\ used' = [used EXCEPT ![mem][k] = TRUE]
              /\ awaited' = [awaited EXCEPT ![b] = mem]
              /\ Goes(b, "await", k)
         ELSE AfterWait(b, k) /\ UNCHANGED <<used, awaited>>
    /\ UNCHANGED <<sem, placeVars, rideVars>>

\* P(&bikers[mem]->mtxs[k])
Await(b, k) ==
    /\ pc[b] = <<"await", k>>
    /\ sem[awaited[b]][k]
    /\ sem' = [sem EXCEPT ![awaited[b]][k] = FALSE]
    /\ awaited' = [awaited EXCEPT ![b] = Free]
    /\ AfterWait(b, k)
    /\ UNCHANGED <<used, placeVars, rideVars>>

-----------------------------------------------------------------------------
(* Trying the inner lane (t = 0), the own lane (1) and the outer lane (2). *)

AfterTry(b, t) ==
    IF t = 2 THEN Goes(b, "done", 0) ELSE Goes(b, IF t = 0 THEN "move" ELSE "try", t + 1)

\* moveType forbids the inner lane only.
Try(b, t) ==
    /\ pc[b] = <<"try", t>>
    /\ IF Open(at[b][2] + t - 1) /\ (t = 0 => "TOP" \in moveType[b])
       THEN Goes(b, "see", t)
       ELSE AfterTry(b, t)
    /\ UNCHANGED <<placeVars, waitVars, rideVars>>

\* No overtaking on the inner lane, no cutting in on the biker just below:
\* cells read without a mutex.
See(b, t) ==
    /\ pc[b] = <<"see", t>>
    /\ LET ahead == road[<<NextMeter(b), at[b][2]>>]
           below == road[<<at[b][1], at[b][2] + 1>>]
       IN  IF \/ t = 0 /\ ahead = Free
              \/ t = 2 /\ (below = Free \/ moved[below])
           THEN Goes(b, "move", t)
           ELSE AfterTry(b, t)
    /\ UNCHANGED <<placeVars, waitVars, rideVars>>

\* Mutant: try_move trusts what was seen before the mutex was taken.
EnterUnchecked(b, t) ==
    /\ pc[b] = <<"move", t>>
    /\ ~Locked(Entered(b)) /\ ~Locked(at[b])
    /\ road' = [road EXCEPT ![Entered(b)] = b]
    /\ Goes(b, "enter", t)
    /\ UNCHANGED <<at, laneVars, moved, waitVars, rideVars>>

\* try_move: the new cell is taken if it is free, ...
Enter(b, t) ==
    /\ pc[b] = <<"move", t>>
    /\ ~Locked(Entered(b))
    /\ IF road[Entered(b)] = Free
       THEN /\ ~Locked(at[b])
            /\ road' = [road EXCEPT ![Entered(b)] = b]
            /\ Goes(b, "enter", t)
       ELSE /\ AfterTry(b, t)
            /\ UNCHANGED road
    /\ UNCHANGED <<at, laneVars, moved, waitVars, rideVars>>

\* ... the old one is left ...
Vacate(b, t) ==
    /\ pc[b] = <<"enter", t>>
    /\ road' = [road EXCEPT ![at[b]] = Free]
    /\ Goes(b, IF t = 1 THEN "place" ELSE "lock", t)
    /\ UNCHANGED <<at, laneVars, moved, waitVars, rideVars>>

\* ... the counts of the two lanes follow (below), and the position and moved
\* before the mutexes of the cells are released.  Other threads do not read i and j.
Place(b, t) ==
    /\ pc[b] = <<"place", t>>
    /\ at' = [at EXCEPT ![b] = Entered(b)]
    /\ moved' = [moved EXCEPT ![b] = TRUE]
    /\ Goes(b, "done", 1)
    /\ UNCHANGED <<road, laneVars, waitVars, rideVars>>

-----------------------------------------------------------------------------
(* The counts of the lanes, when a biker changes lanes (t = 0 or 2).  -- and ++
   are a load and a store.  The load is in the step before: nobody else can
   write in between as long as all writers take mymtx. *)

\* Mutant: without P(&speedway.mymtx).
LockLanesUnheld(b, t) ==
    /\ pc[b] = <<"lock", t>>
    /\ mymtx' = b
    /\ count' = [count EXCEPT ![b] = nbpl[at[b][2]]]
    /\ Goes(b, "countOut", t)
    /\ UNCHANGED <<nbpl, at, road, moved, waitVars, rideVars>>

\* P(&speedway.mymtx)
LockLanes(b, t) ==
    /\ pc[b] = <<"lock", t>>
    /\ mymtx = Free
    /\ mymtx' = b
    /\ count' = [count EXCEPT ![b] = nbpl[at[b][2]]]
    /\ Goes(b, "countOut", t)
    /\ UNCHANGED <<nbpl, at, road, moved, waitVars, rideVars>>

\* nbpl[j]--
CountOut(b, t) ==
    /\ pc[b] = <<"countOut", t>>
    /\ nbpl' = [nbpl EXCEPT ![at[b][2]] = count[b] - 1]
    /\ count' = [count EXCEPT ![b] = nbpl[Entered(b)[2]]]
    /\ Goes(b, "countIn", t)
    /\ UNCHANGED <<mymtx, at, road, moved, waitVars, rideVars>>

\* nbpl[next_lane]++
CountIn(b, t) ==
    /\ pc[b] = <<"countIn", t>>
    /\ nbpl' = [nbpl EXCEPT ![Entered(b)[2]] = count[b] + 1]
    /\ count' = [count EXCEPT ![b] = 0]
    /\ Goes(b, "unlock", t)
    /\ UNCHANGED <<mymtx, at, road, moved, waitVars, rideVars>>

\* V(&speedway.mymtx)
UnlockLanes(b, t) ==
    /\ pc[b] = <<"unlock", t>>
    /\ mymtx' = Free
    /\ Goes(b, "place", t)
    /\ UNCHANGED <<nbpl, count, at, road, moved, waitVars, rideVars>>

-----------------------------------------------------------------------------
(* The rest of the round. *)

\* Mutant: only the first three semaphores are unlocked.
DoneForgetsBottom(b) ==
    /\ pc[b][1] = "done"
    /\ moved' = [moved EXCEPT ![b] = TRUE]
    /\ sem' = [sem EXCEPT ![b] = [k \in Sides |-> k # 3]]
    /\ par' = [par EXCEPT ![b] = (@ + 1) % Slow]
    /\ moveType' = [moveType EXCEPT ![b] = {"TOP", "DOWN"}]
    /\ Goes(b, IF pc[b][2] = 1 /\ at[b][1] = 0 THEN "lap" ELSE "barr", 0)
    /\ UNCHANGED <<at, road, laneVars, used, awaited, speed, lap>>

\* self->moved, V of the four semaphores, par++, moveType = TOPDOWN.  The stage
\* remembers whether the biker moved in this round.
Done(b) ==
    /\ pc[b][1] = "done"
    /\ moved' = [moved EXCEPT ![b] = TRUE]
    /\ sem' = [sem EXCEPT ![b] = [k \in Sides |-> TRUE]]
    /\ par' = [par EXCEPT ![b] = (@ + 1) % Slow]
    /\ moveType' = [moveType EXCEPT ![b] = {"TOP", "DOWN"}]
    /\ Goes(b, IF pc[b][2] = 1 /\ at[b][1] = 0 THEN "lap" ELSE "barr", 0)
    /\ UNCHANGED <<at, road, laneVars, used, awaited, speed, lap>>

\* randint(0, 100)
Randint == 0 .. 99

\* event(percent / 100): what may come of it.
Event(percent) == {roll < percent : roll \in Randint}

\* calc_new_speed: a coin between Slow and Medium; the one fast biker, drawn
\* by add_score, rides its last laps at Fast and stays there.
NewSpeeds(b) ==
    (IF speed[b] \in {Slow, Medium}
     THEN {IF faster THEN Medium ELSE Slow : faster \in Event(IF speed[b] = Slow THEN 70 ELSE 50)}
     ELSE {speed[b]})
    \union (IF lap[b] + 1 >= Laps - 2 THEN {Fast} ELSE {})

\* Mutant: no biker ever finishes.
LapEndNeverFinishes(b) ==
    /\ pc[b][1] = "lap"
    /\ lap' = [lap EXCEPT ![b] = @ + 1]
    /\ \E s \in NewSpeeds(b) : speed' = [speed EXCEPT ![b] = s]
    /\ Goes(b, "barr", 0)
    /\ UNCHANGED <<par, placeVars, moveType, waitVars>>

\* A biker that finishes leaves, one that completed a multiple of Span laps
\* may break.
LapEnd(b) ==
    /\ pc[b][1] = "lap"
    /\ lap' = [lap EXCEPT ![b] = @ + 1]
    /\ \E s \in IF lap[b] = -1 THEN {speed[b]} ELSE NewSpeeds(b) :
          speed' = [speed EXCEPT ![b] = s]
    /\ par' = [par EXCEPT ![b] = 1 % Slow]
    /\ \/ lap[b] + 1 # Laps /\ Goes(b, "barr", 0)
       \/ (lap[b] + 1 = Laps \/ (lap[b] + 2) % Span = 0) /\ Goes(b, "leave", 0)
    /\ UNCHANGED <<placeVars, moveType, waitVars>>

\* Either takes itself off the road, under the mutex of its cell, ...
LeaveRoad(b) ==
    /\ pc[b][1] = "leave"
    /\ ~Locked(at[b])
    /\ road' = [road EXCEPT ![at[b]] = Free]
    /\ Goes(b, "lockOff", 0)
    /\ UNCHANGED <<at, laneVars, moved, waitVars, rideVars>>

\* ... then out of the count of its lane, under mymtx.
LockOff(b) ==
    /\ pc[b][1] = "lockOff"
    /\ mymtx = Free
    /\ mymtx' = b
    /\ count' = [count EXCEPT ![b] = nbpl[at[b][2]]]
    /\ Goes(b, "countOff", 0)
    /\ UNCHANGED <<nbpl, at, road, moved, waitVars, rideVars>>

CountOff(b) ==
    /\ pc[b][1] = "countOff"
    /\ nbpl' = [nbpl EXCEPT ![at[b][2]] = count[b] - 1]
    /\ count' = [count EXCEPT ![b] = 0]
    /\ Goes(b, "unlockOff", 0)
    /\ UNCHANGED <<mymtx, at, road, moved, waitVars, rideVars>>

UnlockOff(b) ==
    /\ pc[b][1] = "unlockOff"
    /\ mymtx' = Free
    /\ Goes(b, "quit", 0)
    /\ UNCHANGED <<nbpl, count, at, road, moved, waitVars, rideVars>>

\* barr opens: those that broke or finished are gone.
Barr ==
    /\ \A b \in Bikers : pc[b][1] \in {"barr", "quit", "out"}
    /\ Out # Bikers
    /\ pc' = [b \in Bikers |-> IF pc[b][1] = "barr" THEN <<"settle", 0>> ELSE <<"out", 0>>]
    /\ UNCHANGED <<placeVars, waitVars, rideVars>>

\* Mutant: used_mtx is not reset.
SettleKeepsUsed(b) ==
    /\ pc[b][1] = "settle"
    /\ \A k \in Sides : used[b][k] \/ sem[b][k]
    /\ sem' = [sem EXCEPT ![b] = [k \in Sides |-> used[b][k] /\ sem[b][k]]]
    /\ moved' = [moved EXCEPT ![b] = par[b] % speed[b] # 0]
    /\ Goes(b, "ready", 0)
    /\ UNCHANGED <<at, road, laneVars, used, awaited, rideVars>>

\* The biker locks its semaphores again, unless a waiter already has.
Settle(b) ==
    /\ pc[b][1] = "settle"
    /\ \A k \in Sides : used[b][k] \/ sem[b][k]
    /\ sem' = [sem EXCEPT ![b] = [k \in Sides |-> used[b][k] /\ sem[b][k]]]
    /\ used' = [used EXCEPT ![b] = [k \in Sides |-> FALSE]]
    /\ moved' = [moved EXCEPT ![b] = par[b] % speed[b] # 0]
    /\ Goes(b, "ready", 0)
    /\ UNCHANGED <<at, road, laneVars, awaited, rideVars>>

-----------------------------------------------------------------------------
(* main between debugger_barr and prep_barr *)

\* mem is in the cell just above b or in one of the three cells ahead.
InTheWay(b, mem) ==
    \/ at[mem] = <<at[b][1], at[b][2] - 1>>
    \/ at[mem][1] = NextMeter(b) /\ at[mem][2] - at[b][2] \in -1 .. 1

\* The edges every biker added to the graph since barr.
Edges == {e \in (Bikers \ Out) \X (Bikers \ Out) : InTheWay(e[1], e[2])}

\* reach[n]: the bikers reachable from b over at most n edges.
ReachedFrom(b, edges) ==
    LET reach[n \in Nat] ==
          IF n = 0 THEN {b}
          ELSE LET prev == reach[n - 1]
               IN  prev \union {e[2] : e \in {x \in edges : x[1] \in prev}}
    IN  reach[NumBikers]

\* SCC: the strongly connected components with at least length - 1 bikers.
InBigComponent ==
    LET edges == Edges
        reached == [b \in Bikers |-> ReachedFrom(b, edges)]
    IN  {b \in Bikers \ Out :
            Cardinality({m \in reached[b] : b \in reached[m]}) >= Length - 1}

\* The lanes of those bikers get NONE; then the directions are inverted: the
\* loop exchanges DOWN of a lane with TOP of the next one.
LaneMoves(big) ==
    LET none == {at[b][2] : b \in big}
        down == {l \in Lanes : l # NumLanes - 1 /\ l \notin none}
        top == {l \in Lanes : l # 0 /\ l \notin none}
    IN  [l \in Lanes |-> {"DOWN" : x \in {l + 1} \intersect top}
                         \union {"TOP" : x \in {l - 1} \intersect down}]

\* The barriers around the classification, and the start of the next round:
\* a biker whose turn it is not has nothing to wait for.
Classify ==
    /\ \A b \in Bikers : pc[b][1] \in {"ready", "out"}
    /\ Out # Bikers
    /\ moveType' = IF NumBikers - Cardinality(Out) >= Length
                   THEN LET big == InBigComponent
                            moves == LaneMoves(big)
                        IN  [b \in Bikers |-> IF b \in big THEN moves[at[b][2]] ELSE moveType[b]]
                   ELSE moveType
    /\ pc' = [b \in Bikers |-> IF b \in Out THEN pc[b]
                               ELSE <<IF par[b] % speed[b] = 0 THEN "look" ELSE "done", 0>>]
    /\ UNCHANGED <<par, speed, lap, placeVars, waitVars>>

-----------------------------------------------------------------------------
BikerStep(b) ==
    \/ \E k \in Sides : Look(b, k) \/ Probe(b, k) \/ Await(b, k)
    \/ \E t \in 0 .. 2 : Try(b, t) \/ See(b, t) \/ Enter(b, t) \/ Vacate(b, t) \/ Place(b, t)
    \/ \E t \in {0, 2} : LockLanes(b, t) \/ CountOut(b, t) \/ CountIn(b, t) \/ UnlockLanes(b, t)
    \/ Done(b) \/ LapEnd(b) \/ Settle(b)
    \/ LeaveRoad(b) \/ LockOff(b) \/ CountOff(b) \/ UnlockOff(b)

Finished == Out = Bikers /\ UNCHANGED vars

Next == (\E b \in Bikers : BikerStep(b)) \/ Barr \/ Classify \/ Finished

Spec == Init /\ [][Next]_vars

\* As long as some thread can run or a full barrier can open, something does.
\* No thread runs for ever without the others, so they need no fairness each.
FairSpec == Spec /\ WF_vars(Next)

-----------------------------------------------------------------------------
(* Properties *)

\* Cells that hold biker b: two while it moves from one to the other.
CellsOf(b) ==
    {c \in {at[b]} : pc[b][1] \notin Cleared \union Gone}
       \union {c \in {Entered(b)} : pc[b][1] \in Crossing}

\* The road and the bikers' own positions agree at every step: no biker is
\* lost, doubled or ridden over, and no two share a cell.
RoadMatchesBikers == \A b \in Bikers : {c \in Cells : road[c] = b} = CellsOf(b)

\* The lane in which b is counted, if any: the old one until its count is
\* written, the new one once that one's is.
CountedIn(lane, b) ==
    \/ pc[b][1] \in {"unlock", "place"} /\ lane = Entered(b)[2]
    \/ /\ pc[b][1] \notin {"countIn", "unlock", "place", "unlockOff", "quit", "out"}
       /\ lane = at[b][2]

\* No change of nbpl is lost, although each is a load and a store and several
\* bikers change lanes or leave at once: whoever reads a count sees the number
\* of bikers in the lane, up to those that have not written theirs yet.
LaneCountsExact ==
    \A l \in Lanes : nbpl[l] = Cardinality({b \in Bikers : CountedIn(l, b)})

\* No unlock is lost on a biker that waits: the one it waits for still has to
\* unlock its semaphores in this round, or has and nobody took this one away.
\* One of the four sides is looked at under the mutex of another cell.
NoUnlockLost ==
    \A b \in Bikers : pc[b][1] = "await" =>
       \/ sem[awaited[b]][pc[b][2]]
       \/ pc[awaited[b]][1] \notin {"lap", "leave", "barr", "settle", "ready"} \union Gone

\* When a biker takes its semaphores back each is unlocked, or was locked by
\* the waiter that set used_mtx: the round's handshakes are all over.
HandshakesOver ==
    \A b \in Bikers : pc[b][1] = "settle" => \A k \in Sides : sem[b][k] # used[b][k]

\* "Ciclistas esperam os da frente para se movimentar" (bikers wait for those
\* ahead): when a biker starts to try its moves, the one ahead in its lane has
\* moved, or is another one just entering that cell.
AheadHasMoved ==
    \A b \in Bikers :
       pc[b][1] \in {"try", "see", "move"}
          => LET mem == road[<<NextMeter(b), at[b][2]>>]
             IN  mem # Free => moved[mem] \/ at[mem] # <<NextMeter(b), at[b][2]>>

WaitsOn(b, m) == pc[b][1] = "await" /\ awaited[b] = m /\ ~sem[m][pc[b][2]]

\* Bikers that all wait for one of themselves: none of them will go on.
Circles ==
    {s \in (SUBSET {b \in Bikers : pc[b][1] = "await"}) \ {{}} :
        \A b \in s : \E m \in s : WaitsOn(b, m)}

\* "evitando ciclos de dependência" (avoiding circles of dependencies): what the
\* slides say of the counts and of moveType.  Two bikers that read nbpl before
\* either has entered can fill a lane, and then all of it waits for the one ahead.
NoCircle == Circles = {}

\* A circle of waits goes around the whole road: on every meter somebody is part
\* of it.  So there are at least as many bikers as meters when the round stops.
CircleGoesAround == \A s \in Circles : \A i \in Meters : \E b \in s : at[b][1] = i

\* Only such a circle stops the race: everybody leaves it in the end, or bikers
\* wait in a circle around the road.  No lost unlock and no mutex stops a round.
EndsOrCircles == <>(Out = Bikers \/ (~NoCircle /\ CircleGoesAround))

=============================================================================
