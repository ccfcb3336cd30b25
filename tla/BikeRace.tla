------------------------------ MODULE BikeRace ------------------------------
(***************************************************************************)
(* The threads of the velodrome simulator (multithreadSync) and the four   *)
(* barriers that keep them in lockstep: the main thread (bikeSim.c), one   *)
(* thread per biker (biker_loop, biker.c) and one dummy thread for every   *)
(* biker that left the race (dummy and run_next, bikeStructures.c).  Every *)
(* barrier is initialised for num_bikers + 1 parties, so a biker may leave *)
(* only if a dummy takes its place.                                        *)
(*                                                                         *)
(* Moving on the road is abstracted to its one consequence for this        *)
(* module, crossing the starting line or not (RoadMoves models the road).  *)
(* The scoreboard is abstracted to the mutex scbr_mtx and the count        *)
(* act_num_bikers it protects.                                             *)
(***************************************************************************)
EXTENDS Naturals, Integers, FiniteSets

CONSTANTS
    Bikers,  \* one thread each; every barrier is for Cardinality(Bikers) + 1
    Laps,    \* speedway.laps
    Span,    \* laps between two chances to break, 15 in the code
    NoOne    \* the holder of a free mutex

ASSUME BikersAssumption == IsFiniteSet(Bikers) /\ Bikers # {} /\ NoOne \notin Bikers

\* main insists on laps%20 == 0 and biker_loop breaks bikers at multiples of
\* 15: the lap count never sits one below a multiple of Span.
ASSUME LapsAssumption ==
    /\ Laps \in Nat
    /\ Span \in Nat \ {0}
    /\ (Laps + 1) % Span # 0

VARIABLES
    main_pc,         \* where main stands
    biker_pc,        \* where each biker thread stands
    dummy_pc,        \* the dummy thread created by each biker's run_next
    lap,             \* self->lap
    biker_status,    \* biker_status of the round
    act_num_bikers,  \* sb.act_num_bikers
    loaded,          \* the value read by a biker's sb.act_num_bikers--
    scbr_mtx,        \* sb.scbr_mtx: is it locked?
    unlocks,         \* V(&sb.scbr_mtx) calls a biker still has to make
    broken_mtx,      \* holder of broken_mtx
    dummy_mtx,       \* holder of dummy_threads->dummy_mtx
    counted,         \* dummies already counted in dummy_threads->i
    joined           \* dummies main has joined

mainVars == <<main_pc, joined>>
raceVars == <<lap, biker_status, unlocks>>
sbVars == <<act_num_bikers, loaded, scbr_mtx>>
dtVars == <<dummy_pc, broken_mtx, dummy_mtx, counted>>

vars == <<biker_pc, mainVars, raceVars, sbVars, dtVars>>

-----------------------------------------------------------------------------
\* A thread that waits at a barrier has the barrier's name as its location.
Barriers == {"start_shot", "barr", "debugger_barr", "prep_barr"}

MainLocs == Barriers \union {"loop", "classify", "join", "freed"}

\* From the release of prep_barr (start_shot in the first round) to that of barr.
Riding == {"move", "score", "scored", "retire", "load", "store", "unlock", "barr"}

\* From the release of barr to the dummy that takes the biker's place.
Leaving == {"break", "broken", "check", "lock", "create"}

\* The dummy exists: the biker never waits at a barrier again.
Left == {"count", "unbreak", "exit"}

BikerLocs == Riding \union Leaving \union Left
             \union {"start_shot", "settle", "debugger_barr", "prep_barr", "died"}

DummyLocs == Barriers \union {"none", "loop", "done"}

Status == {"NORMAL", "BROKEN", "FINISHED"}

TypeOK ==
    /\ main_pc \in MainLocs
    /\ biker_pc \in [Bikers -> BikerLocs]
    /\ dummy_pc \in [Bikers -> DummyLocs]
    /\ lap \in [Bikers -> -1 .. Laps]
    /\ biker_status \in [Bikers -> Status]
    /\ act_num_bikers \in Int
    /\ loaded \in [Bikers -> Int]
    /\ scbr_mtx \in BOOLEAN
    /\ unlocks \in [Bikers -> Int]
    /\ broken_mtx \in Bikers \union {NoOne}
    /\ dummy_mtx \in Bikers \union {NoOne}
    /\ counted \subseteq Bikers
    /\ joined \subseteq counted

\* create_dummy_threads: no dummy exists yet, i = 0.
CreateDummyThreads ==
    /\ dummy_pc = [b \in Bikers |-> "none"]
    /\ dummy_mtx = NoOne
    /\ counted = {}

Init ==
    /\ main_pc = "start_shot"
    /\ biker_pc = [b \in Bikers |-> "start_shot"]
    /\ CreateDummyThreads
    /\ lap = [b \in Bikers |-> -1]
    /\ biker_status = [b \in Bikers |-> "NORMAL"]
    /\ act_num_bikers = Cardinality(Bikers)
    /\ loaded = [b \in Bikers |-> 0]
    /\ scbr_mtx = FALSE
    /\ unlocks = [b \in Bikers |-> 0]
    /\ broken_mtx = NoOne
    /\ joined = {}

-----------------------------------------------------------------------------
(***************************************************************************)
(* pthread_barrier_wait: the threads waiting at a barrier go on together   *)
(* when num_bikers + 1 of them have arrived.                               *)
(***************************************************************************)
BikersAt(bar) == {b \in Bikers : biker_pc[b] = bar}
DummiesAt(bar) == {b \in Bikers : dummy_pc[b] = bar}
MainAt(bar) == IF main_pc = bar THEN 1 ELSE 0

Parties(bar) == Cardinality(Bikers) + 1

Full(bar) ==
    Cardinality(BikersAt(bar)) + Cardinality(DummiesAt(bar)) + MainAt(bar) = Parties(bar)

\* Where a thread goes from a barrier.
MainAfter(bar) ==
    CASE bar = "start_shot"    -> "barr"
      [] bar = "barr"          -> "loop"
      [] bar = "debugger_barr" -> "classify"
      [] bar = "prep_barr"     -> "barr"

BikerAfter(b, bar) ==
    CASE bar = "start_shot"    -> "move"
      [] bar = "barr"          -> (CASE biker_status[b] = "NORMAL"   -> "settle"
                                     [] biker_status[b] = "BROKEN"   -> "break"
                                     [] biker_status[b] = "FINISHED" -> "check")
      [] bar = "debugger_barr" -> "prep_barr"
      [] bar = "prep_barr"     -> "move"

DummyAfter(bar) ==
    CASE bar = "start_shot"    -> "start_shot"   \* no dummy waits there
      [] bar = "barr"          -> "loop"
      [] bar = "debugger_barr" -> "prep_barr"
      [] bar = "prep_barr"     -> "barr"

Release(bar) ==
    /\ Full(bar)
    /\ main_pc' = IF main_pc = bar THEN MainAfter(bar) ELSE main_pc
    /\ biker_pc' = [b \in Bikers |-> IF biker_pc[b] = bar THEN BikerAfter(b, bar) ELSE biker_pc[b]]
    /\ dummy_pc' = [b \in Bikers |-> IF dummy_pc[b] = bar THEN DummyAfter(bar) ELSE dummy_pc[b]]
    /\ UNCHANGED <<broken_mtx, dummy_mtx, counted, joined, raceVars, sbVars>>

-----------------------------------------------------------------------------
(* main *)

\* Mutant: while (sb.act_num_bikers > 1).
MainLoopTooShort ==
    /\ main_pc = "loop"
    /\ main_pc' = IF act_num_bikers > 1 THEN "debugger_barr" ELSE "join"
    /\ UNCHANGED <<joined, biker_pc, raceVars, sbVars, dtVars>>

\* while (sb.act_num_bikers != 0)
MainLoop ==
    /\ main_pc = "loop"
    /\ main_pc' = IF act_num_bikers # 0 THEN "debugger_barr" ELSE "join"
    /\ UNCHANGED <<biker_pc, joined, raceVars, sbVars, dtVars>>

\* Between debugger_barr and prep_barr main alone computes the moveTypes.
MainClassify ==
    /\ main_pc = "classify"
    /\ main_pc' = "prep_barr"
    /\ UNCHANGED <<biker_pc, joined, raceVars, sbVars, dtVars>>

\* pthread_join of one of the dummies counted so far.
MainJoin(b) ==
    /\ main_pc = "join"
    /\ b \in counted \ joined
    /\ dummy_pc[b] = "done"
    /\ joined' = joined \union {b}
    /\ UNCHANGED <<main_pc, biker_pc, raceVars, sbVars, dtVars>>

\* Every dummy below dummy_threads->i is joined: destroy(), return from main.
MainDestroy ==
    /\ main_pc = "join"
    /\ joined = counted
    /\ main_pc' = "freed"
    /\ UNCHANGED <<biker_pc, joined, raceVars, sbVars, dtVars>>

-----------------------------------------------------------------------------
(* biker_loop, the riding half of a round *)

BikerGoes(b, loc) == biker_pc' = [biker_pc EXCEPT ![b] = loc]

\* No move, or one that does not reach meter 0.
Stay(b) ==
    /\ biker_pc[b] = "move"
    /\ BikerGoes(b, "barr")
    /\ UNCHANGED <<mainVars, raceVars, sbVars, dtVars>>

\* Mutant: one lap too many.
OutcomesTooLate(l) ==
    CASE l = Laps + 1       -> {"FINISHED"}
      [] (l + 1) % Span = 0 -> {"NORMAL", "BROKEN"}
      [] OTHER              -> {"NORMAL"}

\* What the lap just completed does to the biker.  The coin of event(0.01)
\* also stands for tot_num_bikers[interval] > 5.
Outcomes(l) ==
    CASE l = Laps           -> {"FINISHED"}
      [] (l + 1) % Span = 0 -> {"NORMAL", "BROKEN"}
      [] OTHER              -> {"NORMAL"}

\* How often V(&sb.scbr_mtx) is called: it is the body of the for over the
\* intervals when the biker breaks (interval = lap \div Span after lap++).
UnlockCalls(status, l) == IF status = "BROKEN" THEN (Laps \div Span) - (l \div Span) ELSE 1

\* The lap ends; a biker that stays in the race goes on to barr.
LapDone(b) ==
    \E status \in Outcomes(lap[b] + 1) :
       /\ lap' = [lap EXCEPT ![b] = @ + 1]
       /\ biker_status' = [biker_status EXCEPT ![b] = status]
       /\ unlocks' = [unlocks EXCEPT ![b] = IF status = "NORMAL" THEN 0
                                            ELSE UnlockCalls(status, lap[b] + 1)]
       /\ BikerGoes(b, IF status = "NORMAL" THEN "barr" ELSE "retire")

\* The first crossing of the line only starts lap 0 and adds no score.
CrossFirst(b) ==
    /\ biker_pc[b] = "move"
    /\ lap[b] = -1
    /\ LapDone(b)
    /\ UNCHANGED <<mainVars, sbVars, dtVars>>

Cross(b) ==
    /\ biker_pc[b] = "move"
    /\ lap[b] # -1
    /\ BikerGoes(b, "score")
    /\ UNCHANGED <<mainVars, raceVars, sbVars, dtVars>>

\* P and V of add_score around the scoreboard's update.
ScoreLock(b) ==
    /\ biker_pc[b] = "score"
    /\ ~scbr_mtx
    /\ scbr_mtx' = TRUE
    /\ BikerGoes(b, "scored")
    /\ UNCHANGED <<act_num_bikers, loaded, mainVars, raceVars, dtVars>>

ScoreUnlock(b) ==
    /\ biker_pc[b] = "scored"
    /\ scbr_mtx' = FALSE
    /\ LapDone(b)
    /\ UNCHANGED <<act_num_bikers, loaded, mainVars, dtVars>>

\* Mutant: the decrement without P(&sb.scbr_mtx).
RetireNoLock(b) ==
    /\ biker_pc[b] = "retire"
    /\ scbr_mtx' = TRUE
    /\ BikerGoes(b, "load")
    /\ UNCHANGED <<act_num_bikers, loaded, mainVars, raceVars, dtVars>>

\* P(&sb.scbr_mtx); sb.act_num_bikers--; V(&sb.scbr_mtx) one or more times.
\* The decrement is a load and a store: nothing else makes it atomic.
RetireLock(b) ==
    /\ biker_pc[b] = "retire"
    /\ ~scbr_mtx
    /\ scbr_mtx' = TRUE
    /\ BikerGoes(b, "load")
    /\ UNCHANGED <<act_num_bikers, loaded, mainVars, raceVars, dtVars>>

RetireLoad(b) ==
    /\ biker_pc[b] = "load"
    /\ loaded' = [loaded EXCEPT ![b] = act_num_bikers]
    /\ BikerGoes(b, "store")
    /\ UNCHANGED <<act_num_bikers, scbr_mtx, mainVars, raceVars, dtVars>>

RetireStore(b) ==
    /\ biker_pc[b] = "store"
    /\ act_num_bikers' = loaded[b] - 1
    /\ BikerGoes(b, IF unlocks[b] = 0 THEN "barr" ELSE "unlock")
    /\ UNCHANGED <<loaded, scbr_mtx, mainVars, raceVars, dtVars>>

\* Mutant: run_next is called before the biker waits at barr.
RetireUnlockSkipsBarr(b) ==
    /\ biker_pc[b] = "unlock"
    /\ scbr_mtx' = FALSE
    /\ unlocks' = [unlocks EXCEPT ![b] = @ - 1]
    /\ BikerGoes(b, IF unlocks[b] = 1 THEN "check" ELSE "unlock")
    /\ UNCHANGED <<lap, biker_status, act_num_bikers, loaded, mainVars, dtVars>>

RetireUnlock(b) ==
    /\ biker_pc[b] = "unlock"
    /\ scbr_mtx' = FALSE
    /\ unlocks' = [unlocks EXCEPT ![b] = @ - 1]
    /\ BikerGoes(b, IF unlocks[b] = 1 THEN "barr" ELSE "unlock")
    /\ UNCHANGED <<lap, biker_status, act_num_bikers, loaded, mainVars, dtVars>>

-----------------------------------------------------------------------------
(* biker_loop after barr *)

\* The biker takes its own semaphores back and adds its edges to the graph.
Settle(b) ==
    /\ biker_pc[b] = "settle"
    /\ BikerGoes(b, "debugger_barr")
    /\ UNCHANGED <<mainVars, raceVars, sbVars, dtVars>>

\* break_biker: the ranking is read in one critical section of broken_mtx...
BreakRank(b) ==
    /\ biker_pc[b] = "break"
    /\ broken_mtx = NoOne
    /\ BikerGoes(b, "broken")
    /\ UNCHANGED <<mainVars, raceVars, sbVars, dtVars>>

\* ...and run_next is called inside a second one.
BreakLock(b) ==
    /\ biker_pc[b] = "broken"
    /\ broken_mtx = NoOne
    /\ broken_mtx' = b
    /\ BikerGoes(b, "check")
    /\ UNCHANGED <<dummy_pc, dummy_mtx, counted, mainVars, raceVars, sbVars>>

BreakUnlock(b) ==
    /\ biker_pc[b] = "unbreak"
    /\ broken_mtx' = NoOne
    /\ BikerGoes(b, "exit")
    /\ UNCHANGED <<dummy_pc, dummy_mtx, counted, mainVars, raceVars, sbVars>>

(* run_next *)

\* Mutant: dt->i == dt->size - 1.
NextCheckTooEarly(b) ==
    /\ biker_pc[b] = "check"
    /\ BikerGoes(b, IF Cardinality(counted) = Cardinality(Bikers) - 1 THEN "died" ELSE "lock")
    /\ UNCHANGED <<mainVars, raceVars, sbVars, dtVars>>

\* if(dt->i == dt->size) die(...), before the mutex is taken
NextCheck(b) ==
    /\ biker_pc[b] = "check"
    /\ BikerGoes(b, IF Cardinality(counted) = Cardinality(Bikers) THEN "died" ELSE "lock")
    /\ UNCHANGED <<mainVars, raceVars, sbVars, dtVars>>

NextLock(b) ==
    /\ biker_pc[b] = "lock"
    /\ dummy_mtx = NoOne
    /\ dummy_mtx' = b
    /\ BikerGoes(b, "create")
    /\ UNCHANGED <<dummy_pc, broken_mtx, counted, mainVars, raceVars, sbVars>>

NextCreate(b) ==
    /\ biker_pc[b] = "create"
    /\ dummy_pc' = [dummy_pc EXCEPT ![b] = "loop"]
    /\ BikerGoes(b, "count")
    /\ UNCHANGED <<broken_mtx, dummy_mtx, counted, mainVars, raceVars, sbVars>>

\* Mutant: the biker does not leave its loop after run_next.
NextCountNoBreak(b) ==
    /\ biker_pc[b] = "count"
    /\ counted' = counted \union {b}
    /\ dummy_mtx' = NoOne
    /\ BikerGoes(b, IF biker_status[b] = "BROKEN" THEN "unbreak" ELSE "settle")
    /\ UNCHANGED <<dummy_pc, broken_mtx, mainVars, raceVars, sbVars>>

NextCount(b) ==
    /\ biker_pc[b] = "count"
    /\ counted' = counted \union {b}
    /\ dummy_mtx' = NoOne
    /\ BikerGoes(b, IF biker_status[b] = "BROKEN" THEN "unbreak" ELSE "exit")
    /\ UNCHANGED <<dummy_pc, broken_mtx, mainVars, raceVars, sbVars>>

\* Mutant: do { ... } while (sb.act_num_bikers != 0).
DummyLoopTestedLate(b) ==
    /\ dummy_pc[b] = "loop"
    /\ dummy_pc' = [dummy_pc EXCEPT ![b] = "debugger_barr"]
    /\ UNCHANGED <<biker_pc, broken_mtx, dummy_mtx, counted, mainVars, raceVars, sbVars>>

(* dummy: while (sb.act_num_bikers != 0) the three barriers *)
DummyLoop(b) ==
    /\ dummy_pc[b] = "loop"
    /\ dummy_pc' = [dummy_pc EXCEPT ![b] = IF act_num_bikers # 0 THEN "debugger_barr" ELSE "done"]
    /\ UNCHANGED <<biker_pc, broken_mtx, dummy_mtx, counted, mainVars, raceVars, sbVars>>

-----------------------------------------------------------------------------
MainStep == MainLoop \/ MainClassify \/ MainDestroy \/ (\E b \in Bikers : MainJoin(b))

BikerStep(b) ==
    \/ Stay(b) \/ CrossFirst(b) \/ Cross(b) \/ ScoreLock(b) \/ ScoreUnlock(b)
    \/ RetireLock(b) \/ RetireLoad(b) \/ RetireStore(b) \/ RetireUnlock(b)
    \/ Settle(b) \/ BreakRank(b) \/ BreakLock(b) \/ BreakUnlock(b)
    \/ NextCheck(b) \/ NextLock(b) \/ NextCreate(b) \/ NextCount(b)

\* main returned, or die() was called: the process is gone.
Over == main_pc = "freed" \/ (\E b \in Bikers : biker_pc[b] = "died")

Running ==
    /\ ~Over
    /\ \/ \E bar \in Barriers : Release(bar)
       \/ MainStep
       \/ \E b \in Bikers : BikerStep(b) \/ DummyLoop(b)

Terminated == Over /\ UNCHANGED vars

Next == Running \/ Terminated

Spec == Init /\ [][Next]_vars

(***************************************************************************)
(* Fairness: the operating system runs every thread that can run, a        *)
(* barrier that is full opens, and a thread that asks for a mutex again    *)
(* and again gets it.  CrossFirst and Cross are strongly fair: a biker     *)
(* that may cross the line in round after round does.  On the road one     *)
(* does unless a circle of waits stops the round (RoadMoves).              *)
(***************************************************************************)
Fairness ==
    /\ \A bar \in Barriers : WF_vars(~Over /\ Release(bar))
    /\ WF_vars(~Over /\ MainStep)
    /\ \A b \in Bikers :
          /\ WF_vars(~Over /\ BikerStep(b))
          /\ WF_vars(~Over /\ DummyLoop(b))
          /\ SF_vars(~Over /\ (CrossFirst(b) \/ Cross(b)))
          /\ SF_vars(~Over /\ (ScoreLock(b) \/ RetireLock(b) \/ BreakRank(b) \/ BreakLock(b)
                               \/ NextLock(b)))

FairSpec == Spec /\ Fairness

-----------------------------------------------------------------------------
(* Properties *)

\* The threads agree on the end of the race because none of them reads
\* act_num_bikers (the while conditions of main and dummy) while a biker may
\* still decrement it: those reads fall between barr and debugger_barr, the
\* decrements between prep_barr and barr.
LoopReadStable ==
    (main_pc = "loop" \/ \E d \in Bikers : dummy_pc[d] = "loop")
       => \A b \in Bikers : biker_pc[b] \notin Riding

\* While main computes the moveTypes from the graph and the bikers' lanes,
\* every biker still in the race waits at prep_barr and every other one has
\* been replaced: nobody reads or writes moveType, the graph or the road.
ClassifyAlone ==
    main_pc = "classify"
       => \A b \in Bikers : /\ biker_pc[b] \in {"prep_barr"} \union Left
                           /\ dummy_pc[b] \in {"none", "prep_barr"}

\* When main leaves its loop no thread is left behind at a barrier, nor on
\* its way to one: nobody would ever complete that barrier again.
NobodyStranded ==
    main_pc \in {"join", "freed"}
       => \A b \in Bikers : /\ biker_pc[b] \in Leaving \union Left
                           /\ dummy_pc[b] \in {"none", "loop", "done"}

\* Whenever main reads it, act_num_bikers is the number of bikers still in
\* the race.
ActiveCountExact ==
    main_pc = "loop"
       => act_num_bikers = Cardinality({b \in Bikers : biker_status[b] = "NORMAL"})

\* main stops only after every biker has left the race, even when a
\* decrement of act_num_bikers was lost.
NoEarlyEnd ==
    main_pc \in {"join", "freed"} => \A b \in Bikers : biker_status[b] # "NORMAL"

\* The table of dummies never runs out: nobody dies in run_next.
NeverDies == \A b \in Bikers : biker_pc[b] # "died"

\* The race ends and main frees everything.
RaceEnds == <>(main_pc = "freed")

\* bikeStructures.h on destroy_dummy_threads: "Should only be called after
\* all dummy threads that were created were destroyed".
DestroyAfterDummies ==
    main_pc = "freed" => \A b \in Bikers : dummy_pc[b] \in {"none", "done"}

(***************************************************************************)
(* The race seen from outside: rounds that all threads go through together *)
(* (module RaceRounds).                                                    *)
(***************************************************************************)
Phase ==
    CASE main_pc = "start_shot"                 -> "grid"
      [] main_pc = "barr"                       -> "ride"
      [] main_pc \in {"loop", "debugger_barr"}  -> "regroup"
      [] main_pc \in {"classify", "prep_barr"}  -> "classify"
      [] main_pc \in {"join", "freed"}          -> "over"

Rounds == INSTANCE RaceRounds WITH
    phase <- Phase,
    racing <- {b \in Bikers : biker_status[b] = "NORMAL"}

RefinesRounds == Rounds!Spec

=============================================================================
