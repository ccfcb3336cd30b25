--------------------------- MODULE BikeRaceProofs ---------------------------
(***************************************************************************)
(* Proofs about BikeRace for every set of bikers, every number of laps and *)
(* every Span.  The inductive invariant is the conjunction of              *)
(*   TypeOK     the types;                                                 *)
(*   StatusOK   where a biker stands tells whether it is still racing;     *)
(*   DummyOK    a dummy exists exactly for the bikers that left for good;  *)
(*   PhaseOK    where main stands tells where everybody else can be;       *)
(*   CountOK    act_num_bikers never counts too few bikers.                *)
(***************************************************************************)
EXTENDS BikeRace, ProofLemmas

StillRacing == {"start_shot", "move", "score", "scored", "settle", "debugger_barr", "prep_barr"}

NotRacing == {"retire", "load", "store", "unlock"} \union Leaving \union Left

StatusOK ==
    \A b \in Bikers :
       /\ biker_pc[b] \in StillRacing => biker_status[b] = "NORMAL"
       /\ biker_pc[b] \in NotRacing => biker_status[b] # "NORMAL"
       /\ biker_status[b] = "NORMAL" => lap[b] < Laps

DummyOK ==
    \A b \in Bikers :
       /\ dummy_pc[b] # "none" <=> biker_pc[b] \in Left
       /\ b \in counted => biker_pc[b] \in {"unbreak", "exit"}

\* Where bikers and dummies can be when main is where it is.
PhaseOK ==
    /\ main_pc = "start_shot" => \A b \in Bikers : biker_pc[b] = "start_shot"
    /\ main_pc = "barr" =>
          \A b \in Bikers : /\ biker_pc[b] \in Riding \union Left
                            /\ dummy_pc[b] \in {"none", "barr"}
    /\ main_pc \in {"loop", "debugger_barr"} =>
          \A b \in Bikers : /\ biker_pc[b] \in {"settle", "debugger_barr"}
                                             \union Leaving \union Left
                            /\ dummy_pc[b] \in {"none", "loop", "debugger_barr", "done"}
                            /\ dummy_pc[b] = "debugger_barr" => act_num_bikers # 0
                            /\ dummy_pc[b] = "done" => act_num_bikers = 0
    /\ main_pc = "debugger_barr" => act_num_bikers # 0
    /\ main_pc \in {"classify", "prep_barr"} =>
          \A b \in Bikers : /\ biker_pc[b] \in {"prep_barr"} \union Left
                            /\ dummy_pc[b] \in {"none", "prep_barr"}
    /\ main_pc \in {"join", "freed"} =>
          /\ act_num_bikers = 0
          /\ \A b \in Bikers : /\ biker_pc[b] \in Leaving \union Left
                               /\ dummy_pc[b] \in {"none", "loop", "done"}

\* The bikers whose decrement has not been stored yet.
Unstored ==
    {b \in Bikers : biker_status[b] = "NORMAL" \/ biker_pc[b] \in {"retire", "load", "store"}}

CountOK ==
    /\ act_num_bikers >= Cardinality(Unstored)
    /\ \A b \in Bikers : biker_pc[b] = "store" => loaded[b] >= Cardinality(Unstored)

IInv == TypeOK /\ StatusOK /\ DummyOK /\ PhaseOK /\ CountOK

-----------------------------------------------------------------------------
\* A full barrier holds main and, for every biker, the biker or its dummy.
LEMMA FullMeansAll ==
    ASSUME TypeOK, DummyOK, NEW bar \in Barriers, Full(bar)
    PROVE  /\ main_pc = bar
           /\ \A b \in Bikers : biker_pc[b] = bar \/ dummy_pc[b] = bar
<1> DEFINE A == BikersAt(bar)
           D == DummiesAt(bar)
<1>1. A \in SUBSET Bikers /\ D \in SUBSET Bikers
  BY DEF BikersAt, DummiesAt
<1>2. A \intersect D = {}
  <2>1. SUFFICES ASSUME NEW b \in Bikers, biker_pc[b] = bar, dummy_pc[b] = bar PROVE FALSE
    BY DEF BikersAt, DummiesAt
  <2>2. dummy_pc[b] # "none"
    BY <2>1 DEF Barriers
  <2>3. biker_pc[b] \in Left
    BY <2>2 DEF DummyOK
  <2> QED BY <2>1, <2>3 DEF Barriers, Left
<1>3. IsFiniteSet(A) /\ IsFiniteSet(D) /\ IsFiniteSet(Bikers)
  BY <1>1, FS_Subset, BikersAssumption
<1>4. Cardinality(A \union D) = Cardinality(A) + Cardinality(D)
  <2>1. Cardinality(A \union D) = Cardinality(A) + Cardinality(D) - Cardinality(A \intersect D)
    BY <1>3, FS_Union
  <2>2. Cardinality(A \intersect D) = 0
    BY <1>2, FS_EmptySet
  <2>3. Cardinality(A) \in Nat /\ Cardinality(D) \in Nat
    BY <1>3, FS_CardinalityType
  <2> QED BY <2>1, <2>2, <2>3
<1>5. A \union D \in SUBSET Bikers
  BY <1>1
<1>6. /\ Cardinality(A \union D) <= Cardinality(Bikers)
      /\ Cardinality(Bikers) = Cardinality(A \union D) => Bikers = A \union D
  BY <1>3, <1>5, FS_Subset
<1>7. Cardinality(A) \in Nat /\ Cardinality(D) \in Nat /\ Cardinality(Bikers) \in Nat
  BY <1>3, FS_CardinalityType
<1>8. Cardinality(A) + Cardinality(D) + MainAt(bar) = Cardinality(Bikers) + 1
  BY DEF Full, Parties
<1>9. MainAt(bar) = 1 /\ Cardinality(Bikers) = Cardinality(A \union D)
  BY <1>4, <1>6, <1>7, <1>8 DEF MainAt
<1> QED
  BY <1>6, <1>9 DEF MainAt, BikersAt, DummiesAt

\* The number of V(&sb.scbr_mtx) calls is a number.
LEMMA UnlockCallsType ==
    ASSUME NEW s \in Status, NEW l \in Int
    PROVE  UnlockCalls(s, l) \in Int
<1>1. Laps \div Span \in Int /\ l \div Span \in Int
  BY LapsAssumption
<1> QED
  BY <1>1 DEF UnlockCalls

\* A lap that ends keeps the types, and where the biker goes tells whether it
\* is still racing.
LEMMA LapDoneKeepsStatus ==
    ASSUME TypeOK, StatusOK, NEW c \in Bikers, biker_status[c] = "NORMAL", LapDone(c)
    PROVE  /\ lap' \in [Bikers -> -1 .. Laps]
           /\ biker_status' \in [Bikers -> Status]
           /\ unlocks' \in [Bikers -> Int]
           /\ biker_pc' \in [Bikers -> BikerLocs]
           /\ StatusOK'
<1>1. PICK s \in Outcomes(lap[c] + 1) :
         /\ lap' = [lap EXCEPT ![c] = @ + 1]
         /\ biker_status' = [biker_status EXCEPT ![c] = s]
         /\ unlocks' = [unlocks EXCEPT ![c] = IF s = "NORMAL" THEN 0
                                              ELSE UnlockCalls(s, lap[c] + 1)]
         /\ biker_pc' = [biker_pc EXCEPT ![c] = IF s = "NORMAL" THEN "barr" ELSE "retire"]
  BY DEF LapDone, BikerGoes
<1>2. lap[c] \in -1 .. Laps /\ lap[c] < Laps /\ lap[c] + 1 \in -1 .. Laps
  BY LapsAssumption DEF TypeOK, StatusOK
<1>3. s \in Status /\ (s = "NORMAL" => lap[c] + 1 # Laps)
  <2>1. CASE lap[c] + 1 = Laps
    <3>1. (lap[c] + 1 + 1) % Span # 0
      BY <2>1, LapsAssumption
    <3> QED BY <1>1, <2>1, <3>1 DEF Outcomes, Status
  <2>2. CASE lap[c] + 1 # Laps /\ (lap[c] + 1 + 1) % Span = 0
    BY <1>1, <2>2 DEF Outcomes, Status
  <2>3. CASE lap[c] + 1 # Laps /\ (lap[c] + 1 + 1) % Span # 0
    BY <1>1, <2>3 DEF Outcomes, Status
  <2> QED BY <2>1, <2>2, <2>3
<1>4. UnlockCalls(s, lap[c] + 1) \in Int
  BY <1>2, <1>3, UnlockCallsType
<1>5. lap' \in [Bikers -> -1 .. Laps] /\ biker_status' \in [Bikers -> Status]
  BY <1>1, <1>2, <1>3 DEF TypeOK
<1>6. unlocks' \in [Bikers -> Int]
  BY <1>1, <1>4 DEF TypeOK
<1>7. biker_pc' \in [Bikers -> BikerLocs]
  BY <1>1 DEF TypeOK, BikerLocs, Riding
<1>8. StatusOK'
  BY <1>1, <1>2, <1>3, LapsAssumption
  DEF TypeOK, StatusOK, StillRacing, NotRacing, Leaving, Left
<1> QED
  BY <1>5, <1>6, <1>7, <1>8

LEMMA TypeStatusInductive ==
    ASSUME TypeOK, StatusOK, [Next]_vars
    PROVE  TypeOK' /\ StatusOK'
<1> USE LapsAssumption, BikersAssumption
<1> USE DEF TypeOK, StatusOK, MainLocs, BikerLocs, DummyLocs, Barriers, Riding,
            Leaving, Left, Status, StillRacing, NotRacing, mainVars, raceVars,
            sbVars, dtVars, BikerGoes
<1>1. ASSUME NEW bar \in Barriers, Release(bar) PROVE TypeOK' /\ StatusOK'
  BY <1>1 DEF Release, MainAfter, BikerAfter, DummyAfter
<1>2. ASSUME MainLoop PROVE TypeOK' /\ StatusOK'
  BY <1>2 DEF MainLoop
<1>3. ASSUME MainClassify PROVE TypeOK' /\ StatusOK'
  BY <1>3 DEF MainClassify
<1>4. ASSUME MainDestroy PROVE TypeOK' /\ StatusOK'
  BY <1>4 DEF MainDestroy
<1>5. ASSUME NEW d \in Bikers, MainJoin(d) PROVE TypeOK' /\ StatusOK'
  BY <1>5 DEF MainJoin
<1>6. ASSUME NEW c \in Bikers, Stay(c) PROVE TypeOK' /\ StatusOK'
  BY <1>6 DEF Stay
<1>7. ASSUME NEW c \in Bikers, CrossFirst(c) PROVE TypeOK' /\ StatusOK'
  <2>1. biker_status[c] = "NORMAL" /\ LapDone(c)
    BY <1>7 DEF CrossFirst, StatusOK, StillRacing
  <2> QED BY <1>7, <2>1, LapDoneKeepsStatus DEF CrossFirst, TypeOK, sbVars, dtVars, mainVars
<1>8. ASSUME NEW c \in Bikers, Cross(c) PROVE TypeOK' /\ StatusOK'
  BY <1>8 DEF Cross
<1>9. ASSUME NEW c \in Bikers, ScoreLock(c) PROVE TypeOK' /\ StatusOK'
  BY <1>9 DEF ScoreLock
<1>10. ASSUME NEW c \in Bikers, ScoreUnlock(c) PROVE TypeOK' /\ StatusOK'
  <2>1. biker_status[c] = "NORMAL" /\ LapDone(c)
    BY <1>10 DEF ScoreUnlock, StatusOK, StillRacing
  <2> QED BY <1>10, <2>1, LapDoneKeepsStatus DEF ScoreUnlock, TypeOK, dtVars, mainVars
<1>11. ASSUME NEW c \in Bikers, RetireLock(c) PROVE TypeOK' /\ StatusOK'
  BY <1>11 DEF RetireLock
<1>12. ASSUME NEW c \in Bikers, RetireLoad(c) PROVE TypeOK' /\ StatusOK'
  BY <1>12 DEF RetireLoad
<1>13. ASSUME NEW c \in Bikers, RetireStore(c) PROVE TypeOK' /\ StatusOK'
  BY <1>13 DEF RetireStore
<1>14. ASSUME NEW c \in Bikers, RetireUnlock(c) PROVE TypeOK' /\ StatusOK'
  <2>1. unlocks' \in [Bikers -> Int]
    BY <1>14 DEF RetireUnlock, TypeOK
  <2>2. biker_pc' \in [Bikers -> BikerLocs]
    BY <1>14 DEF RetireUnlock, BikerGoes, TypeOK, BikerLocs, Riding
  <2>3. TypeOK'
    BY <1>14, <2>1, <2>2 DEF RetireUnlock, TypeOK, mainVars, dtVars
  <2>4. StatusOK'
    BY <1>14 DEF RetireUnlock, BikerGoes, TypeOK, StatusOK, StillRacing, NotRacing, Leaving, Left
  <2> QED BY <2>3, <2>4
<1>15. ASSUME NEW c \in Bikers, Settle(c) PROVE TypeOK' /\ StatusOK'
  BY <1>15 DEF Settle
<1>16. ASSUME NEW c \in Bikers, BreakRank(c) PROVE TypeOK' /\ StatusOK'
  BY <1>16 DEF BreakRank
<1>17. ASSUME NEW c \in Bikers, BreakLock(c) PROVE TypeOK' /\ StatusOK'
  BY <1>17 DEF BreakLock
<1>18. ASSUME NEW c \in Bikers, BreakUnlock(c) PROVE TypeOK' /\ StatusOK'
  BY <1>18 DEF BreakUnlock
<1>19. ASSUME NEW c \in Bikers, NextCheck(c) PROVE TypeOK' /\ StatusOK'
  BY <1>19 DEF NextCheck
<1>20. ASSUME NEW c \in Bikers, NextLock(c) PROVE TypeOK' /\ StatusOK'
  BY <1>20 DEF NextLock
<1>21. ASSUME NEW c \in Bikers, NextCreate(c) PROVE TypeOK' /\ StatusOK'
  BY <1>21 DEF NextCreate
<1>22. ASSUME NEW c \in Bikers, NextCount(c) PROVE TypeOK' /\ StatusOK'
  BY <1>22 DEF NextCount
<1>23. ASSUME NEW c \in Bikers, DummyLoop(c) PROVE TypeOK' /\ StatusOK'
  BY <1>23 DEF DummyLoop
<1>24. ASSUME UNCHANGED vars PROVE TypeOK' /\ StatusOK'
  BY <1>24 DEF vars
<1> QED
  BY <1>1, <1>2, <1>3, <1>4, <1>5, <1>6, <1>7, <1>8, <1>9, <1>10, <1>11, <1>12, <1>13, <1>14,
     <1>15, <1>16, <1>17, <1>18, <1>19, <1>20, <1>21, <1>22, <1>23, <1>24
  DEF Next, Running, Terminated, MainStep, BikerStep

\* Nobody is racing once act_num_bikers is 0.
LEMMA ZeroMeansNobody ==
    ASSUME TypeOK, CountOK, act_num_bikers = 0
    PROVE  \A b \in Bikers : biker_status[b] # "NORMAL"
<1>1. Unstored \in SUBSET Bikers
  BY DEF Unstored
<1>2. IsFiniteSet(Unstored) /\ Cardinality(Unstored) \in Nat
  BY <1>1, BikersAssumption, FS_Subset, FS_CardinalityType
<1>3. Cardinality(Unstored) = 0
  BY <1>2 DEF CountOK
<1>4. Unstored = {}
  BY <1>2, <1>3, FS_EmptySet
<1> QED
  BY <1>4 DEF Unstored

\* Every step keeps the dummies in step with the bikers that left, and
\* everybody in the part of the round that main is in.
LEMMA PhaseInductive ==
    ASSUME IInv, [Next]_vars
    PROVE  DummyOK' /\ PhaseOK'
<1> USE DEF IInv, TypeOK, StatusOK, DummyOK, PhaseOK, MainLocs, BikerLocs, DummyLocs,
            Riding, Leaving, Left, StillRacing, mainVars, raceVars, sbVars,
            dtVars, BikerGoes
<1>1. ASSUME NEW bar \in Barriers, Release(bar) PROVE DummyOK' /\ PhaseOK'
  <2> USE <1>1
  <2>1. /\ main_pc = bar
        /\ \A b \in Bikers : biker_pc[b] = bar \/ dummy_pc[b] = bar
    BY FullMeansAll DEF Release
  <2>2. CASE bar = "start_shot"
    BY <2>1, <2>2 DEF Release, MainAfter, BikerAfter, DummyAfter
  <2>3. CASE bar = "barr"
    <3>1. /\ main_pc' = "loop"
          /\ act_num_bikers' = act_num_bikers /\ counted' = counted
      BY <2>1, <2>3 DEF Release, MainAfter, sbVars
    <3>2. ASSUME NEW b \in Bikers
          PROVE  /\ biker_pc'[b] \in {"settle"} \union Leaving \union Left
                 /\ biker_pc[b] \in Left => biker_pc'[b] = biker_pc[b]
                 /\ biker_pc'[b] \in Left => biker_pc[b] \in Left
                 /\ dummy_pc'[b] \in {"none", "loop"}
                 /\ dummy_pc'[b] = "none" <=> dummy_pc[b] = "none"
      <4>1. biker_pc[b] \in Riding \union Left /\ dummy_pc[b] \in {"none", "barr"}
        BY <2>1, <2>3 DEF PhaseOK
      <4>2. dummy_pc'[b] = IF dummy_pc[b] = "barr" THEN "loop" ELSE "none"
        BY <2>3, <4>1 DEF Release, DummyAfter
      <4>3. biker_status[b] \in Status
        BY DEF TypeOK
      <4>4. CASE biker_pc[b] = "barr"
        <5>1. biker_pc'[b] = BikerAfter(b, "barr")
          BY <2>3, <4>4 DEF Release
        <5> QED BY <4>2, <4>3, <4>4, <5>1, <4>1 DEF BikerAfter, Status, Leaving, Left
      <4>5. CASE biker_pc[b] # "barr"
        <5>1. biker_pc'[b] = biker_pc[b]
          BY <2>3, <4>5 DEF Release
        <5>2. biker_pc[b] \in Left
          BY <2>1, <2>3, <4>5 DEF DummyOK
        <5> QED BY <4>1, <4>2, <5>1, <5>2
      <4> QED BY <4>4, <4>5
    <3> QED BY <3>1, <3>2 DEF DummyOK, PhaseOK, Left
  <2>4. CASE bar = "debugger_barr"
    BY <2>1, <2>4 DEF Release, MainAfter, BikerAfter, DummyAfter
  <2>5. CASE bar = "prep_barr"
    BY <2>1, <2>5 DEF Release, MainAfter, BikerAfter, DummyAfter
  <2> QED BY <2>2, <2>3, <2>4, <2>5 DEF Barriers
<1>2. ASSUME MainLoop PROVE DummyOK' /\ PhaseOK'
  <2>1. act_num_bikers = 0 => \A b \in Bikers : biker_status[b] # "NORMAL"
    BY ZeroMeansNobody
  <2> QED BY <1>2, <2>1 DEF MainLoop
<1>3. ASSUME MainClassify PROVE DummyOK' /\ PhaseOK'
  BY <1>3 DEF MainClassify
<1>4. ASSUME MainDestroy PROVE DummyOK' /\ PhaseOK'
  BY <1>4 DEF MainDestroy
<1>5. ASSUME NEW d \in Bikers, MainJoin(d) PROVE DummyOK' /\ PhaseOK'
  BY <1>5 DEF MainJoin
<1>6. ASSUME NEW c \in Bikers, Stay(c) PROVE DummyOK' /\ PhaseOK'
  BY <1>6 DEF Stay
<1>7. ASSUME NEW c \in Bikers, CrossFirst(c) PROVE DummyOK' /\ PhaseOK'
  BY <1>7 DEF CrossFirst, LapDone, Outcomes
<1>8. ASSUME NEW c \in Bikers, Cross(c) PROVE DummyOK' /\ PhaseOK'
  BY <1>8 DEF Cross
<1>9. ASSUME NEW c \in Bikers, ScoreLock(c) PROVE DummyOK' /\ PhaseOK'
  BY <1>9 DEF ScoreLock
<1>10. ASSUME NEW c \in Bikers, ScoreUnlock(c) PROVE DummyOK' /\ PhaseOK'
  BY <1>10 DEF ScoreUnlock, LapDone, Outcomes
<1>11. ASSUME NEW c \in Bikers, RetireLock(c) PROVE DummyOK' /\ PhaseOK'
  BY <1>11 DEF RetireLock
<1>12. ASSUME NEW c \in Bikers, RetireLoad(c) PROVE DummyOK' /\ PhaseOK'
  BY <1>12 DEF RetireLoad
<1>13. ASSUME NEW c \in Bikers, RetireStore(c) PROVE DummyOK' /\ PhaseOK'
  BY <1>13 DEF RetireStore
<1>14. ASSUME NEW c \in Bikers, RetireUnlock(c) PROVE DummyOK' /\ PhaseOK'
  BY <1>14 DEF RetireUnlock
<1>15. ASSUME NEW c \in Bikers, Settle(c) PROVE DummyOK' /\ PhaseOK'
  BY <1>15 DEF Settle
<1>16. ASSUME NEW c \in Bikers, BreakRank(c) PROVE DummyOK' /\ PhaseOK'
  BY <1>16 DEF BreakRank
<1>17. ASSUME NEW c \in Bikers, BreakLock(c) PROVE DummyOK' /\ PhaseOK'
  BY <1>17 DEF BreakLock
<1>18. ASSUME NEW c \in Bikers, BreakUnlock(c) PROVE DummyOK' /\ PhaseOK'
  BY <1>18 DEF BreakUnlock
<1>19. ASSUME NEW c \in Bikers, NextCheck(c) PROVE DummyOK' /\ PhaseOK'
  <2>1. c \notin counted
    BY <1>19 DEF NextCheck, DummyOK
  <2>2. Cardinality(counted) # Cardinality(Bikers)
    BY <2>1, BikersAssumption, FS_Subset DEF TypeOK
  <2>3. biker_pc' = [biker_pc EXCEPT ![c] = "lock"]
    BY <1>19, <2>2 DEF NextCheck, BikerGoes
  <2> QED BY <1>19, <2>3 DEF NextCheck
<1>20. ASSUME NEW c \in Bikers, NextLock(c) PROVE DummyOK' /\ PhaseOK'
  BY <1>20 DEF NextLock
<1>21. ASSUME NEW c \in Bikers, NextCreate(c) PROVE DummyOK' /\ PhaseOK'
  BY <1>21 DEF NextCreate
<1>22. ASSUME NEW c \in Bikers, NextCount(c) PROVE DummyOK' /\ PhaseOK'
  BY <1>22 DEF NextCount
<1>23. ASSUME NEW c \in Bikers, DummyLoop(c) PROVE DummyOK' /\ PhaseOK'
  BY <1>23 DEF DummyLoop
<1>24. ASSUME UNCHANGED vars PROVE DummyOK' /\ PhaseOK'
  BY <1>24 DEF vars
<1> QED
  BY <1>1, <1>2, <1>3, <1>4, <1>5, <1>6, <1>7, <1>8, <1>9, <1>10, <1>11, <1>12, <1>13, <1>14,
     <1>15, <1>16, <1>17, <1>18, <1>19, <1>20, <1>21, <1>22, <1>23, <1>24
  DEF Next, Running, Terminated, MainStep, BikerStep

\* The bikers that still have to store their decrement only become fewer, one
\* at a time, and act_num_bikers and every value a biker loaded stay above
\* their number: a lost update can only leave the count too high.
LEMMA CountInductive ==
    ASSUME IInv, [Next]_vars
    PROVE  CountOK'
<1> USE DEF IInv, TypeOK, StatusOK, Unstored, Leaving, Left, StillRacing, NotRacing,
            mainVars, raceVars, sbVars, dtVars, BikerGoes
<1>a. ASSUME Unstored' = Unstored, UNCHANGED <<act_num_bikers, loaded>>,
             \A b \in Bikers : biker_pc'[b] = "store" => biker_pc[b] = "store"
      PROVE  CountOK'
  BY <1>a DEF CountOK
<1>1. ASSUME NEW bar \in Barriers, Release(bar) PROVE CountOK'
  <2>1. \A b \in Bikers : biker_pc[b] # bar => biker_pc'[b] = biker_pc[b]
    BY <1>1 DEF Release
  <2>2. ASSUME NEW b \in Bikers, biker_pc[b] = bar
        PROVE  /\ biker_pc[b] \notin {"retire", "load", "store"}
               /\ biker_pc'[b] \notin {"retire", "load", "store"}
    <3>1. biker_pc'[b] = BikerAfter(b, bar)
      BY <1>1, <2>2 DEF Release
    <3>2. biker_status[b] \in Status
      BY DEF TypeOK
    <3> QED BY <2>2, <3>1, <3>2, <1>1 DEF BikerAfter, Barriers, Status
  <2>3. UNCHANGED <<act_num_bikers, loaded, biker_status>>
    BY <1>1 DEF Release, sbVars, raceVars
  <2>4. Unstored' = Unstored
    BY <2>1, <2>2, <2>3 DEF Unstored
  <2> QED BY <1>a, <2>1, <2>2, <2>3, <2>4
<1>2. ASSUME MainLoop PROVE CountOK'
  <2>1. Unstored' = Unstored
    BY <1>2 DEF MainLoop
  <2> QED BY <1>2, <1>a, <2>1 DEF MainLoop
<1>3. ASSUME MainClassify PROVE CountOK'
  <2>1. Unstored' = Unstored
    BY <1>3 DEF MainClassify
  <2> QED BY <1>3, <1>a, <2>1 DEF MainClassify
<1>4. ASSUME MainDestroy PROVE CountOK'
  <2>1. Unstored' = Unstored
    BY <1>4 DEF MainDestroy
  <2> QED BY <1>4, <1>a, <2>1 DEF MainDestroy
<1>5. ASSUME NEW d \in Bikers, MainJoin(d) PROVE CountOK'
  <2>1. Unstored' = Unstored
    BY <1>5 DEF MainJoin
  <2> QED BY <1>5, <1>a, <2>1 DEF MainJoin
<1>6. ASSUME NEW c \in Bikers, Stay(c) PROVE CountOK'
  <2>1. Unstored' = Unstored
    BY <1>6 DEF Stay
  <2> QED BY <1>6, <1>a, <2>1 DEF Stay
<1>7. ASSUME NEW c \in Bikers, CrossFirst(c) PROVE CountOK'
  <2>1. PICK s \in Outcomes(lap[c] + 1) :
           /\ biker_status' = [biker_status EXCEPT ![c] = s]
           /\ biker_pc' = [biker_pc EXCEPT ![c] = IF s = "NORMAL" THEN "barr" ELSE "retire"]
    BY <1>7 DEF CrossFirst, LapDone, BikerGoes
  <2>2. biker_status[c] = "NORMAL"
    BY <1>7 DEF CrossFirst, StatusOK, StillRacing
  <2>3. Unstored' = Unstored
    BY <2>1, <2>2 DEF Unstored, TypeOK
  <2> QED BY <1>7, <1>a, <2>1, <2>3 DEF CrossFirst, TypeOK, sbVars
<1>8. ASSUME NEW c \in Bikers, Cross(c) PROVE CountOK'
  <2>1. Unstored' = Unstored
    BY <1>8 DEF Cross
  <2> QED BY <1>8, <1>a, <2>1 DEF Cross
<1>9. ASSUME NEW c \in Bikers, ScoreLock(c) PROVE CountOK'
  <2>1. Unstored' = Unstored
    BY <1>9 DEF ScoreLock
  <2> QED BY <1>9, <1>a, <2>1 DEF ScoreLock
<1>10. ASSUME NEW c \in Bikers, ScoreUnlock(c) PROVE CountOK'
  <2>1. PICK s \in Outcomes(lap[c] + 1) :
           /\ biker_status' = [biker_status EXCEPT ![c] = s]
           /\ biker_pc' = [biker_pc EXCEPT ![c] = IF s = "NORMAL" THEN "barr" ELSE "retire"]
    BY <1>10 DEF ScoreUnlock, LapDone, BikerGoes
  <2>2. biker_status[c] = "NORMAL"
    BY <1>10 DEF ScoreUnlock, StatusOK, StillRacing
  <2>3. Unstored' = Unstored
    BY <2>1, <2>2 DEF Unstored, TypeOK
  <2> QED BY <1>10, <1>a, <2>1, <2>3 DEF ScoreUnlock, TypeOK, sbVars
<1>11. ASSUME NEW c \in Bikers, RetireLock(c) PROVE CountOK'
  <2>1. Unstored' = Unstored
    BY <1>11 DEF RetireLock
  <2> QED BY <1>11, <1>a, <2>1 DEF RetireLock
<1>12. ASSUME NEW c \in Bikers, RetireLoad(c) PROVE CountOK'
  <2>1. Unstored' = Unstored
    BY <1>12 DEF RetireLoad
  <2>2. /\ loaded' = [loaded EXCEPT ![c] = act_num_bikers]
        /\ biker_pc' = [biker_pc EXCEPT ![c] = "store"]
        /\ act_num_bikers' = act_num_bikers
    BY <1>12 DEF RetireLoad, BikerGoes
  <2> QED BY <2>1, <2>2 DEF CountOK, TypeOK
<1>13. ASSUME NEW c \in Bikers, RetireStore(c) PROVE CountOK'
  <2>1. c \in Unstored /\ IsFiniteSet(Unstored)
    <3>1. Unstored \in SUBSET Bikers /\ c \in Unstored
      BY <1>13 DEF RetireStore, Unstored
    <3> QED BY <3>1, BikersAssumption, FS_Subset
  <2>2. biker_status[c] # "NORMAL"
    BY <1>13 DEF RetireStore, StatusOK, NotRacing
  <2>3. /\ act_num_bikers' = loaded[c] - 1 /\ loaded' = loaded
        /\ biker_status' = biker_status
        /\ biker_pc' = [biker_pc EXCEPT ![c] = IF unlocks[c] = 0 THEN "barr" ELSE "unlock"]
    BY <1>13 DEF RetireStore, BikerGoes, raceVars
  <2>4. Unstored' = Unstored \ {c}
    BY <2>2, <2>3 DEF Unstored, TypeOK
  <2> HIDE DEF Unstored
  <2>5. /\ Cardinality(Unstored') = Cardinality(Unstored) - 1
        /\ Cardinality(Unstored) \in Nat
    BY <2>1, <2>4, FS_RemoveElement, FS_CardinalityType
  <2>6. loaded[c] >= Cardinality(Unstored) /\ loaded[c] \in Int
    BY <1>13 DEF RetireStore, CountOK, TypeOK
  <2>7. act_num_bikers' >= Cardinality(Unstored')
    BY <2>3, <2>5, <2>6
  <2>8. ASSUME NEW b \in Bikers, biker_pc'[b] = "store"
        PROVE  loaded'[b] >= Cardinality(Unstored')
    <3>1. biker_pc[b] = "store"
      BY <2>3, <2>8 DEF TypeOK
    <3> QED BY <2>3, <2>5, <3>1 DEF CountOK, TypeOK
  <2> QED BY <2>7, <2>8 DEF CountOK
<1>14. ASSUME NEW c \in Bikers, RetireUnlock(c) PROVE CountOK'
  <2>1. Unstored' = Unstored
    BY <1>14 DEF RetireUnlock
  <2> QED BY <1>14, <1>a, <2>1 DEF RetireUnlock
<1>15. ASSUME NEW c \in Bikers, Settle(c) PROVE CountOK'
  <2>1. Unstored' = Unstored
    BY <1>15 DEF Settle
  <2> QED BY <1>15, <1>a, <2>1 DEF Settle
<1>16. ASSUME NEW c \in Bikers, BreakRank(c) PROVE CountOK'
  <2>1. Unstored' = Unstored
    BY <1>16 DEF BreakRank
  <2> QED BY <1>16, <1>a, <2>1 DEF BreakRank
<1>17. ASSUME NEW c \in Bikers, BreakLock(c) PROVE CountOK'
  <2>1. Unstored' = Unstored
    BY <1>17 DEF BreakLock
  <2> QED BY <1>17, <1>a, <2>1 DEF BreakLock
<1>18. ASSUME NEW c \in Bikers, BreakUnlock(c) PROVE CountOK'
  <2>1. Unstored' = Unstored
    BY <1>18 DEF BreakUnlock
  <2> QED BY <1>18, <1>a, <2>1 DEF BreakUnlock
<1>19. ASSUME NEW c \in Bikers, NextCheck(c) PROVE CountOK'
  <2>1. Unstored' = Unstored
    BY <1>19 DEF NextCheck
  <2> QED BY <1>19, <1>a, <2>1 DEF NextCheck
<1>20. ASSUME NEW c \in Bikers, NextLock(c) PROVE CountOK'
  <2>1. Unstored' = Unstored
    BY <1>20 DEF NextLock
  <2> QED BY <1>20, <1>a, <2>1 DEF NextLock
<1>21. ASSUME NEW c \in Bikers, NextCreate(c) PROVE CountOK'
  <2>1. Unstored' = Unstored
    BY <1>21 DEF NextCreate
  <2> QED BY <1>21, <1>a, <2>1 DEF NextCreate
<1>22. ASSUME NEW c \in Bikers, NextCount(c) PROVE CountOK'
  <2>1. Unstored' = Unstored
    BY <1>22 DEF NextCount
  <2> QED BY <1>22, <1>a, <2>1 DEF NextCount
<1>23. ASSUME NEW c \in Bikers, DummyLoop(c) PROVE CountOK'
  <2>1. Unstored' = Unstored
    BY <1>23 DEF DummyLoop
  <2> QED BY <1>23, <1>a, <2>1 DEF DummyLoop
<1>24. ASSUME UNCHANGED vars PROVE CountOK'
  BY <1>24 DEF vars, CountOK, Unstored, mainVars, raceVars, sbVars, dtVars
<1> QED
  BY <1>1, <1>2, <1>3, <1>4, <1>5, <1>6, <1>7, <1>8, <1>9, <1>10, <1>11, <1>12, <1>13, <1>14,
     <1>15, <1>16, <1>17, <1>18, <1>19, <1>20, <1>21, <1>22, <1>23, <1>24
  DEF Next, Running, Terminated, MainStep, BikerStep

LEMMA InitIInv == Init => IInv
<1> SUFFICES ASSUME Init PROVE IInv
  OBVIOUS
<1>1. Cardinality(Bikers) \in Nat
  BY BikersAssumption, FS_CardinalityType
<1>2. TypeOK
  <2>1. -1 \in -1 .. Laps
    BY LapsAssumption
  <2>2. lap \in [Bikers -> -1 .. Laps]
    BY <2>1 DEF Init, CreateDummyThreads
  <2>3. unlocks \in [Bikers -> Int] /\ loaded \in [Bikers -> Int] /\ act_num_bikers \in Int
    BY <1>1 DEF Init, CreateDummyThreads
  <2>4. /\ main_pc \in MainLocs /\ biker_pc \in [Bikers -> BikerLocs]
        /\ dummy_pc \in [Bikers -> DummyLocs] /\ biker_status \in [Bikers -> Status]
    BY DEF Init, CreateDummyThreads, MainLocs, BikerLocs, DummyLocs, Barriers, Status
  <2> QED BY <2>2, <2>3, <2>4 DEF Init, CreateDummyThreads, TypeOK
<1>3. StatusOK /\ DummyOK /\ PhaseOK
  BY LapsAssumption DEF Init, CreateDummyThreads, StatusOK, DummyOK, PhaseOK, NotRacing, Leaving, Left
<1>4. CountOK
  <2>1. Unstored = Bikers
    BY DEF Init, CreateDummyThreads, Unstored
  <2> QED BY <1>1, <2>1 DEF Init, CreateDummyThreads, CountOK
<1> QED
  BY <1>2, <1>3, <1>4 DEF IInv

LEMMA NextIInv == IInv /\ [Next]_vars => IInv'
<1> SUFFICES ASSUME IInv, [Next]_vars PROVE IInv'
  OBVIOUS
<1>1. TypeOK' /\ StatusOK'
  BY TypeStatusInductive DEF IInv
<1>2. DummyOK' /\ PhaseOK'
  BY PhaseInductive
<1>3. CountOK'
  BY CountInductive
<1> QED
  BY <1>1, <1>2, <1>3 DEF IInv

\* The invariant holds in every reachable state.
THEOREM Invariance == Spec => []IInv
BY InitIInv, NextIInv, PTL DEF Spec

\* Every variable keeps its type; in particular no biker rides more than
\* Laps laps (TypeOK).
THEOREM TypeCorrect == Spec => []TypeOK
<1>1. IInv => TypeOK
  BY DEF IInv
<1> QED
  BY <1>1, Invariance, PTL

\* act_num_bikers is never read by a loop condition while a biker may still
\* decrement it (the while of main and of dummy).
THEOREM LoopReadsAreStable == Spec => []LoopReadStable
<1>1. IInv => LoopReadStable
  BY DEF IInv, PhaseOK, LoopReadStable, TypeOK, MainLocs, Barriers, Riding, Leaving, Left, DummyOK
<1> QED
  BY <1>1, Invariance, PTL

\* main classifies the bikers while none of them moves.
THEOREM ClassifiesAlone == Spec => []ClassifyAlone
<1>1. IInv => ClassifyAlone
  BY DEF IInv, PhaseOK, ClassifyAlone
<1> QED
  BY <1>1, Invariance, PTL

\* main leaves the barriers last, with nobody waiting there.
THEOREM NobodyIsStranded == Spec => []NobodyStranded
<1>1. IInv => NobodyStranded
  BY DEF IInv, PhaseOK, NobodyStranded
<1> QED
  BY <1>1, Invariance, PTL

\* main does not end the race while somebody is racing, whatever happens to
\* scbr_mtx.
THEOREM RaceNeverEndsEarly == Spec => []NoEarlyEnd
<1>1. IInv => NoEarlyEnd
  BY ZeroMeansNobody DEF IInv, PhaseOK, NoEarlyEnd
<1> QED
  BY <1>1, Invariance, PTL

\* run_next always finds a free place in the table of dummies.
THEOREM NobodyDies == Spec => []NeverDies
<1>1. IInv => NeverDies
  BY DEF IInv, PhaseOK, NeverDies, TypeOK, MainLocs, Barriers, Riding, Leaving, Left
<1> QED
  BY <1>1, Invariance, PTL

-----------------------------------------------------------------------------
(* Short races.  A biker that breaks calls V(&sb.scbr_mtx) once for every  *)
(* interval that is left; in a race of fewer than two intervals (20 laps   *)
(* is one) that is once, the mutex excludes, no decrement is lost, and the *)
(* barriers keep what RaceRounds promises.                                 *)

Short == Laps < 2 * Span

\* From P to the last V.
Critical == {"scored", "load", "store", "unlock"}

ExactOK ==
    /\ act_num_bikers = Cardinality(Unstored)
    /\ \A b \in Bikers : biker_pc[b] \in Critical => scbr_mtx
    /\ \A b, c \in Bikers : biker_pc[b] \in Critical /\ biker_pc[c] \in Critical => b = c
    /\ \A b \in Bikers : biker_pc[b] = "store" => loaded[b] = act_num_bikers
    /\ \A b \in Bikers : biker_pc[b] \in {"retire", "load", "store", "unlock"} => unlocks[b] = 1

\* One call of V in a short race.
LEMMA OneUnlock ==
    ASSUME Short, NEW l \in 0 .. Laps, NEW s \in Outcomes(l), s # "NORMAL"
    PROVE  UnlockCalls(s, l) = 1
<1> USE LapsAssumption
<1>1. CASE l = Laps
  BY <1>1 DEF Outcomes, UnlockCalls
<1>2. CASE l # Laps /\ (l + 1) % Span = 0
  <2>1. l + 1 \in Nat /\ l + 1 > 0 /\ l + 1 <= Laps /\ Laps < 2 * Span
    BY <1>2 DEF Short
  <2>2. l + 1 = Span * ((l + 1) \div Span) /\ (l + 1) \div Span \in Int
    BY <1>2, <2>1, Divides
  <2>3. (l + 1) \div Span = 1
    <3> DEFINE q == (l + 1) \div Span
    <3>1. q \in Int /\ Span * q > 0 /\ Span * q < 2 * Span
      BY <2>1, <2>2
    <3> HIDE DEF q
    <3>2. q > 0
      BY <3>1
    <3>3. q < 2
      BY <3>1
    <3> QED BY <3>1, <3>2, <3>3 DEF q
  <2>4. l + 1 = Span
    BY <2>2, <2>3
  <2>5. l \div Span = 0 /\ Laps \div Span = 1
    BY <2>1, <2>4
  <2> QED BY <1>2, <2>5 DEF Outcomes, UnlockCalls
<1>3. CASE l # Laps /\ (l + 1) % Span # 0
  BY <1>3 DEF Outcomes
<1> QED
  BY <1>1, <1>2, <1>3

\* A step in which nobody enters or leaves the part between P and V.
LEMMA ExactKept ==
    ASSUME ExactOK,
           act_num_bikers' = act_num_bikers, loaded' = loaded, scbr_mtx' = scbr_mtx,
           biker_status' = biker_status, unlocks' = unlocks,
           \A b \in Bikers : biker_pc'[b] \in Critical \union {"retire"}
                             \/ biker_pc[b] \in Critical \union {"retire"}
                                => biker_pc'[b] = biker_pc[b]
    PROVE  ExactOK'
<1>1. Unstored' = Unstored
  BY DEF Unstored, Critical
<1> QED
  BY <1>1 DEF ExactOK, Critical

\* A lap that ends, for a biker that is not between P and V afterwards.
LEMMA ExactLapDone ==
    ASSUME IInv, ExactOK, Short, NEW c \in Bikers, LapDone(c),
           biker_pc[c] \in {"move", "scored"},
           act_num_bikers' = act_num_bikers, loaded' = loaded,
           biker_pc[c] = "move" => scbr_mtx' = scbr_mtx
    PROVE  ExactOK'
<1>1. PICK s \in Outcomes(lap[c] + 1) :
         /\ biker_status' = [biker_status EXCEPT ![c] = s]
         /\ unlocks' = [unlocks EXCEPT ![c] = IF s = "NORMAL" THEN 0
                                              ELSE UnlockCalls(s, lap[c] + 1)]
         /\ biker_pc' = [biker_pc EXCEPT ![c] = IF s = "NORMAL" THEN "barr" ELSE "retire"]
  BY DEF LapDone, BikerGoes
<1>2. biker_status[c] = "NORMAL" /\ lap[c] + 1 \in 0 .. Laps
  BY LapsAssumption DEF IInv, StatusOK, StillRacing, TypeOK
<1>3. s # "NORMAL" => UnlockCalls(s, lap[c] + 1) = 1
  BY <1>1, <1>2, OneUnlock
<1>4. /\ biker_pc'[c] = IF s = "NORMAL" THEN "barr" ELSE "retire"
      /\ biker_status'[c] = s
      /\ s # "NORMAL" => unlocks'[c] = 1
      /\ \A b \in Bikers : b # c => /\ biker_pc'[b] = biker_pc[b] /\ unlocks'[b] = unlocks[b]
                                    /\ biker_status'[b] = biker_status[b]
  BY <1>1, <1>3 DEF IInv, TypeOK
<1>5. Unstored' = Unstored
  BY <1>2, <1>4 DEF Unstored
<1>6. \A b \in Bikers : biker_pc'[b] \in Critical => b # c /\ biker_pc[b] \in Critical /\ scbr_mtx'
  <2>1. ASSUME NEW b \in Bikers, biker_pc'[b] \in Critical
        PROVE  b # c /\ biker_pc[b] \in Critical
    BY <1>4, <2>1 DEF Critical
  <2>2. CASE biker_pc[c] = "move"
    BY <2>1, <2>2 DEF ExactOK
  <2>3. CASE biker_pc[c] = "scored"
    BY <2>1, <2>3 DEF ExactOK, Critical
  <2> QED BY <2>2, <2>3
<1> QED
  BY <1>4, <1>5, <1>6 DEF ExactOK, Critical

LEMMA ExactInductive ==
    ASSUME IInv, ExactOK, Short, [Next]_vars
    PROVE  ExactOK'
<1> USE DEF mainVars, raceVars, sbVars, dtVars, BikerGoes
<1>p. biker_pc \in [Bikers -> BikerLocs]
  BY DEF IInv, TypeOK
<1>1. ASSUME NEW bar \in Barriers, Release(bar) PROVE ExactOK'
  <2>1. \A b \in Bikers : biker_pc[b] # bar => biker_pc'[b] = biker_pc[b]
    BY <1>1 DEF Release
  <2>2. ASSUME NEW b \in Bikers, biker_pc[b] = bar
        PROVE  /\ biker_pc[b] \notin Critical \union {"retire"}
               /\ biker_pc'[b] \notin Critical \union {"retire"}
    <3>1. biker_pc'[b] = BikerAfter(b, bar)
      BY <1>1, <2>2 DEF Release
    <3>2. biker_status[b] \in Status
      BY DEF IInv, TypeOK
    <3> QED BY <2>2, <3>1, <3>2, <1>1 DEF BikerAfter, Barriers, Status, Critical
  <2>3. /\ act_num_bikers' = act_num_bikers /\ loaded' = loaded /\ scbr_mtx' = scbr_mtx
        /\ biker_status' = biker_status /\ unlocks' = unlocks
    BY <1>1 DEF Release
  <2> QED BY <2>1, <2>2, <2>3, ExactKept
<1>2. ASSUME MainStep PROVE ExactOK'
  <2>1. /\ act_num_bikers' = act_num_bikers /\ loaded' = loaded /\ scbr_mtx' = scbr_mtx
        /\ biker_status' = biker_status /\ unlocks' = unlocks /\ biker_pc' = biker_pc
    BY <1>2 DEF MainStep, MainLoop, MainClassify, MainDestroy, MainJoin
  <2> QED BY <2>1, ExactKept
<1>3. ASSUME NEW c \in Bikers,
             \/ Stay(c) \/ Cross(c) \/ Settle(c) \/ BreakRank(c) \/ BreakLock(c)
             \/ BreakUnlock(c) \/ NextCheck(c) \/ NextLock(c) \/ NextCreate(c) \/ NextCount(c)
      PROVE  ExactOK'
  <2>1. /\ act_num_bikers' = act_num_bikers /\ loaded' = loaded /\ scbr_mtx' = scbr_mtx
        /\ biker_status' = biker_status /\ unlocks' = unlocks
    BY <1>3 DEF Stay, Cross, Settle, BreakRank, BreakLock, BreakUnlock, NextCheck, NextLock,
                NextCreate, NextCount
  <2>2. /\ biker_pc[c] \notin Critical \union {"retire"}
        /\ \E l \in BikerLocs \ (Critical \union {"retire"}) : biker_pc' = [biker_pc EXCEPT ![c] = l]
    BY <1>3 DEF Stay, Cross, Settle, BreakRank, BreakLock, BreakUnlock, NextCheck, NextLock,
                NextCreate, NextCount, Critical, BikerLocs, Riding, Leaving, Left
  <2>3. \A b \in Bikers : biker_pc'[b] \in Critical \union {"retire"}
                          \/ biker_pc[b] \in Critical \union {"retire"}
                             => biker_pc'[b] = biker_pc[b]
    BY <1>p, <2>2
  <2> QED BY <2>1, <2>3, ExactKept
<1>4. ASSUME NEW c \in Bikers, CrossFirst(c) PROVE ExactOK'
  <2>1. /\ LapDone(c) /\ biker_pc[c] = "move" /\ scbr_mtx' = scbr_mtx
        /\ act_num_bikers' = act_num_bikers /\ loaded' = loaded
    BY <1>4 DEF CrossFirst
  <2> QED BY <2>1, ExactLapDone
<1>5. ASSUME NEW c \in Bikers, ScoreUnlock(c) PROVE ExactOK'
  <2>1. /\ LapDone(c) /\ biker_pc[c] = "scored"
        /\ act_num_bikers' = act_num_bikers /\ loaded' = loaded
    BY <1>5 DEF ScoreUnlock
  <2> QED BY <2>1, ExactLapDone
<1>6. ASSUME NEW c \in Bikers, ScoreLock(c) \/ RetireLock(c) PROVE ExactOK'
  <2>1. /\ ~scbr_mtx /\ scbr_mtx' = TRUE /\ act_num_bikers' = act_num_bikers
        /\ loaded' = loaded /\ biker_status' = biker_status /\ unlocks' = unlocks
        /\ \/ biker_pc[c] = "score" /\ biker_pc'[c] = "scored"
           \/ biker_pc[c] = "retire" /\ biker_pc'[c] = "load"
        /\ \A b \in Bikers : b # c => biker_pc'[b] = biker_pc[b]
    BY <1>6, <1>p DEF ScoreLock, RetireLock
  <2>2. \A b \in Bikers : biker_pc[b] \notin Critical
    BY <2>1 DEF ExactOK
  <2>3. Unstored' = Unstored
    BY <2>1 DEF Unstored
  <2>4. \A b \in Bikers : biker_pc'[b] \in Critical => b = c
    BY <2>1, <2>2
  <2> QED BY <2>1, <2>2, <2>3, <2>4 DEF ExactOK, Critical
<1>7. ASSUME NEW c \in Bikers, RetireLoad(c) PROVE ExactOK'
  <2>1. /\ biker_pc[c] = "load" /\ biker_pc'[c] = "store" /\ loaded'[c] = act_num_bikers
        /\ \A b \in Bikers : b # c => biker_pc'[b] = biker_pc[b] /\ loaded'[b] = loaded[b]
        /\ act_num_bikers' = act_num_bikers /\ scbr_mtx' = scbr_mtx
        /\ biker_status' = biker_status /\ unlocks' = unlocks
    BY <1>7, <1>p DEF RetireLoad, IInv, TypeOK
  <2>2. Unstored' = Unstored
    BY <2>1 DEF Unstored
  <2> QED BY <2>1, <2>2 DEF ExactOK, Critical
<1>8. ASSUME NEW c \in Bikers, RetireStore(c) PROVE ExactOK'
  <2>1. /\ biker_pc[c] = "store" /\ act_num_bikers' = loaded[c] - 1 /\ loaded' = loaded
        /\ scbr_mtx' = scbr_mtx /\ biker_status' = biker_status /\ unlocks' = unlocks
        /\ biker_pc'[c] = IF unlocks[c] = 0 THEN "barr" ELSE "unlock"
        /\ \A b \in Bikers : b # c => biker_pc'[b] = biker_pc[b]
    BY <1>8, <1>p DEF RetireStore
  <2>2. unlocks[c] = 1 /\ loaded[c] = act_num_bikers /\ scbr_mtx
    BY <2>1 DEF ExactOK, Critical
  <2>3. biker_pc'[c] = "unlock"
    BY <2>1, <2>2
  <2>4. biker_status[c] # "NORMAL"
    BY <2>1 DEF IInv, StatusOK, NotRacing
  <2>5. Unstored' = Unstored \ {c} /\ c \in Unstored /\ Unstored \in SUBSET Bikers
    BY <2>1, <2>3, <2>4 DEF Unstored
  <2>6. Cardinality(Unstored') = Cardinality(Unstored) - 1
    BY <2>5, BikersAssumption, FS_Subset, FS_RemoveElement
  <2>7. \A b \in Bikers : b # c => biker_pc[b] \notin Critical
    BY <2>1 DEF ExactOK, Critical
  <2>8. act_num_bikers' = Cardinality(Unstored')
    BY <2>1, <2>2, <2>6 DEF ExactOK
  <2> QED BY <2>1, <2>2, <2>3, <2>7, <2>8 DEF ExactOK, Critical
<1>9. ASSUME NEW c \in Bikers, RetireUnlock(c) PROVE ExactOK'
  <2>1. unlocks[c] = 1 /\ biker_pc[c] = "unlock"
    BY <1>9 DEF RetireUnlock, ExactOK
  <2>2. /\ biker_pc'[c] = "barr" /\ act_num_bikers' = act_num_bikers /\ loaded' = loaded
        /\ biker_status' = biker_status
        /\ \A b \in Bikers : b # c => biker_pc'[b] = biker_pc[b] /\ unlocks'[b] = unlocks[b]
    BY <1>9, <1>p, <2>1 DEF RetireUnlock, IInv, TypeOK
  <2>3. \A b \in Bikers : b # c => biker_pc[b] \notin Critical
    BY <2>1 DEF ExactOK, Critical
  <2>4. biker_status[c] # "NORMAL"
    BY <2>1 DEF IInv, StatusOK, NotRacing
  <2>5. Unstored' = Unstored
    BY <2>1, <2>2 DEF Unstored
  <2> QED BY <2>2, <2>3, <2>5 DEF ExactOK, Critical
<1>10. ASSUME NEW c \in Bikers, DummyLoop(c) PROVE ExactOK'
  <2>1. /\ act_num_bikers' = act_num_bikers /\ loaded' = loaded /\ scbr_mtx' = scbr_mtx
        /\ biker_status' = biker_status /\ unlocks' = unlocks /\ biker_pc' = biker_pc
    BY <1>10 DEF DummyLoop
  <2> QED BY <2>1, ExactKept
<1>11. ASSUME UNCHANGED vars PROVE ExactOK'
  <2>1. /\ act_num_bikers' = act_num_bikers /\ loaded' = loaded /\ scbr_mtx' = scbr_mtx
        /\ biker_status' = biker_status /\ unlocks' = unlocks /\ biker_pc' = biker_pc
    BY <1>11 DEF vars
  <2> QED BY <2>1, ExactKept
<1> QED
  BY <1>1, <1>2, <1>3, <1>4, <1>5, <1>6, <1>7, <1>8, <1>9, <1>10, <1>11
  DEF Next, Running, Terminated, BikerStep

LEMMA ExactInit == Init => ExactOK
<1>1. Init => Unstored = Bikers
  BY DEF Init, Unstored
<1> QED
  BY <1>1 DEF Init, ExactOK, Critical

\* The invariant of a short race.
THEOREM ShortInvariance == Short => (Spec => [](IInv /\ ExactOK))
<1>1. Init => IInv /\ ExactOK
  BY InitIInv, ExactInit
<1>2. Short => ((IInv /\ ExactOK) /\ [Next]_vars => (IInv /\ ExactOK)')
  BY NextIInv, ExactInductive
<1>3. SUFFICES ASSUME Short PROVE Spec => [](IInv /\ ExactOK)
  OBVIOUS
<1>4. (IInv /\ ExactOK) /\ [Next]_vars => (IInv /\ ExactOK)'
  BY <1>2, <1>3
<1> QED
  BY <1>1, <1>4, PTL DEF Spec

LEMMA CountIsExact == IInv /\ ExactOK => ActiveCountExact
<1> SUFFICES ASSUME IInv, ExactOK, main_pc = "loop"
             PROVE  act_num_bikers = Cardinality({b \in Bikers : biker_status[b] = "NORMAL"})
  BY DEF ActiveCountExact
<1>1. \A b \in Bikers : biker_pc[b] \notin {"retire", "load", "store"}
  BY DEF IInv, PhaseOK, Leaving, Left
<1>2. Unstored = {b \in Bikers : biker_status[b] = "NORMAL"}
  BY <1>1 DEF Unstored
<1> QED
  BY <1>2 DEF ExactOK

\* In a short race main reads the number of bikers in the race: each of them
\* decrements it once and under scbr_mtx.
THEOREM CountsShortRaces == Short => (Spec => []ActiveCountExact)
<1> SUFFICES ASSUME Short PROVE Spec => []ActiveCountExact
  OBVIOUS
<1>1. Spec => [](IInv /\ ExactOK)
  BY ShortInvariance
<1> QED
  BY <1>1, CountIsExact, PTL

-----------------------------------------------------------------------------
(* The refinement of RaceRounds *)

Racing == {b \in Bikers : biker_status[b] = "NORMAL"}

PhaseIsOK ==
    /\ main_pc = "start_shot" => Phase = "grid"
    /\ main_pc = "barr" => Phase = "ride"
    /\ main_pc \in {"loop", "debugger_barr"} => Phase = "regroup"
    /\ main_pc \in {"classify", "prep_barr"} => Phase = "classify"
    /\ main_pc \in {"join", "freed"} => Phase = "over"

LEMMA PhaseIs == PhaseIsOK
BY DEF PhaseIsOK, Phase

LEMMA PhaseIsNext == PhaseIsOK'
BY PhaseIs, PTL

LEMMA RoundsInit == Init => Rounds!Init
<1> SUFFICES ASSUME Init PROVE Rounds!Init
  OBVIOUS
<1>1. Phase = "grid"
  BY PhaseIs DEF Init, PhaseIsOK
<1>2. Racing = Bikers
  BY DEF Init, Racing
<1> QED
  BY <1>1, <1>2 DEF Rounds!Init, Racing

\* main waits at the barrier it started this part of the round for.
LEMMA RideOnlyAtBarr ==
    ASSUME IInv, NEW c \in Bikers, biker_pc[c] \in {"move", "scored"}
    PROVE  main_pc = "barr"
BY DEF IInv, TypeOK, MainLocs, Barriers, PhaseOK, Leaving, Left

LEMMA RoundsRelease ==
    ASSUME IInv, ExactOK, NEW bar \in Barriers, Release(bar)
    PROVE  Rounds!Next
<1>1. main_pc = bar
  BY FullMeansAll DEF Release, IInv
<1>2. main_pc' = MainAfter(bar) /\ biker_status' = biker_status
  BY <1>1 DEF Release, raceVars
<1>3. Racing' = Racing
  BY <1>2 DEF Racing
<1>4. CASE bar = "start_shot"
  <2>1. Phase = "grid" /\ Phase' = "ride"
    BY <1>1, <1>2, <1>4, PhaseIs, PhaseIsNext DEF PhaseIsOK, MainAfter
  <2> QED BY <1>3, <2>1 DEF Rounds!Next, Rounds!StartShot, Rounds!GoTo, Racing
<1>5. CASE bar = "barr"
  <2>1. Phase = "ride" /\ Phase' = "regroup"
    BY <1>1, <1>2, <1>5, PhaseIs, PhaseIsNext DEF PhaseIsOK, MainAfter
  <2> QED BY <1>3, <2>1 DEF Rounds!Next, Rounds!AllMoved, Rounds!GoTo, Racing
<1>6. CASE bar = "debugger_barr"
  <2>1. Phase = "regroup" /\ Phase' = "classify"
    BY <1>1, <1>2, <1>6, PhaseIs, PhaseIsNext DEF PhaseIsOK, MainAfter
  <2>2. act_num_bikers # 0
    BY <1>1, <1>6 DEF IInv, PhaseOK
  <2>3. \A b \in Bikers : biker_pc[b] \notin {"retire", "load", "store"}
    BY <1>1, <1>6 DEF IInv, PhaseOK, Leaving, Left
  <2>4. Racing # {}
    <3>1. Unstored = Racing
      BY <2>3 DEF Unstored, Racing
    <3> QED BY <2>2, <3>1, FS_EmptySet DEF ExactOK
  <2> QED BY <1>3, <2>1, <2>4 DEF Rounds!Next, Rounds!Classify, Rounds!GoTo, Racing
<1>7. CASE bar = "prep_barr"
  <2>1. Phase = "classify" /\ Phase' = "ride"
    BY <1>1, <1>2, <1>7, PhaseIs, PhaseIsNext DEF PhaseIsOK, MainAfter
  <2> QED BY <1>3, <2>1 DEF Rounds!Next, Rounds!Ride, Rounds!GoTo, Racing
<1> QED
  BY <1>4, <1>5, <1>6, <1>7 DEF Barriers

LEMMA RoundsMain ==
    ASSUME IInv, MainStep
    PROVE  Rounds!Next \/ (Phase' = Phase /\ Racing' = Racing)
<1>1. biker_status' = biker_status
  BY DEF MainStep, MainLoop, MainClassify, MainDestroy, MainJoin, raceVars
<1>2. Racing' = Racing
  BY <1>1 DEF Racing
<1>3. CASE MainLoop /\ act_num_bikers = 0
  <2>1. Phase = "regroup" /\ Phase' = "over"
    BY <1>3, PhaseIs, PhaseIsNext DEF PhaseIsOK, MainLoop
  <2>2. Racing = {}
    BY <1>3, ZeroMeansNobody DEF IInv, Racing
  <2> QED BY <1>2, <2>1, <2>2 DEF Rounds!Next, Rounds!End, Rounds!GoTo, Racing
<1>4. CASE MainLoop /\ act_num_bikers # 0
  <2>1. Phase = "regroup" /\ Phase' = "regroup"
    BY <1>4, PhaseIs, PhaseIsNext DEF PhaseIsOK, MainLoop
  <2> QED BY <1>2, <2>1
<1>5. CASE MainClassify
  <2>1. Phase = "classify" /\ Phase' = "classify"
    BY <1>5, PhaseIs, PhaseIsNext DEF PhaseIsOK, MainClassify
  <2> QED BY <1>2, <2>1
<1>6. CASE MainDestroy \/ \E b \in Bikers : MainJoin(b)
  <2>1. main_pc \in {"join", "freed"} /\ main_pc' \in {"join", "freed"}
    BY <1>6 DEF MainDestroy, MainJoin
  <2>2. Phase = "over" /\ Phase' = "over"
    BY <2>1, PhaseIs, PhaseIsNext DEF PhaseIsOK
  <2> QED BY <1>2, <2>2
<1> QED
  BY <1>3, <1>4, <1>5, <1>6 DEF MainStep

LEMMA SamePhase ==
    ASSUME main_pc' = main_pc
    PROVE  Phase' = Phase
BY DEF Phase

LEMMA RoundsBiker ==
    ASSUME IInv, NEW c \in Bikers, BikerStep(c) \/ DummyLoop(c)
    PROVE  Rounds!Next \/ (Phase' = Phase /\ Racing' = Racing)
<1>1. main_pc' = main_pc
  BY DEF BikerStep, Stay, CrossFirst, Cross, ScoreLock, ScoreUnlock, RetireLock, RetireLoad,
         RetireStore, RetireUnlock, Settle, BreakRank, BreakLock, BreakUnlock, NextCheck,
         NextLock, NextCreate, NextCount, DummyLoop, mainVars
<1>2. Phase' = Phase
  BY <1>1, SamePhase
<1>3. CASE CrossFirst(c) \/ ScoreUnlock(c)
  <2>1. LapDone(c) /\ biker_pc[c] \in {"move", "scored"}
    BY <1>3 DEF CrossFirst, ScoreUnlock
  <2>2. PICK s \in Outcomes(lap[c] + 1) : biker_status' = [biker_status EXCEPT ![c] = s]
    BY <2>1 DEF LapDone
  <2>3. biker_status[c] = "NORMAL" /\ biker_status \in [Bikers -> Status]
    BY <2>1 DEF IInv, StatusOK, StillRacing, TypeOK
  <2>4. CASE s = "NORMAL"
    <3>1. Racing' = Racing
      BY <2>2, <2>3, <2>4 DEF Racing
    <3> QED BY <1>2, <3>1
  <2>5. CASE s # "NORMAL"
    <3>1. c \in Racing /\ Racing' = Racing \ {c}
      BY <2>2, <2>3, <2>5 DEF Racing
    <3>2. Phase = "ride"
      BY <2>1, RideOnlyAtBarr, PhaseIs DEF PhaseIsOK
    <3>3. Rounds!Retire(c)
      BY <1>2, <3>1, <3>2 DEF Rounds!Retire, Racing
    <3> QED BY <3>3 DEF Rounds!Next
  <2> QED BY <2>4, <2>5
<1>4. CASE ~(CrossFirst(c) \/ ScoreUnlock(c))
  <2>1. biker_status' = biker_status
    BY <1>4 DEF BikerStep, Stay, Cross, ScoreLock, RetireLock, RetireLoad,
         RetireStore, RetireUnlock, Settle, BreakRank, BreakLock, BreakUnlock, NextCheck,
         NextLock, NextCreate, NextCount, DummyLoop, raceVars
  <2>2. Racing' = Racing
    BY <2>1 DEF Racing
  <2> QED BY <1>2, <2>2
<1> QED
  BY <1>3, <1>4

LEMMA RoundsStep ==
    IInv /\ ExactOK /\ [Next]_vars => [Rounds!Next]_<<Phase, Racing>>
<1> SUFFICES ASSUME IInv, ExactOK, [Next]_vars
             PROVE  Rounds!Next \/ (Phase' = Phase /\ Racing' = Racing)
  OBVIOUS
<1>1. CASE UNCHANGED vars
  <2>1. main_pc' = main_pc /\ biker_status' = biker_status
    BY <1>1 DEF vars, mainVars, raceVars
  <2> QED BY <2>1, SamePhase DEF Racing
<1> QED
  BY <1>1, RoundsRelease, RoundsMain, RoundsBiker DEF Next, Running, Terminated

\* A short race proceeds in rounds that all threads go through together, and
\* is over exactly when nobody is racing.
THEOREM ShortRacesGoInRounds == Short => (Spec => RefinesRounds)
<1> SUFFICES ASSUME Short PROVE Spec => RefinesRounds
  OBVIOUS
<1>1. Spec => [](IInv /\ ExactOK)
  BY ShortInvariance
<1>2. IInv /\ ExactOK /\ [Next]_vars
         => [Rounds!Next]_<<Phase, {b \in Bikers : biker_status[b] = "NORMAL"}>>
  BY RoundsStep DEF Racing
<1> QED
  BY <1>1, <1>2, RoundsInit, PTL DEF Spec, RefinesRounds, Rounds!Spec

=============================================================================
