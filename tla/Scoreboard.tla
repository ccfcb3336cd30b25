----------------------------- MODULE Scoreboard -----------------------------
(***************************************************************************)
(* The scoreboard of the velodrome simulator (bikeStructures.c) and what   *)
(* biker_loop and break_biker (biker.c) do to it.  A ring of buffers holds *)
(* the laps that some bikers have completed and others have not: lap l is  *)
(* in slot l % n, and a second lap that wants the same slot doubles the    *)
(* ring.  When a buffer holds as many bikers as have not broken, counted   *)
(* by tot_num_bikers per interval of Span laps, the report of its lap is   *)
(* printed and the buffer freed.                                           *)
(*                                                                         *)
(* Of the race (BikeRace) only this is kept: in every round each biker may *)
(* cross the line once, and break_biker runs after barr.                   *)
(***************************************************************************)
EXTENDS Naturals, Integers, FiniteSets, FiniteSetsExt

CONSTANTS
    Bikers,
    Laps,       \* speedway.laps
    Span,       \* laps of an interval, 15 in the code
    Sprint,     \* laps between two laps with points, 10 in the code
    MinBikers,  \* a biker breaks only if there are more, 5 in the code
    NoBuffer    \* an empty slot

Intervals == 0 .. Cardinality(Bikers) \div Span + 1

\* A biker that breaks unlocks scbr_mtx once per interval that is left: with
\* more than one the mutex stops to exclude anybody (BikeRace), so this is the
\* race of 20 laps.  tot_num_bikers has one entry per Span bikers, not laps:
\* the last assumption is what the code relies on.
ASSUME ScoreboardAssumption ==
    /\ IsFiniteSet(Bikers)
    /\ {Laps, Span, Sprint} \subseteq Nat \ {0} /\ MinBikers \in Nat
    /\ Laps \in Span .. 2 * Span - 2
    /\ Laps \div Span \in Intervals

VARIABLES
    lap,        \* laps completed, -1 before the first crossing of the line
    score,
    pc,         \* where a biker is in its round
    loaded,     \* the value read by a biker's sb.tot_num_bikers[i]--
    scores,     \* the ring: [0 .. sb.n - 1 -> buffers]
    tot_num_bikers,
    fast,       \* the bikers with fast set; sb.foundFast when there is one
    broken,     \* the bikers in the list of the broken
    reports     \* history: the report of each lap

vars == <<lap, score, pc, loaded, scores, tot_num_bikers, fast, broken, reports>>

\* sb.n
Size(ring) == Cardinality(DOMAIN ring)

Buffers == [lap : 0 .. Laps - 1, data : SUBSET Bikers, size : Nat]

ASSUME BufferAssumption == NoBuffer \notin Buffers

\* Who is ranked in a report, and who is listed as broken.
Reports == [ranked : SUBSET Bikers, broke : SUBSET Bikers]
NoReport == [ranked |-> {}, broke |-> {}]

TypeOK ==
    /\ lap \in [Bikers -> -1 .. Laps]
    /\ score \in [Bikers -> Nat]
    /\ pc \in [Bikers -> {"ride", "barr", "load", "store", "broken", "finished", "gone"}]
    /\ loaded \in [Bikers -> Int]
    /\ scores \in [0 .. Size(scores) - 1 -> Buffers \union {NoBuffer}]
    /\ tot_num_bikers \in [Intervals -> Int]
    /\ fast \subseteq Bikers /\ Cardinality(fast) <= 1
    /\ broken \subseteq Bikers
    /\ reports \in [0 .. Laps - 1 -> Reports]

\* new_scoreboard
Init ==
    /\ lap = [b \in Bikers |-> -1]
    /\ score = [b \in Bikers |-> 0]
    /\ pc = [b \in Bikers |-> "ride"]
    /\ loaded = [b \in Bikers |-> 0]
    /\ scores = [i \in 0 .. 1 + (Laps - 1) \div 4 |-> NoBuffer]
    /\ tot_num_bikers = [i \in Intervals |-> Cardinality(Bikers)]
    /\ fast = {}
    /\ broken = {}
    /\ reports = [l \in 0 .. Laps - 1 |-> NoReport]

-----------------------------------------------------------------------------
(* add_score *)

Interval(l) == (l + 1) \div Span

\* Mutant: the buffers keep their slots.
ReallocatedInPlace(ring) ==
    [i \in 0 .. 2 * Size(ring) - 1 |->
        IF i \in DOMAIN ring THEN ring[i] ELSE NoBuffer]

\* reallocate_scoreboard
Reallocated(ring) ==
    LET size == 2 * Size(ring)
        To(i) == {j \in DOMAIN ring : ring[j] # NoBuffer /\ ring[j].lap % size = i}
    IN  [i \in 0 .. size - 1 |-> IF To(i) = {} THEN NoBuffer ELSE ring[Max(To(i))]]

Slot(ring, l) == l % Size(ring)

\* new_buffer
NewBuffer(l) == [lap |-> l, data |-> {}, size |-> tot_num_bikers[Interval(l)]]

\* The ring with a slot for lap l: another lap may be there, or none.
RingFor(l) ==
    LET old == scores[Slot(scores, l)]
        ring == IF old # NoBuffer /\ old.lap # l THEN Reallocated(scores) ELSE scores
    IN  IF ring[Slot(ring, l)] # NoBuffer THEN ring
        ELSE [ring EXCEPT ![Slot(ring, l)] = NewBuffer(l)]

\* Mutant: the lap of the buffer before is not looked at.
LonelyAnyLap(ring, l) ==
    LET prev_b == ring[(l - 1 + Size(ring)) % Size(ring)]
    IN  prev_b # NoBuffer /\ Cardinality(prev_b.data) = 1

\* One biker alone has completed the lap before l: the one that now completes l.
Lonely(ring, l) ==
    LET prev_b == ring[(l - 1 + Size(ring)) % Size(ring)]
    IN  prev_b # NoBuffer /\ prev_b.lap + 1 = l /\ Cardinality(prev_b.data) = 1

\* The points of the biker that completes lap l after i others.
Points(l, i) ==
    IF (l + 1) % Sprint # 0 \/ i > 3 THEN 0 ELSE <<5, 3, 2, 1>>[i + 1]

\* Mutant: a report is printed when one biker is missing.
CompleteEarly(b) == Cardinality(b.data) + 1 >= tot_num_bikers[Interval(b.lap)]

Complete(b) == Cardinality(b.data) = tot_num_bikers[Interval(b.lap)]

\* The fast biker is drawn among all until one is found that has not broken.
Draw(b, buffer) ==
    IF buffer.lap + 1 = Laps - 2 /\ fast = {} /\ buffer.data = {b}
    THEN {{}} \union {{x} : x \in Bikers \ broken}
    ELSE {fast}

\* print_buffer: the bikers of the buffer, in an order that depends on the lap,
\* and those in the list of the broken that had not completed it.
PrintBuffer(buffer) ==
    [ranked |-> buffer.data, broke |-> {x \in broken : lap[x] <= buffer.lap}]

AddScore(b) ==
    LET l == lap[b]
        ring == RingFor(l)
        pos == Slot(ring, l)
        buffer == [ring[pos] EXCEPT !.data = @ \union {b}]
    IN  /\ score' = [score EXCEPT ![b] = @ + Points(l, Cardinality(ring[pos].data))
                                            + IF Lonely(ring, l) THEN 20 ELSE 0]
        /\ fast' \in Draw(b, buffer)
        /\ scores' = [ring EXCEPT ![pos] = IF Complete(buffer) THEN NoBuffer ELSE buffer]
        /\ reports' = IF Complete(buffer) THEN [reports EXCEPT ![buffer.lap] = PrintBuffer(buffer)]
                      ELSE reports

-----------------------------------------------------------------------------
(* biker_loop *)

Goes(b, s) == pc' = [pc EXCEPT ![b] = s]

\* It does not come to the line in this round.
Stay(b) ==
    /\ pc[b] = "ride"
    /\ Goes(b, "barr")
    /\ UNCHANGED <<lap, score, loaded, scores, tot_num_bikers, fast, broken, reports>>

\* The lap before the next one is scored, then the biker goes on, breaks or
\* has finished.  There is one chance to break, in interval 0, whose count
\* does not change: it may be read with the scoreboard.
Cross(b) ==
    /\ pc[b] = "ride"
    /\ IF lap[b] = -1 THEN UNCHANGED <<score, fast, scores, reports>> ELSE AddScore(b)
    /\ lap' = [lap EXCEPT ![b] = @ + 1]
    /\ \/ Goes(b, IF lap'[b] = Laps THEN "finished" ELSE "barr")
       \/ /\ (lap'[b] + 1) % Span = 0
          /\ tot_num_bikers[Interval(lap[b])] > MinBikers
          /\ Goes(b, "load")
    /\ UNCHANGED <<loaded, tot_num_bikers, broken>>

\* sb.tot_num_bikers[i]-- for the interval that is left, after the mutex was
\* unlocked.
Load(b) ==
    /\ pc[b] = "load"
    /\ loaded' = [loaded EXCEPT ![b] = tot_num_bikers[1]]
    /\ Goes(b, "store")
    /\ UNCHANGED <<lap, score, scores, tot_num_bikers, fast, broken, reports>>

Store(b) ==
    /\ pc[b] = "store"
    /\ tot_num_bikers' = [tot_num_bikers EXCEPT ![1] = loaded[b] - 1]
    /\ Goes(b, "broken")
    /\ UNCHANGED <<lap, score, loaded, scores, fast, broken, reports>>

\* barr and what is behind it: break_biker has put those that broke in the list
\* of the broken before the next round begins.
EndRound ==
    /\ \A b \in Bikers : pc[b] \in {"barr", "broken", "finished", "gone"}
    /\ \E b \in Bikers : pc[b] # "gone"
    /\ pc' = [b \in Bikers |-> IF pc[b] = "barr" THEN "ride" ELSE "gone"]
    /\ broken' = broken \union {b \in Bikers : pc[b] = "broken"}
    /\ UNCHANGED <<lap, score, loaded, scores, tot_num_bikers, fast, reports>>

Terminated == (\A b \in Bikers : pc[b] = "gone") /\ UNCHANGED vars

Next ==
    \/ \E b \in Bikers : Stay(b) \/ Cross(b) \/ Load(b) \/ Store(b)
    \/ EndRound
    \/ Terminated

Spec == Init /\ [][Next]_vars

-----------------------------------------------------------------------------
(* Properties *)

Live == {scores[i] : i \in DOMAIN scores} \ {NoBuffer}

\* Every lap a biker has completed is on record exactly once, in the one buffer of
\* that lap or in its printed report, although slots are shared by many laps,
\* the ring is doubled while laps are in it, and no buffer overflows.  Every
\* variable stays in its range.
NothingLost ==
    /\ TypeOK
    /\ \A b \in Bikers : \A l \in 0 .. lap[b] - 1 :
          Cardinality({x \in Live : x.lap = l /\ b \in x.data})
            + (IF b \in reports[l].ranked THEN 1 ELSE 0) = 1
    /\ \A x \in Live : /\ reports[x.lap] = NoReport
                       /\ \A b \in x.data : lap[b] > x.lap
                       /\ Cardinality(x.data) <= x.size
                       /\ \A y \in Live \ {x} : y.lap # x.lap

\* A lap is reported once, and then every biker is either ranked or listed as
\* broken, never both, although the list is kept by other threads; only one
\* that is breaking in this round may be in neither.
ReportsWaitForAll ==
    [][\A l \in 0 .. Laps - 1 :
          reports'[l] # reports[l] =>
             /\ reports[l] = NoReport
             /\ reports'[l].ranked \intersect reports'[l].broke = {}
             /\ \A b \in Bikers \ (reports'[l].ranked \union reports'[l].broke) :
                   pc[b] \in {"load", "store", "broken"}]_vars

\* The 20 points are for being a lap ahead of everyone: nobody else has
\* completed the lap before.  Who is, and races with somebody, gets them.
BonusEarned ==
    [][\A b \in Bikers :
          score'[b] # score[b] \/ lap'[b] # lap[b] =>
             (score'[b] - score[b] >= 20 <=>
                /\ lap[b] >= 1
                /\ \A c \in Bikers \ {b} : lap[c] < lap[b]
                /\ reports[lap[b] - 1] = NoReport)]_vars

=============================================================================
