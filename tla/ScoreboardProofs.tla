-------------------------- MODULE ScoreboardProofs --------------------------
(***************************************************************************)
(* Proofs about Scoreboard for every finite set of bikers and every race   *)
(* in which a breaking biker unlocks scbr_mtx once.  The inductive         *)
(* invariant is the conjunction of                                         *)
(*   TypeOK    the types;                                                  *)
(*   StageOK   where a biker is in its round tells whether it broke or     *)
(*             finished, and in which lap;                                 *)
(*   CountOK   tot_num_bikers is never below the bikers that stay;         *)
(*   RingOK    every buffer is in the slot of its lap;                     *)
(*   LiveOK    who has completed the lap of a buffer, how large the buffer *)
(*             is, and that no lap is more than a ring ahead of it;        *)
(*   RecordOK  a completed lap is in a buffer or in a report;              *)
(*   ReportOK  a report names everyone that stays.                         *)
(***************************************************************************)
EXTENDS Scoreboard, ProofLemmas

\* The bikers that are not taken from tot_num_bikers.
Staying == {b \in Bikers : b \notin broken /\ pc[b] # "broken"}

StageOK ==
    \A b \in Bikers :
       /\ pc[b] \in {"ride", "barr"} => lap[b] < Laps
       /\ pc[b] \in {"load", "store", "broken"} => lap[b] = Span - 1
       /\ pc[b] = "finished" => lap[b] = Laps
       /\ pc[b] = "gone" => b \in broken \/ lap[b] = Laps
       /\ b \in broken => pc[b] = "gone" /\ lap[b] = Span - 1

CountOK ==
    /\ tot_num_bikers[0] = Cardinality(Bikers)
    /\ tot_num_bikers[1] >= Cardinality(Staying)
    /\ \A b \in Bikers : pc[b] = "store" => loaded[b] >= Cardinality(Staying)

\* A ring of n slots in which every buffer is in the slot of its lap.
RingOf(ring, n) ==
    /\ n \in Nat /\ n >= 2
    /\ ring \in [0 .. n - 1 -> Buffers \union {NoBuffer}]
    /\ \A i \in 0 .. n - 1 : ring[i] # NoBuffer => ring[i].lap % n = i

RingOK == RingOf(scores, Size(scores))

\* The buffers in a ring.
In(ring) == {ring[i] : i \in DOMAIN ring} \ {NoBuffer}

LiveOK ==
    \A x \in Live :
       /\ x.data # {}
       /\ \A b \in x.data : lap[b] > x.lap
       /\ reports[x.lap] = NoReport
       /\ x.size >= Cardinality(IF x.lap + 1 < Span THEN Bikers ELSE Staying)
       /\ \A b \in Bikers : lap[b] - 1 - x.lap < Size(scores)

RecordOK ==
    \A b \in Bikers : \A l \in 0 .. lap[b] - 1 :
       b \in reports[l].ranked \/ \E x \in Live : x.lap = l /\ b \in x.data

ReportOK ==
    \A l \in 0 .. Laps - 1 : reports[l] # NoReport =>
       /\ Staying \subseteq reports[l].ranked
       /\ \A b \in reports[l].ranked : lap[b] > l

IInv == TypeOK /\ StageOK /\ CountOK /\ RingOK /\ LiveOK /\ RecordOK /\ ReportOK

-----------------------------------------------------------------------------
(* Numbers *)

\* No multiple of n but 0 is less than n away from 0.
LEMMA SmallMultiple ==
    ASSUME NEW n \in Nat \ {0}, NEW d \in Int, n * d < n, n * d > -n
    PROVE  d = 0
<1>1. ~(d >= 1)
  <2> SUFFICES ASSUME d >= 1 PROVE FALSE
    OBVIOUS
  <2>1. n * d >= n
    OBVIOUS
  <2> QED BY <2>1
<1>2. ~(d <= -1)
  <2> SUFFICES ASSUME d <= -1 PROVE FALSE
    OBVIOUS
  <2>1. n * d <= -n
    OBVIOUS
  <2> QED BY <2>1
<1> QED
  BY <1>1, <1>2

\* The rest of a number is the only one.
LEMMA RestIs ==
    ASSUME NEW n \in Nat \ {0}, NEW a \in Nat, NEW k \in Int, NEW r \in 0 .. n - 1, a = n * k + r
    PROVE  a % n = r
<1> DEFINE q == a \div n
           s == a % n
<1>1. q \in Nat /\ s \in 0 .. n - 1 /\ a = n * q + s
  BY DivMod
<1> HIDE DEF q, s
<1>2. n * (q - k) = r - s
  BY <1>1
<1>3. q - k \in Int /\ n * (q - k) < n /\ n * (q - k) > -n
  BY <1>1, <1>2
<1>4. q - k = 0
  BY <1>3, SmallMultiple
<1>5. s = r
  BY <1>1, <1>2, <1>4
<1> QED
  BY <1>5 DEF s

\* Numbers less than n apart have different rests.
LEMMA RestsDiffer ==
    ASSUME NEW n \in Nat \ {0}, NEW a \in Nat, NEW c \in Nat, a % n = c % n, a - c < n, c <= a
    PROVE  a = c
<1> DEFINE q == a \div n
           r == c \div n
           s == a % n
           t == c % n
<1>1. q \in Nat /\ s \in 0 .. n - 1 /\ a = n * q + s
  BY DivMod
<1>2. r \in Nat /\ t \in 0 .. n - 1 /\ c = n * r + t
  BY DivMod
<1>3. s = t
  OBVIOUS
<1> HIDE DEF q, r, s, t
<1>4. q - r \in Int /\ n * (q - r) = a - c
  BY <1>1, <1>2, <1>3
<1>5. n * (q - r) < n /\ n * (q - r) > -n
  BY <1>4
<1>6. q - r = 0
  BY <1>4, <1>5, SmallMultiple
<1> QED
  BY <1>4, <1>6

\* The rest for n follows from the rest for 2 * n.
LEMMA RestOfTwice ==
    ASSUME NEW n \in Nat \ {0}, NEW a \in Nat
    PROVE  (a % (2 * n)) % n = a % n
<1> DEFINE m == 2 * n
           q == a \div m
           s == a % m
           u == s \div n
           v == s % n
<1>1. m \in Nat \ {0}
  OBVIOUS
<1> HIDE DEF m
<1>2. q \in Nat /\ s \in 0 .. m - 1 /\ a = m * q + s
  BY <1>1, DivMod
<1> HIDE DEF q, s
<1>3. s \in Nat
  BY <1>1, <1>2
<1>4. u \in Nat /\ v \in 0 .. n - 1 /\ s = n * u + v
  BY <1>3, DivMod
<1> HIDE DEF u, v
<1>5. 2 * q + u \in Int /\ a = n * (2 * q + u) + v
  BY <1>2, <1>4 DEF m
<1>6. a % n = v
  BY <1>4, <1>5, RestIs
<1> QED
  BY <1>6 DEF v, s, m

\* The slot before that of lap l.
LEMMA SlotBefore ==
    ASSUME NEW n \in Nat \ {0}, NEW l \in Nat, l >= 1
    PROVE  (l - 1 + n) % n = (l - 1) % n
<1> DEFINE a == l - 1
           r == a \div n
           t == a % n
<1>0. a \in Nat
  OBVIOUS
<1> HIDE DEF a
<1>1. r \in Nat /\ t \in 0 .. n - 1 /\ a = n * r + t
  BY <1>0, DivMod
<1> HIDE DEF r, t
<1>2. a + n \in Nat /\ a + n = n * (r + 1) + t
  BY <1>0, <1>1
<1>3. (a + n) % n = t
  BY <1>1, <1>2, RestIs
<1> QED
  BY <1>3 DEF t, a

\* There are two intervals: up to the lap after which bikers break, and from it on.
LEMMA IntervalIs ==
    ASSUME NEW l \in 0 .. Laps - 1
    PROVE  Interval(l) = IF l + 1 < Span THEN 0 ELSE 1
<1> DEFINE q == (l + 1) \div Span
           s == (l + 1) % Span
<1>0. Span \in Nat \ {0} /\ Laps \in Nat /\ Laps <= 2 * Span - 2
  BY ScoreboardAssumption
<1>1. q \in Nat /\ s \in 0 .. Span - 1 /\ l + 1 = Span * q + s
  <2>1. l + 1 \in Nat
    OBVIOUS
  <2> QED BY <1>0, <2>1, DivMod
<1> HIDE DEF q, s
<1>2. Span * q < 2 * Span /\ Span * q > l + 1 - Span
  BY <1>0, <1>1
<1>3. q < 2
  <2> SUFFICES ASSUME q >= 2 PROVE FALSE
    BY <1>1
  <2>1. Span * q >= 2 * Span
    BY <1>0, <1>1
  <2> QED BY <1>0, <1>1, <1>2, <2>1
<1>4. CASE l + 1 < Span
  <2>1. q # 1
    <3> SUFFICES ASSUME q = 1 PROVE FALSE
      OBVIOUS
    <3> QED BY <1>0, <1>1, <1>4
  <2>2. q = 0
    BY <1>1, <1>3, <2>1
  <2> QED BY <1>4, <2>2 DEF Interval, q
<1>5. CASE ~(l + 1 < Span)
  <2>1. q # 0
    <3> SUFFICES ASSUME q = 0 PROVE FALSE
      OBVIOUS
    <3> QED BY <1>0, <1>1, <1>5
  <2>2. q = 1
    BY <1>1, <1>3, <2>1
  <2> QED BY <1>5, <2>2 DEF Interval, q
<1> QED
  BY <1>4, <1>5

\* A biker can break only with Span - 1 laps.
LEMMA BreakingLap ==
    ASSUME NEW l \in 0 .. Laps, (l + 1) % Span = 0
    PROVE  l = Span - 1
<1> DEFINE q == (l + 1) \div Span
<1>0. Span \in Nat \ {0} /\ Laps \in Nat /\ Laps <= 2 * Span - 2
  BY ScoreboardAssumption
<1>1. q \in Int /\ l + 1 = Span * q
  BY <1>0, Divides
<1> HIDE DEF q
<1>2. Span * q > 0 /\ Span * q < 2 * Span
  BY <1>0, <1>1
<1>3. q > 0
  <2> SUFFICES ASSUME q <= 0 PROVE FALSE
    BY <1>1
  <2>1. Span * q <= 0
    BY <1>0, <1>1
  <2> QED BY <1>0, <1>1, <1>2, <2>1
<1>4. q < 2
  <2> SUFFICES ASSUME q >= 2 PROVE FALSE
    BY <1>1
  <2>1. Span * q >= 2 * Span
    BY <1>0, <1>1
  <2> QED BY <1>0, <1>1, <1>2, <2>1
<1>5. q = 1
  BY <1>1, <1>3, <1>4
<1> QED
  BY <1>0, <1>1, <1>5

LEMMA Constants ==
    /\ Laps \in Nat \ {0} /\ Span \in Nat /\ Span >= 2 /\ Laps >= Span /\ Sprint \in Nat \ {0}
    /\ IsFiniteSet(Bikers) /\ Cardinality(Bikers) \in Nat
    /\ {0, 1} \subseteq Intervals
<1>1. IsFiniteSet(Bikers) /\ Cardinality(Bikers) \in Nat
  BY ScoreboardAssumption, FS_CardinalityType
<1>2. Laps \in Nat \ {0} /\ Span \in Nat \ {0} /\ Sprint \in Nat \ {0} /\ Span <= Laps
      /\ Laps <= 2 * Span - 2
  BY ScoreboardAssumption
<1>3. Cardinality(Bikers) \div Span \in Nat
  BY <1>1, <1>2, DivMod
<1>4. {0, 1} \subseteq Intervals
  BY <1>3 DEF Intervals
<1> QED
  BY <1>1, <1>2, <1>4

-----------------------------------------------------------------------------
(* Rings of buffers *)

WithSlot(ring, i, x) == [ring EXCEPT ![i] = x]

LEMMA RingFacts ==
    ASSUME NEW ring, NEW n, RingOf(ring, n)
    PROVE  /\ n \in Nat \ {0} /\ DOMAIN ring = 0 .. n - 1 /\ Size(ring) = n
           /\ In(ring) \subseteq Buffers
           /\ \A x \in In(ring) : x.lap % n \in 0 .. n - 1 /\ ring[x.lap % n] = x
           /\ \A x, y \in In(ring) : x.lap = y.lap => x = y
           /\ \A i \in 0 .. n - 1 : ring[i] # NoBuffer => ring[i] \in In(ring)
<1>1. n \in Nat \ {0} /\ DOMAIN ring = 0 .. n - 1
  BY DEF RingOf
<1>2. Cardinality(0 .. n - 1) = n
  BY <1>1, FS_Interval
<1>3. Size(ring) = n
  BY <1>1, <1>2 DEF Size
<1>4. ASSUME NEW x \in In(ring)
      PROVE  x \in Buffers /\ x.lap % n \in 0 .. n - 1 /\ ring[x.lap % n] = x
  <2>1. PICK i \in 0 .. n - 1 : x = ring[i] /\ ring[i] # NoBuffer
    BY <1>1 DEF In
  <2>2. x \in Buffers /\ x.lap % n = i
    BY <2>1 DEF RingOf
  <2> QED BY <2>1, <2>2
<1>5. \A i \in 0 .. n - 1 : ring[i] # NoBuffer => ring[i] \in In(ring)
  BY <1>1 DEF In
<1>6. \A x, y \in In(ring) : x.lap = y.lap => x = y
  BY <1>4
<1> QED
  BY <1>1, <1>3, <1>4, <1>5, <1>6

\* A buffer is put in the slot of its lap.
LEMMA PutInRing ==
    ASSUME NEW ring, NEW n, RingOf(ring, n), NEW x \in Buffers,
           NEW i \in 0 .. n - 1, x.lap % n = i
    PROVE  /\ RingOf(WithSlot(ring, i, x), n)
           /\ In(WithSlot(ring, i, x)) = (In(ring) \ {ring[i]}) \union {x}
<1> DEFINE r == [ring EXCEPT ![i] = x]
<1>1. n \in Nat \ {0} /\ DOMAIN ring = 0 .. n - 1
  BY RingFacts
<1>2. x.lap \in Nat /\ i \in 0 .. n - 1
  BY <1>1, Constants DEF Buffers
<1>3. /\ r \in [0 .. n - 1 -> Buffers \union {NoBuffer}]
      /\ \A j \in 0 .. n - 1 : r[j] = IF j = i THEN x ELSE ring[j]
  BY <1>1, <1>2 DEF RingOf
<1> HIDE DEF r
<1>4. RingOf(r, n)
  BY <1>3 DEF RingOf
<1>5. x # NoBuffer
  BY BufferAssumption
<1>6. ASSUME NEW y \in In(r) PROVE y \in (In(ring) \ {ring[i]}) \union {x}
  <2>1. PICK j \in 0 .. n - 1 : y = r[j] /\ r[j] # NoBuffer
    BY <1>3 DEF In
  <2>2. CASE j = i
    BY <1>3, <2>1, <2>2
  <2>3. CASE j # i
    <3>1. y = ring[j] /\ ring[j] # NoBuffer
      BY <1>3, <2>1, <2>3
    <3>2. y \in In(ring)
      BY <3>1, RingFacts
    <3>3. ring[j] # ring[i]
      BY <1>2, <2>3, <3>1 DEF RingOf
    <3> QED BY <3>1, <3>2, <3>3
  <2> QED BY <2>2, <2>3
<1>7. ASSUME NEW y \in (In(ring) \ {ring[i]}) \union {x} PROVE y \in In(r)
  <2>1. CASE y = x
    <3>1. r[i] = x /\ i \in DOMAIN r
      BY <1>2, <1>3
    <3> QED BY <1>5, <2>1, <3>1 DEF In
  <2>2. CASE y \in In(ring) /\ y # ring[i]
    <3>1. PICK j \in 0 .. n - 1 : y = ring[j] /\ ring[j] # NoBuffer
      BY <1>1, <2>2 DEF In
    <3>2. j # i
      BY <2>2, <3>1
    <3>3. r[j] = y /\ j \in DOMAIN r /\ y # NoBuffer
      BY <1>3, <3>1, <3>2
    <3> QED BY <3>3 DEF In
  <2> QED BY <2>1, <2>2
<1> QED
  BY <1>2, <1>4, <1>6, <1>7 DEF r, WithSlot

\* A buffer is taken out.
LEMMA DropFromRing ==
    ASSUME NEW ring, NEW n, RingOf(ring, n), NEW i \in 0 .. n - 1
    PROVE  /\ RingOf(WithSlot(ring, i, NoBuffer), n)
           /\ In(WithSlot(ring, i, NoBuffer)) = In(ring) \ {ring[i]}
<1> DEFINE r == [ring EXCEPT ![i] = NoBuffer]
<1>1. DOMAIN ring = 0 .. n - 1
  BY RingFacts
<1>2. /\ r \in [0 .. n - 1 -> Buffers \union {NoBuffer}]
      /\ \A j \in 0 .. n - 1 : r[j] = IF j = i THEN NoBuffer ELSE ring[j]
  BY <1>1 DEF RingOf
<1> HIDE DEF r
<1>3. RingOf(r, n)
  BY <1>2 DEF RingOf
<1>4. \A j \in 0 .. n - 1 : j # i /\ ring[j] # NoBuffer => ring[j] # ring[i]
  BY DEF RingOf
<1>5. ASSUME NEW y PROVE y \in In(r) <=> y \in In(ring) \ {ring[i]}
  <2>1. ASSUME y \in In(r) PROVE y \in In(ring) \ {ring[i]}
    <3>1. PICK j \in 0 .. n - 1 : y = r[j] /\ r[j] # NoBuffer
      BY <1>2, <2>1 DEF In
    <3>2. j # i /\ y = ring[j] /\ ring[j] # NoBuffer
      BY <1>2, <3>1
    <3> QED BY <1>4, <3>2, RingFacts
  <2>2. ASSUME y \in In(ring) \ {ring[i]} PROVE y \in In(r)
    <3>1. PICK j \in 0 .. n - 1 : y = ring[j] /\ ring[j] # NoBuffer
      BY <1>1, <2>2 DEF In
    <3>2. j # i
      BY <2>2, <3>1
    <3>3. r[j] = y /\ j \in DOMAIN r /\ y # NoBuffer
      BY <1>2, <3>1, <3>2
    <3> QED BY <3>3 DEF In
  <2> QED BY <2>1, <2>2
<1> QED
  BY <1>3, <1>5 DEF r, WithSlot

\* A ring that is doubled keeps its buffers: no two of them want the same slot.
LEMMA ReallocatedRing ==
    ASSUME NEW ring, NEW n, RingOf(ring, n)
    PROVE  RingOf(Reallocated(ring), 2 * n) /\ In(Reallocated(ring)) = In(ring)
<1> DEFINE m == 2 * n
           To(i) == {j \in DOMAIN ring : ring[j] # NoBuffer /\ ring[j].lap % m = i}
           r == [i \in 0 .. m - 1 |-> IF To(i) = {} THEN NoBuffer ELSE ring[Max(To(i))]]
<1>1. n \in Nat \ {0} /\ DOMAIN ring = 0 .. n - 1 /\ Size(ring) = n
  BY RingFacts
<1>2. Reallocated(ring) = r
  BY <1>1 DEF Reallocated
<1>3. m \in Nat /\ m >= 2
  BY <1>1
<1>4. ASSUME NEW j \in 0 .. n - 1, ring[j] # NoBuffer
      PROVE  /\ ring[j] \in Buffers /\ ring[j].lap \in Nat
             /\ ring[j].lap % m \in 0 .. m - 1 /\ (ring[j].lap % m) % n = j
  <2>1. ring[j] \in Buffers /\ ring[j].lap % n = j
    BY <1>4 DEF RingOf
  <2>2. ring[j].lap \in Nat
    BY <2>1, Constants DEF Buffers
  <2>3. (ring[j].lap % m) % n = j
    BY <1>1, <2>1, <2>2, RestOfTwice
  <2>4. ring[j].lap % m \in 0 .. m - 1
    BY <1>3, <2>2
  <2> QED BY <2>1, <2>2, <2>3, <2>4
<1>5. ASSUME NEW i \in 0 .. m - 1, NEW j \in To(i)
      PROVE  r[i] = ring[j]
  <2>1. To(i) = {j}
    BY <1>1, <1>4
  <2>2. Max(To(i)) = j
    <3> HIDE DEF To
    <3>1. IsFiniteSet(To(i)) /\ To(i) # {} /\ To(i) \subseteq Int
      <4>1. j \in Int
        BY <1>1 DEF To
      <4> QED BY <2>1, <4>1, FS_Singleton
    <3> QED BY <2>1, <3>1, MaxIn
  <2> QED BY <2>1, <2>2
<1>6. ASSUME NEW i \in 0 .. m - 1
      PROVE  /\ r[i] \in Buffers \union {NoBuffer}
             /\ r[i] # NoBuffer => r[i].lap % m = i /\ r[i] \in In(ring)
  <2>1. CASE To(i) = {}
    BY <2>1
  <2>2. CASE To(i) # {}
    <3>1. PICK j \in To(i) : r[i] = ring[j]
      BY <1>5, <2>2
    <3>2. j \in 0 .. n - 1 /\ ring[j] # NoBuffer /\ ring[j].lap % m = i
      BY <1>1
    <3> QED BY <1>4, <3>1, <3>2, RingFacts
  <2> QED BY <2>1, <2>2
<1>7. DOMAIN r = 0 .. m - 1
  OBVIOUS
<1>8. r \in [0 .. m - 1 -> Buffers \union {NoBuffer}]
  BY <1>6
<1>9. ASSUME NEW y \in In(ring) PROVE y \in In(r)
  <2>1. PICK j \in 0 .. n - 1 : y = ring[j] /\ ring[j] # NoBuffer
    BY <1>1, <1>9 DEF In
  <2>2. y.lap % m \in 0 .. m - 1 /\ j \in To(y.lap % m)
    BY <1>1, <1>4, <2>1
  <2>3. r[y.lap % m] = y
    BY <1>5, <2>1, <2>2
  <2> QED BY <1>7, <2>1, <2>2, <2>3 DEF In
<1> HIDE DEF r
<1>10. RingOf(r, m)
  BY <1>3, <1>6, <1>8 DEF RingOf
<1>11. In(r) \subseteq In(ring)
  BY <1>6, <1>7 DEF In
<1> QED
  BY <1>2, <1>9, <1>10, <1>11

-----------------------------------------------------------------------------
(* The ring that add_score looks for the slot of its lap in *)

LEMMA LiveFacts ==
    ASSUME IInv
    PROVE  /\ Size(scores) \in Nat /\ Size(scores) >= 2
           /\ RingOf(scores, Size(scores)) /\ Live = In(scores)
           /\ \A x \in Live : /\ x \in Buffers /\ x.lap \in Nat /\ x.lap \in 0 .. Laps - 1
                              /\ x.size \in Nat /\ x.data \subseteq Bikers /\ x.data # {}
           /\ \A b \in Bikers : lap[b] \in Int /\ lap[b] \in -1 .. Laps
<1>1. RingOf(scores, Size(scores)) /\ Live = In(scores)
  BY DEF IInv, RingOK, Live, In
<1>2. \A x \in Live : x \in Buffers
  BY <1>1, RingFacts
<1> QED
  BY <1>1, <1>2, Constants DEF IInv, TypeOK, LiveOK, Buffers, RingOf

\* Who stays is not in a report of a lap it has still to complete, so there is
\* none.
LEMMA NotReported ==
    ASSUME IInv, NEW b \in Bikers, pc[b] = "ride", lap[b] # -1
    PROVE  lap[b] \in 0 .. Laps - 1 /\ b \in Staying /\ reports[lap[b]] = NoReport
<1>1. lap[b] \in 0 .. Laps - 1
  BY LiveFacts, Constants DEF IInv, StageOK
<1>2. b \in Staying
  BY DEF IInv, StageOK, Staying
<1>3. reports[lap[b]] = NoReport
  <2> SUFFICES ASSUME reports[lap[b]] # NoReport PROVE FALSE
    OBVIOUS
  <2>1. b \in reports[lap[b]].ranked
    BY <1>1, <1>2 DEF IInv, ReportOK
  <2>2. lap[b] > lap[b]
    BY <1>1, <2>1 DEF IInv, ReportOK
  <2> QED BY <1>1, <2>2
<1> QED
  BY <1>1, <1>2, <1>3

\* A lap that somebody has completed and that is not reported has its buffer.
LEMMA Recorded ==
    ASSUME IInv, NEW c \in Bikers, NEW l \in 0 .. lap[c] - 1, reports[l] = NoReport
    PROVE  \E x \in Live : x.lap = l /\ c \in x.data
BY DEF IInv, RecordOK, NoReport

LEMMA NewBufferType ==
    ASSUME IInv, NEW l \in 0 .. Laps - 1
    PROVE  /\ NewBuffer(l) \in Buffers /\ NewBuffer(l).lap = l /\ NewBuffer(l).data = {}
           /\ NewBuffer(l).size = tot_num_bikers[IF l + 1 < Span THEN 0 ELSE 1]
           /\ NewBuffer(l).size >= Cardinality(IF l + 1 < Span THEN Bikers ELSE Staying)
<1>1. Interval(l) = IF l + 1 < Span THEN 0 ELSE 1
  BY IntervalIs
<1>2. Interval(l) \in Intervals
  BY <1>1, Constants
<1>3. IsFiniteSet(Staying) /\ Cardinality(Staying) \in Nat
  <2>1. Staying \subseteq Bikers
    BY DEF Staying
  <2> QED BY <2>1, Constants, FS_Subset, FS_CardinalityType
<1>4. tot_num_bikers[0] \in Nat /\ tot_num_bikers[1] \in Nat
  BY <1>3, Constants DEF IInv, TypeOK, CountOK
<1>5. tot_num_bikers[Interval(l)] \in Nat
  BY <1>1, <1>4
<1>6. NewBuffer(l) \in Buffers
  BY <1>5 DEF NewBuffer, Buffers
<1>7. tot_num_bikers[Interval(l)] >= Cardinality(IF l + 1 < Span THEN Bikers ELSE Staying)
  BY <1>1, <1>4, Constants DEF IInv, CountOK
<1> QED
  BY <1>1, <1>6, <1>7 DEF NewBuffer

\* Every live buffer is of an earlier lap, when there is none of lap l.
LEMMA LiveEarlier ==
    ASSUME IInv, NEW b \in Bikers, pc[b] = "ride", lap[b] # -1,
           \A x \in Live : x.lap # lap[b]
    PROVE  \A x \in Live : x.lap < lap[b] /\ lap[b] - x.lap <= Size(scores)
<1> SUFFICES ASSUME NEW x \in Live
             PROVE  x.lap < lap[b] /\ lap[b] - x.lap <= Size(scores)
  OBVIOUS
<1>1. lap[b] \in 0 .. Laps - 1 /\ reports[lap[b]] = NoReport
  BY NotReported
<1>2. PICK c \in Bikers : c \in x.data
  BY LiveFacts
<1>3. lap[c] > x.lap
  BY <1>2 DEF IInv, LiveOK
<1>4. ~(x.lap > lap[b])
  <2> SUFFICES ASSUME x.lap > lap[b] PROVE FALSE
    OBVIOUS
  <2>1. lap[b] \in 0 .. lap[c] - 1
    BY <1>1, <1>3, LiveFacts
  <2> QED BY <1>1, <2>1, Recorded
<1>5. x.lap < lap[b]
  BY <1>1, <1>4, LiveFacts
<1>6. lap[b] - 1 - x.lap < Size(scores)
  BY DEF IInv, LiveOK
<1> QED
  BY <1>1, <1>5, <1>6, LiveFacts

\* The ring has a slot for the lap, and the live buffers are those from before:
\* if another lap was in the slot, doubling the ring once is enough.
LEMMA RingForLap ==
    ASSUME IInv, NEW b \in Bikers, pc[b] = "ride", lap[b] # -1
    PROVE  \E m \in Nat :
              /\ RingOf(RingFor(lap[b]), m) /\ m >= Size(scores)
              /\ RingFor(lap[b])[lap[b] % m] \in Buffers
              /\ RingFor(lap[b])[lap[b] % m].lap = lap[b]
              /\ In(RingFor(lap[b])) = Live \union {RingFor(lap[b])[lap[b] % m]}
              /\ \/ RingFor(lap[b])[lap[b] % m] \in Live
                 \/ /\ RingFor(lap[b])[lap[b] % m] = NewBuffer(lap[b])
                    /\ \A x \in Live : x.lap # lap[b]
              /\ \A x \in Live : lap[b] - x.lap < m
<1> DEFINE l == lap[b]
           n == Size(scores)
           old == scores[Slot(scores, l)]
           N == NewBuffer(l)
<1>1. l \in 0 .. Laps - 1 /\ reports[l] = NoReport /\ l \in Nat
  BY NotReported
<1>2. RingOf(scores, n) /\ n \in Nat \ {0} /\ Live = In(scores) /\ l % n \in 0 .. n - 1
  BY <1>1, LiveFacts, RingFacts
<1>3. Slot(scores, l) = l % n
  BY DEF Slot
<1>4. N \in Buffers /\ N.lap = l /\ N # NoBuffer
  BY <1>1, NewBufferType, BufferAssumption
<1> HIDE DEF N
<1>5. CASE \E y \in Live : y.lap = l
  <2>1. PICK y \in Live : y.lap = l
    BY <1>5
  <2>2. scores[l % n] = y /\ y \in Buffers
    BY <1>2, <2>1, RingFacts
  <2>3. y # NoBuffer
    BY <2>2, BufferAssumption
  <2>4. RingFor(l) = scores
    BY <1>3, <2>1, <2>2, <2>3 DEF RingFor
  <2>5. PICK c \in Bikers : c \in y.data
    BY LiveFacts
  <2>6. lap[c] > l
    BY <2>1, <2>5 DEF IInv, LiveOK
  <2>7. ASSUME NEW x \in Live PROVE l - x.lap < n
    <3>1. lap[c] - 1 - x.lap < n
      BY DEF IInv, LiveOK
    <3> QED BY <1>1, <1>2, <2>6, <3>1, LiveFacts
  <2>8. In(scores) = Live \union {y}
    BY <1>2
  <2> QED BY <1>2, <2>1, <2>2, <2>4, <2>7, <2>8
<1>6. CASE (\A x \in Live : x.lap # l) /\ old = NoBuffer
  <2>1. RingFor(l) = [scores EXCEPT ![l % n] = N]
    BY <1>3, <1>6 DEF RingFor, N
  <2>2. /\ RingOf(RingFor(l), n)
        /\ In(RingFor(l)) = (Live \ {NoBuffer}) \union {N}
    <3>1. N \in Buffers /\ N.lap % n = l % n /\ l % n \in 0 .. n - 1
      BY <1>2, <1>4
    <3>2. /\ RingOf(WithSlot(scores, l % n, N), n)
          /\ In(WithSlot(scores, l % n, N)) = (In(scores) \ {scores[l % n]}) \union {N}
      <4> HIDE DEF n, l
      <4> QED BY <1>2, <3>1, PutInRing
    <3> QED BY <1>2, <1>3, <1>6, <2>1, <3>2 DEF WithSlot
  <2>3. RingFor(l)[l % n] = N
    <3>1. l % n \in DOMAIN scores
      BY <1>2, RingFacts
    <3> QED BY <2>1, <3>1
  <2>4. ASSUME NEW x \in Live PROVE l - x.lap < n
    <3>1. x.lap < l /\ l - x.lap <= n /\ x.lap \in Nat
      BY <1>6, LiveEarlier, LiveFacts
    <3>2. x.lap % n # l % n
      <4>1. scores[x.lap % n] = x /\ x \in Buffers
        BY <1>2, RingFacts
      <4> QED BY <1>3, <1>6, <4>1, BufferAssumption
    <3>3. l - x.lap # n
      <4> SUFFICES ASSUME l = x.lap + n PROVE FALSE
        BY <1>1, <1>2, <3>1
      <4> DEFINE q == x.lap \div n
                 r == x.lap % n
      <4>1. q \in Nat /\ r \in 0 .. n - 1 /\ x.lap = n * q + r
        BY <1>2, <3>1, DivMod
      <4> HIDE DEF q, r
      <4>2. q + 1 \in Int /\ l = n * (q + 1) + r
        BY <1>2, <4>1
      <4>3. l % n = r
        BY <1>1, <1>2, <4>1, <4>2, RestIs
      <4> QED BY <3>2, <4>3 DEF r
    <3> QED BY <1>1, <1>2, <3>1, <3>3
  <2>5. In(RingFor(l)) = Live \union {N}
    BY <2>2 DEF Live
  <2> QED BY <1>2, <1>4, <1>6, <2>2, <2>3, <2>4, <2>5 DEF N
<1>7. CASE (\A x \in Live : x.lap # l) /\ old # NoBuffer
  <2> DEFINE m == 2 * n
             G == Reallocated(scores)
  <2>1. old.lap # l
    BY <1>2, <1>3, <1>7, RingFacts
  <2>2. RingOf(G, m) /\ In(G) = Live
    BY <1>2, ReallocatedRing
  <2>3. m \in Nat \ {0} /\ DOMAIN G = 0 .. m - 1 /\ Size(G) = m /\ l % m \in 0 .. m - 1
    BY <1>1, <2>2, RingFacts
  <2> HIDE DEF G
  <2>4. ASSUME NEW x \in Live PROVE l - x.lap < m /\ x.lap % m # l % m
    <3>1. x.lap < l /\ l - x.lap <= n /\ x.lap \in Nat
      BY <1>7, LiveEarlier, LiveFacts
    <3>2. l - x.lap < m
      BY <1>1, <1>2, <3>1
    <3>3. x.lap % m # l % m
      <4> SUFFICES ASSUME l % m = x.lap % m PROVE FALSE
        OBVIOUS
      <4>1. x.lap <= l /\ l \in Nat
        BY <1>1, <3>1
      <4> HIDE DEF l, m
      <4>2. l = x.lap
        BY <2>3, <3>1, <3>2, <4>1, RestsDiffer
      <4> QED BY <3>1, <4>2
    <3> QED BY <3>2, <3>3
  <2>5. G[l % m] = NoBuffer
    <3> SUFFICES ASSUME G[l % m] # NoBuffer PROVE FALSE
      OBVIOUS
    <3>1. G[l % m] \in Live /\ G[l % m].lap % m = l % m
      BY <2>2, <2>3, RingFacts DEF RingOf
    <3> QED BY <2>4, <3>1
  <2>6. Slot(G, l) = l % m
    BY <2>3 DEF Slot
  <2>7. RingFor(l) = [G EXCEPT ![l % m] = N]
    <3>1. RingFor(l) = IF G[Slot(G, l)] # NoBuffer THEN G ELSE [G EXCEPT ![Slot(G, l)] = N]
      BY <1>7, <2>1 DEF RingFor, G, N
    <3> QED BY <2>5, <2>6, <3>1
  <2>8. /\ RingOf(RingFor(l), m)
        /\ In(RingFor(l)) = (Live \ {NoBuffer}) \union {N}
    <3>1. N \in Buffers /\ N.lap % m = l % m /\ l % m \in 0 .. m - 1
      BY <1>4, <2>3
    <3>2. /\ RingOf(WithSlot(G, l % m, N), m)
          /\ In(WithSlot(G, l % m, N)) = (In(G) \ {G[l % m]}) \union {N}
      <4> HIDE DEF m, l
      <4> QED BY <2>2, <3>1, PutInRing
    <3> QED BY <2>2, <2>5, <2>7, <3>2 DEF WithSlot
  <2>9. RingFor(l)[l % m] = N
    BY <2>3, <2>7
  <2>10. In(RingFor(l)) = Live \union {N}
    BY <2>8 DEF Live
  <2>11. m >= n
    BY <1>2
  <2> QED BY <1>4, <1>7, <2>3, <2>4, <2>8, <2>9, <2>10, <2>11 DEF N
<1> QED
  BY <1>5, <1>6, <1>7

-----------------------------------------------------------------------------
(* add_score *)

\* The ring, the report and the draw, in terms of the buffer B the biker is in.
LEMMA AddScoreEffect ==
    ASSUME IInv, NEW b \in Bikers, pc[b] = "ride", lap[b] # -1, AddScore(b)
    PROVE  \E m \in Nat, B \in Buffers :
              /\ RingOf(scores', m) /\ m >= Size(scores)
              /\ \A x \in Live : lap[b] - x.lap < m
              /\ B.lap = lap[b] /\ b \in B.data
              /\ \A c \in Bikers \ {b} : c \in B.data <=> lap[c] > lap[b]
              /\ B.size >= Cardinality(IF B.lap + 1 < Span THEN Bikers ELSE Staying)
              /\ Live' = {x \in Live : x.lap # lap[b]} \union (IF Complete(B) THEN {} ELSE {B})
              /\ reports' = IF Complete(B) THEN [reports EXCEPT ![lap[b]] = PrintBuffer(B)]
                            ELSE reports
              /\ fast' \in Draw(b, B)
<1> DEFINE l == lap[b]
           R == RingFor(l)
<1>1. l \in 0 .. Laps - 1 /\ reports[l] = NoReport /\ l \in Nat
  BY NotReported
<1>2. PICK m \in Nat :
        /\ RingOf(R, m) /\ m >= Size(scores)
        /\ R[l % m] \in Buffers /\ R[l % m].lap = l
        /\ In(R) = Live \union {R[l % m]}
        /\ \/ R[l % m] \in Live
           \/ R[l % m] = NewBuffer(l) /\ \A x \in Live : x.lap # l
        /\ \A x \in Live : l - x.lap < m
  BY RingForLap
<1> DEFINE pos == l % m
           buf == R[pos]
           B == [buf EXCEPT !.data = @ \union {b}]
<1>3. m \in Nat \ {0} /\ DOMAIN R = 0 .. m - 1 /\ Size(R) = m /\ pos \in 0 .. m - 1
  <2>1. m \in Nat \ {0} /\ DOMAIN R = 0 .. m - 1 /\ Size(R) = m
    BY <1>2, RingFacts
  <2> QED BY <1>1, <2>1
<1>4. Slot(R, l) = pos
  BY <1>3 DEF Slot
<1>5. /\ scores' = [R EXCEPT ![pos] = IF Complete(B) THEN NoBuffer ELSE B]
      /\ reports' = IF Complete(B) THEN [reports EXCEPT ![B.lap] = PrintBuffer(B)] ELSE reports
      /\ fast' \in Draw(b, B)
  BY <1>4 DEF AddScore
<1>6. B \in Buffers /\ B.lap = l /\ B.data = buf.data \union {b} /\ B.size = buf.size
  BY <1>2 DEF Buffers
<1>7. B.size >= Cardinality(IF l + 1 < Span THEN Bikers ELSE Staying)
  <2>1. CASE buf \in Live
    BY <1>2, <1>6, <2>1 DEF IInv, LiveOK
  <2>2. CASE buf = NewBuffer(l)
    BY <1>1, <1>6, <2>2, NewBufferType
  <2> QED BY <1>2, <2>1, <2>2
<1>8. ASSUME NEW c \in Bikers PROVE c \in buf.data <=> lap[c] > l
  <2>1. ASSUME lap[c] > l PROVE c \in buf.data
    <3>1. l \in 0 .. lap[c] - 1
      BY <1>1, <2>1, LiveFacts
    <3>2. PICK x \in Live : x.lap = l /\ c \in x.data
      BY <1>1, <3>1, Recorded
    <3>3. x \in In(R) /\ buf \in In(R) /\ x.lap = buf.lap
      BY <1>2, <3>2
    <3>4. x = buf
      <4> HIDE DEF R, buf
      <4> QED BY <1>2, <3>3, RingFacts
    <3> QED BY <3>2, <3>4
  <2>2. ASSUME c \in buf.data PROVE lap[c] > l
    <3>1. buf.data # {}
      BY <2>2
    <3>2. CASE buf \in Live
      BY <1>2, <2>2, <3>2 DEF IInv, LiveOK
    <3>3. CASE buf = NewBuffer(l)
      BY <1>1, <2>2, <3>3, NewBufferType
    <3> QED BY <1>2, <3>2, <3>3
  <2> QED BY <2>1, <2>2
<1> HIDE DEF B
<1>9. In(R) \ {buf} = {x \in Live : x.lap # l}
  <2>1. ASSUME NEW x \in In(R), x # buf PROVE x \in Live /\ x.lap # l
    <3>1. buf \in In(R) /\ buf.lap = l
      BY <1>2
    <3>2. x.lap # buf.lap
      <4> HIDE DEF R, buf
      <4> QED BY <1>2, <2>1, <3>1, RingFacts
    <3> QED BY <1>2, <2>1, <3>1, <3>2
  <2> QED BY <1>2, <2>1
<1>10. /\ RingOf(scores', m)
       /\ In(scores') = (In(R) \ {buf}) \union (IF Complete(B) THEN {} ELSE {B})
  <2>1. CASE Complete(B)
    <3>1. scores' = [R EXCEPT ![pos] = NoBuffer]
      BY <1>5, <2>1
    <3>2. RingOf(R, m) /\ pos \in 0 .. m - 1
      BY <1>2, <1>3
    <3> HIDE DEF R, pos
    <3>3. RingOf(WithSlot(R, pos, NoBuffer), m)
          /\ In(WithSlot(R, pos, NoBuffer)) = In(R) \ {R[pos]}
      BY <3>2, DropFromRing
    <3> QED BY <2>1, <3>1, <3>3 DEF WithSlot
  <2>2. CASE ~Complete(B)
    <3>1. scores' = [R EXCEPT ![pos] = B]
      BY <1>5, <2>2
    <3>2. RingOf(R, m) /\ B \in Buffers /\ pos \in 0 .. m - 1 /\ B.lap % m = pos
      BY <1>2, <1>3, <1>6
    <3> HIDE DEF R, pos
    <3>3. RingOf(WithSlot(R, pos, B), m)
          /\ In(WithSlot(R, pos, B)) = (In(R) \ {R[pos]}) \union {B}
      BY <3>2, PutInRing
    <3> QED BY <2>2, <3>1, <3>3 DEF WithSlot
  <2> QED BY <2>1, <2>2
<1>11. Live' = In(scores')
  BY DEF Live, In
<1>12. /\ B.lap = l /\ b \in B.data
       /\ \A c \in Bikers \ {b} : c \in B.data <=> lap[c] > l
  BY <1>6, <1>8
<1>13. B.size >= Cardinality(IF B.lap + 1 < Span THEN Bikers ELSE Staying)
  BY <1>6, <1>7
<1>14. Live' = {x \in Live : x.lap # l} \union (IF Complete(B) THEN {} ELSE {B})
  BY <1>9, <1>10, <1>11
<1>15. reports' = IF Complete(B) THEN [reports EXCEPT ![l] = PrintBuffer(B)] ELSE reports
  BY <1>5, <1>6
<1> HIDE DEF R, buf
<1> QED
  BY <1>2, <1>5, <1>6, <1>10, <1>12, <1>13, <1>14, <1>15

\* When a buffer is complete, everyone that stays is in it.
LEMMA CompleteHasAll ==
    ASSUME IInv, NEW b \in Bikers, pc[b] = "ride", lap[b] # -1,
           NEW B \in Buffers, B.lap = lap[b], b \in B.data,
           \A c \in Bikers \ {b} : c \in B.data <=> lap[c] > lap[b]
    PROVE  /\ Complete(B) => Staying \subseteq B.data
           /\ ~(B.lap + 1 < Span) => B.data \subseteq Staying
           /\ Complete(B) /\ B.lap + 1 < Span => B.data = Bikers
           /\ Cardinality(B.data) <= Cardinality(IF B.lap + 1 < Span THEN Bikers ELSE Staying)
<1>1. B.lap \in 0 .. Laps - 1 /\ b \in Staying
  BY NotReported
<1>2. B.data \subseteq Bikers /\ Staying \subseteq Bikers
  BY DEF Buffers, Staying
<1>3. /\ IsFiniteSet(Bikers) /\ IsFiniteSet(B.data) /\ IsFiniteSet(Staying)
      /\ Cardinality(Bikers) \in Nat /\ Cardinality(B.data) \in Nat /\ Cardinality(Staying) \in Nat
  BY <1>2, Constants, FS_Subset, FS_CardinalityType
<1>4. ASSUME ~(B.lap + 1 < Span) PROVE B.data \subseteq Staying
  <2> SUFFICES ASSUME NEW c \in B.data, c # b PROVE c \in Staying
    BY <1>1
  <2>1. c \in Bikers /\ lap[c] > lap[b]
    BY <1>2
  <2>2. lap[c] # Span - 1
    BY <1>1, <1>4, <2>1, Constants, LiveFacts
  <2>3. c \notin broken /\ pc[c] # "broken"
    BY <2>1, <2>2 DEF IInv, StageOK
  <2> QED BY <2>1, <2>3 DEF Staying
<1>5. Interval(B.lap) = IF B.lap + 1 < Span THEN 0 ELSE 1
  BY <1>1, IntervalIs
<1>6. CASE B.lap + 1 < Span
  <2>1. Cardinality(B.data) <= Cardinality(Bikers)
    BY <1>2, <1>3, FS_Subset
  <2>2. ASSUME Complete(B) PROVE B.data = Bikers
    <3>1. Cardinality(B.data) = Cardinality(Bikers)
      BY <1>5, <1>6, <2>2 DEF Complete, IInv, CountOK
    <3> QED BY <1>2, <1>3, <3>1, FS_Subset
  <2> QED BY <1>2, <1>6, <2>1, <2>2
<1>7. CASE ~(B.lap + 1 < Span)
  <2>1. B.data \subseteq Staying
    BY <1>4, <1>7
  <2>2. Cardinality(B.data) <= Cardinality(Staying)
    BY <1>3, <2>1, FS_Subset
  <2>3. ASSUME Complete(B) PROVE B.data = Staying
    <3>1. Cardinality(B.data) >= Cardinality(Staying)
      BY <1>5, <1>7, <2>3 DEF Complete, IInv, CountOK
    <3>2. Cardinality(Staying) = Cardinality(B.data)
      BY <1>3, <2>2, <3>1
    <3> QED BY <1>3, <2>1, <3>2, FS_Subset
  <2> QED BY <1>7, <2>1, <2>2, <2>3
<1> QED
  BY <1>6, <1>7

-----------------------------------------------------------------------------
(* The 20 points *)

LEMMA PointsAre ==
    ASSUME NEW l, NEW i \in Nat
    PROVE  Points(l, i) \in 0 .. 5
<1>1. CASE (l + 1) % Sprint # 0 \/ i > 3
  BY <1>1 DEF Points
<1>2. CASE ~((l + 1) % Sprint # 0 \/ i > 3)
  <2>1. i \in {0, 1, 2, 3} /\ Points(l, i) = <<5, 3, 2, 1>>[i + 1]
    BY <1>2 DEF Points
  <2>2. <<5, 3, 2, 1>>[1] = 5 /\ <<5, 3, 2, 1>>[2] = 3
        /\ <<5, 3, 2, 1>>[3] = 2 /\ <<5, 3, 2, 1>>[4] = 1
    OBVIOUS
  <2> QED BY <2>1, <2>2
<1> QED
  BY <1>1, <1>2

\* Lonely, as the bikers see it.
Alone(b) ==
    /\ lap[b] >= 1
    /\ \A c \in Bikers \ {b} : lap[c] < lap[b]
    /\ reports[lap[b] - 1] = NoReport

LEMMA LonelyIsAlone ==
    ASSUME IInv, NEW b \in Bikers, pc[b] = "ride", lap[b] # -1
    PROVE  Lonely(RingFor(lap[b]), lap[b]) <=> Alone(b)
<1> DEFINE l == lap[b]
           R == RingFor(l)
<1>1. l \in 0 .. Laps - 1 /\ l \in Nat
  BY NotReported
<1>2. PICK m \in Nat :
        /\ RingOf(R, m)
        /\ R[l % m] \in Buffers /\ R[l % m].lap = l
        /\ In(R) = Live \union {R[l % m]}
  BY RingForLap
<1> HIDE DEF R
<1>3. m \in Nat \ {0} /\ Size(R) = m /\ DOMAIN R = 0 .. m - 1
  BY <1>2, RingFacts
<1> DEFINE i == (l - 1 + m) % m
           prev == R[i]
<1>4. i \in 0 .. m - 1
  BY <1>1, <1>3
<1>5. Lonely(R, l) <=> prev # NoBuffer /\ prev.lap + 1 = l /\ Cardinality(prev.data) = 1
  BY <1>3 DEF Lonely
<1>6. ASSUME prev # NoBuffer, prev.lap + 1 = l
      PROVE  l >= 1 /\ prev \in Live /\ prev.lap = l - 1
  <2>1. prev \in In(R) /\ prev \in Buffers
    <3>1. prev \in In(R)
      BY <1>2, <1>4, <1>6, RingFacts
    <3> QED BY <1>2, <3>1, RingFacts
  <2>2. prev.lap \in Nat
    BY <2>1, Constants DEF Buffers
  <2>3. l >= 1 /\ prev.lap = l - 1 /\ prev.lap # l
    BY <1>1, <1>6, <2>2
  <2> QED BY <1>2, <2>1, <2>3
<1>7. ASSUME NEW x \in Live, l >= 1, x.lap = l - 1 PROVE prev = x
  <2>1. x \in In(R)
    BY <1>2
  <2>2. R[x.lap % m] = x
    BY <1>2, <2>1, RingFacts
  <2>3. i = (l - 1) % m
    <3> HIDE DEF l
    <3> QED BY <1>1, <1>3, <1>7, SlotBefore
  <2> QED BY <1>7, <2>2, <2>3
<1> HIDE DEF i
<1>8. ASSUME Lonely(R, l) PROVE Alone(b)
  <2>1. prev \in Live /\ l >= 1 /\ prev.lap = l - 1 /\ Cardinality(prev.data) = 1
    BY <1>5, <1>6, <1>8
  <2>2. reports[l - 1] = NoReport
    BY <2>1 DEF IInv, LiveOK
  <2>3. ASSUME NEW c \in Bikers, lap[c] >= l PROVE c \in prev.data
    <3>1. l - 1 \in 0 .. lap[c] - 1
      BY <1>1, <2>1, <2>3, LiveFacts
    <3>2. PICK x \in Live : x.lap = l - 1 /\ c \in x.data
      BY <2>2, <3>1, Recorded
    <3>3. prev = x
      BY <1>7, <2>1, <3>2
    <3> QED BY <3>2, <3>3
  <2>4. b \in prev.data
    BY <1>1, <2>3
  <2>5. IsFiniteSet(prev.data)
    <3>1. prev.data \subseteq Bikers
      BY <2>1, LiveFacts
    <3> QED BY <3>1, Constants, FS_Subset
  <2>6. prev.data = {b}
    <3>1. \E y : prev.data = {y}
      BY <2>1, <2>5, FS_Singleton
    <3> QED BY <2>4, <3>1
  <2>7. ASSUME NEW c \in Bikers \ {b} PROVE lap[c] < l
    <3>1. ~(lap[c] >= l)
      BY <2>3, <2>6
    <3> QED BY <1>1, <3>1, LiveFacts
  <2> QED BY <2>1, <2>2, <2>7 DEF Alone
<1>9. ASSUME Alone(b) PROVE Lonely(R, l)
  <2>1. l >= 1 /\ reports[l - 1] = NoReport /\ \A c \in Bikers \ {b} : lap[c] < l
    BY <1>9 DEF Alone
  <2>2. l - 1 \in 0 .. lap[b] - 1
    BY <1>1, <2>1
  <2>3. PICK x \in Live : x.lap = l - 1 /\ b \in x.data
    BY <2>1, <2>2, Recorded
  <2>4. prev = x
    BY <1>7, <2>1, <2>3
  <2>5. \A c \in x.data : c \in Bikers /\ lap[c] > l - 1
    BY <2>3, LiveFacts DEF IInv, LiveOK
  <2>6. x.data = {b}
    <3>1. ASSUME NEW c \in x.data PROVE c = b
      BY <1>1, <2>1, <2>5, LiveFacts
    <3> QED BY <2>3, <3>1
  <2>7. Cardinality(prev.data) = 1
    BY <2>4, <2>6, FS_Singleton
  <2>8. prev # NoBuffer /\ prev.lap + 1 = l
    <3>1. x \in Buffers
      BY LiveFacts
    <3> QED BY <1>1, <2>3, <2>4, <3>1, BufferAssumption
  <2> QED BY <1>5, <2>7, <2>8
<1> QED
  BY <1>8, <1>9 DEF R

LEMMA ScoreEffect ==
    ASSUME IInv, NEW b \in Bikers, pc[b] = "ride", lap[b] # -1, AddScore(b)
    PROVE  \E k \in 0 .. 5 :
              score' = [score EXCEPT ![b] = @ + k + IF Alone(b) THEN 20 ELSE 0]
<1> DEFINE l == lap[b]
           R == RingFor(l)
           pos == Slot(R, l)
           k == Points(l, Cardinality(R[pos].data))
<1>1. l \in 0 .. Laps - 1
  BY NotReported
<1>2. PICK m \in Nat : RingOf(R, m) /\ R[l % m] \in Buffers
  BY RingForLap
<1>3. R[pos] \in Buffers
  <2> HIDE DEF R
  <2>1. Size(R) = m
    BY <1>2, RingFacts
  <2> QED BY <1>2, <2>1 DEF Slot
<1>4. Cardinality(R[pos].data) \in Nat
  <2> HIDE DEF pos, R
  <2>1. R[pos].data \subseteq Bikers
    BY <1>3 DEF Buffers
  <2> QED BY <2>1, Constants, FS_Subset, FS_CardinalityType
<1>5. k \in 0 .. 5
  BY <1>4, PointsAre
<1>6. score' = [score EXCEPT ![b] = @ + k + IF Lonely(R, l) THEN 20 ELSE 0]
  BY DEF AddScore
<1> QED
  BY <1>5, <1>6, LonelyIsAlone

-----------------------------------------------------------------------------
(* The steps *)

\* What a crossing of the line does besides the scoreboard.
LEMMA CrossFrame ==
    ASSUME IInv, NEW b \in Bikers, Cross(b)
    PROVE  /\ pc[b] = "ride" /\ lap[b] \in -1 .. Laps - 1
           /\ lap' = [lap EXCEPT ![b] = @ + 1] /\ lap' \in [Bikers -> -1 .. Laps]
           /\ \A c \in Bikers : lap'[c] = IF c = b THEN lap[b] + 1 ELSE lap[c]
           /\ \E s \in {"barr", "finished", "load"} :
                 /\ pc' = [pc EXCEPT ![b] = s]
                 /\ s = "barr" => lap'[b] < Laps
                 /\ s = "finished" => lap'[b] = Laps
                 /\ s = "load" => lap'[b] = Span - 1
           /\ Staying' = Staying
           /\ StageOK' /\ CountOK'
<1>1. pc[b] = "ride" /\ lap[b] \in -1 .. Laps - 1
  BY LiveFacts, Constants DEF Cross, IInv, StageOK
<1>2. lap' = [lap EXCEPT ![b] = @ + 1]
  BY DEF Cross
<1>3. lap' \in [Bikers -> -1 .. Laps]
      /\ \A c \in Bikers : lap'[c] = IF c = b THEN lap[b] + 1 ELSE lap[c]
  BY <1>1, <1>2, Constants DEF IInv, TypeOK
<1>4. lap'[b] = lap[b] + 1 /\ lap'[b] \in 0 .. Laps
  BY <1>1, <1>3, Constants
<1>5. \E s \in {"barr", "finished", "load"} :
         /\ pc' = [pc EXCEPT ![b] = s]
         /\ s = "barr" => lap'[b] < Laps
         /\ s = "finished" => lap'[b] = Laps
         /\ s = "load" => lap'[b] = Span - 1
  <2>1. CASE Goes(b, IF lap'[b] = Laps THEN "finished" ELSE "barr")
    <3>1. CASE lap'[b] = Laps
      BY <2>1, <3>1, Constants DEF Goes
    <3>2. CASE lap'[b] # Laps
      <4>1. lap'[b] < Laps
        BY <1>4, <3>2, Constants
      <4> QED BY <2>1, <3>2, <4>1 DEF Goes
    <3> QED BY <3>1, <3>2
  <2>2. CASE (lap'[b] + 1) % Span = 0 /\ Goes(b, "load")
    <3>1. lap'[b] = Span - 1
      BY <1>4, <2>2, BreakingLap
    <3> QED BY <2>2, <3>1 DEF Goes
  <2> QED BY <2>1, <2>2 DEF Cross
<1>6. PICK s \in {"barr", "finished", "load"} :
         /\ pc' = [pc EXCEPT ![b] = s]
         /\ s = "barr" => lap'[b] < Laps
         /\ s = "finished" => lap'[b] = Laps
         /\ s = "load" => lap'[b] = Span - 1
  BY <1>5
<1>7. \A c \in Bikers : pc'[c] = IF c = b THEN s ELSE pc[c]
  BY <1>6 DEF IInv, TypeOK
<1>8. broken' = broken /\ tot_num_bikers' = tot_num_bikers /\ loaded' = loaded
  BY DEF Cross
<1>9. Staying' = Staying
  BY <1>1, <1>7, <1>8 DEF Staying
<1>10. b \notin broken
  BY <1>1 DEF IInv, StageOK
<1>11. StageOK'
  BY <1>3, <1>6, <1>7, <1>8, <1>10 DEF IInv, StageOK
<1>12. CountOK'
  BY <1>7, <1>8, <1>9 DEF IInv, CountOK
<1> QED
  BY <1>1, <1>2, <1>3, <1>5, <1>9, <1>11, <1>12

\* The first crossing of the line changes nothing on the scoreboard.
LEMMA FirstCross ==
    ASSUME IInv, NEW b \in Bikers, Cross(b), lap[b] = -1
    PROVE  IInv'
<1>1. scores' = scores /\ reports' = reports /\ fast' = fast /\ score' = score
      /\ loaded' = loaded /\ tot_num_bikers' = tot_num_bikers /\ broken' = broken
  BY DEF Cross
<1>2. /\ lap' \in [Bikers -> -1 .. Laps] /\ Staying' = Staying /\ StageOK' /\ CountOK'
      /\ \A c \in Bikers : lap'[c] = IF c = b THEN 0 ELSE lap[c]
  BY CrossFrame
<1>3. pc' \in [Bikers -> {"ride", "barr", "load", "store", "broken", "finished", "gone"}]
  <2>1. PICK s \in {"barr", "finished", "load"} : pc' = [pc EXCEPT ![b] = s]
    BY CrossFrame
  <2> QED BY <2>1 DEF IInv, TypeOK
<1>4. TypeOK'
  BY <1>1, <1>2, <1>3 DEF IInv, TypeOK, Size
<1>5. RingOK' /\ Live' = Live /\ Size(scores)' = Size(scores)
  BY <1>1 DEF IInv, RingOK, RingOf, Live, Size
<1>6. \A c \in Bikers : lap[c] \in Int /\ lap'[c] \in Int /\ lap'[c] >= lap[c]
  BY <1>2, LiveFacts
<1>7. LiveOK'
  <2> SUFFICES ASSUME NEW x \in Live
               PROVE  /\ x.data # {}
                      /\ \A c \in x.data : lap'[c] > x.lap
                      /\ reports[x.lap] = NoReport
                      /\ x.size >= Cardinality(IF x.lap + 1 < Span THEN Bikers ELSE Staying)
                      /\ \A c \in Bikers : lap'[c] - 1 - x.lap < Size(scores)
    BY <1>1, <1>2, <1>5 DEF LiveOK
  <2>1. /\ x.data # {} /\ x.data \subseteq Bikers
        /\ \A c \in x.data : lap[c] > x.lap
        /\ reports[x.lap] = NoReport
        /\ x.size >= Cardinality(IF x.lap + 1 < Span THEN Bikers ELSE Staying)
        /\ \A c \in Bikers : lap[c] - 1 - x.lap < Size(scores)
    BY LiveFacts DEF IInv, LiveOK
  <2>2. x.lap \in Nat /\ Size(scores) \in Nat
    BY LiveFacts
  <2> QED BY <1>2, <1>6, <2>1, <2>2
<1>8. RecordOK'
  <2> SUFFICES ASSUME NEW c \in Bikers, NEW k \in 0 .. lap'[c] - 1
               PROVE  c \in reports[k].ranked \/ \E x \in Live : x.lap = k /\ c \in x.data
    BY <1>1, <1>5 DEF RecordOK
  <2>1. c # b /\ k \in 0 .. lap[c] - 1
    BY <1>2
  <2> QED BY <2>1 DEF IInv, RecordOK
<1>9. ReportOK'
  <2> SUFFICES ASSUME NEW k \in 0 .. Laps - 1, reports[k] # NoReport
               PROVE  /\ Staying \subseteq reports[k].ranked
                      /\ \A c \in reports[k].ranked : lap'[c] > k
    BY <1>1, <1>2 DEF ReportOK
  <2>1. reports[k].ranked \subseteq Bikers
    BY DEF IInv, TypeOK, Reports
  <2> QED BY <1>6, <2>1 DEF IInv, ReportOK
<1> QED
  BY <1>2, <1>4, <1>5, <1>7, <1>8, <1>9 DEF IInv

\* A lap that is scored.
LEMMA ScoredCross ==
    ASSUME IInv, NEW b \in Bikers, Cross(b), lap[b] # -1
    PROVE  IInv'
<1> DEFINE l == lap[b]
<1>0. AddScore(b) /\ pc[b] = "ride"
  BY DEF Cross
<1>1. l \in 0 .. Laps - 1 /\ b \in Staying /\ reports[l] = NoReport /\ l \in Nat
  BY <1>0, NotReported
<1>2. PICK m \in Nat, B \in Buffers :
        /\ RingOf(scores', m) /\ m >= Size(scores)
        /\ \A x \in Live : l - x.lap < m
        /\ B.lap = l /\ b \in B.data
        /\ \A c \in Bikers \ {b} : c \in B.data <=> lap[c] > l
        /\ B.size >= Cardinality(IF B.lap + 1 < Span THEN Bikers ELSE Staying)
        /\ Live' = {x \in Live : x.lap # l} \union (IF Complete(B) THEN {} ELSE {B})
        /\ reports' = IF Complete(B) THEN [reports EXCEPT ![l] = PrintBuffer(B)] ELSE reports
        /\ fast' \in Draw(b, B)
  BY <1>0, AddScoreEffect
<1>3. Complete(B) => Staying \subseteq B.data
  BY <1>0, <1>2, CompleteHasAll
<1>4. /\ lap' \in [Bikers -> -1 .. Laps] /\ Staying' = Staying /\ StageOK' /\ CountOK'
      /\ \A c \in Bikers : lap'[c] = IF c = b THEN l + 1 ELSE lap[c]
  BY CrossFrame
<1>5. \A c \in Bikers : lap[c] \in Int /\ lap'[c] \in Int /\ lap'[c] >= lap[c]
  BY <1>1, <1>4, LiveFacts
<1>6. B.data \subseteq Bikers
  BY DEF Buffers
<1>7. Size(scores') = m /\ m \in Nat \ {0}
  BY <1>2, RingFacts
<1> DEFINE P == PrintBuffer(B)
<1>8. P.ranked = B.data /\ P \in Reports
  BY <1>6 DEF PrintBuffer, Reports, IInv, TypeOK
<1>9. \A k \in 0 .. Laps - 1 :
         reports'[k] = IF k = l /\ Complete(B) THEN P ELSE reports[k]
  BY <1>1, <1>2 DEF IInv, TypeOK
<1> HIDE DEF P
<1>10. TypeOK'
  <2>1. pc' \in [Bikers -> {"ride", "barr", "load", "store", "broken", "finished", "gone"}]
    <3>1. PICK s \in {"barr", "finished", "load"} : pc' = [pc EXCEPT ![b] = s]
      BY CrossFrame
    <3> QED BY <3>1 DEF IInv, TypeOK
  <2>2. score' \in [Bikers -> Nat]
    <3>1. PICK k \in 0 .. 5 :
             score' = [score EXCEPT ![b] = @ + k + IF Alone(b) THEN 20 ELSE 0]
      BY <1>0, ScoreEffect
    <3>2. score[b] \in Nat
      BY DEF IInv, TypeOK
    <3>3. score[b] + k + (IF Alone(b) THEN 20 ELSE 0) \in Nat
      BY <3>2
    <3> QED BY <3>1, <3>3 DEF IInv, TypeOK
  <2>3. fast' \subseteq Bikers /\ Cardinality(fast') <= 1
    <3>1. fast' = {} \/ (\E x \in Bikers : fast' = {x}) \/ fast' = fast
      BY <1>2 DEF Draw
    <3>2. Cardinality({}) = 0 /\ \A x : Cardinality({x}) = 1
      BY FS_EmptySet, FS_Singleton
    <3> HIDE DEF P
    <3>3. CASE \E x \in Bikers : fast' = {x}
      BY <3>2, <3>3
    <3>4. CASE fast' = {}
      BY <3>2, <3>4
    <3>5. CASE fast' = fast
      BY <3>5 DEF IInv, TypeOK
    <3> QED BY <3>1, <3>3, <3>4, <3>5
  <2>4. scores' \in [0 .. Size(scores') - 1 -> Buffers \union {NoBuffer}]
    BY <1>2, <1>7 DEF RingOf
  <2>5. reports' \in [0 .. Laps - 1 -> Reports]
    <3>1. CASE Complete(B)
      <4>1. reports' = [reports EXCEPT ![l] = P]
        BY <1>2, <3>1 DEF P
      <4> QED BY <1>8, <4>1 DEF IInv, TypeOK
    <3>2. CASE ~Complete(B)
      BY <1>2, <3>2 DEF IInv, TypeOK
    <3> QED BY <3>1, <3>2
  <2>6. loaded' = loaded /\ tot_num_bikers' = tot_num_bikers /\ broken' = broken
    BY DEF Cross
  <2> QED BY <1>4, <2>1, <2>2, <2>3, <2>4, <2>5, <2>6 DEF IInv, TypeOK
<1>11. RingOK'
  BY <1>2, <1>7 DEF RingOK
<1>12. LiveOK'
  <2> SUFFICES ASSUME NEW x \in Live'
               PROVE  /\ x.data # {}
                      /\ \A c \in x.data : lap'[c] > x.lap
                      /\ reports'[x.lap] = NoReport
                      /\ x.size >= Cardinality(IF x.lap + 1 < Span THEN Bikers ELSE Staying)
                      /\ \A c \in Bikers : lap'[c] - 1 - x.lap < m
    BY <1>4, <1>7 DEF LiveOK
  <2>1. CASE x \in Live /\ x.lap # l
    <3>1. /\ x.data # {} /\ x.data \subseteq Bikers /\ x.lap \in 0 .. Laps - 1
          /\ \A c \in x.data : lap[c] > x.lap
          /\ reports[x.lap] = NoReport
          /\ x.size >= Cardinality(IF x.lap + 1 < Span THEN Bikers ELSE Staying)
          /\ \A c \in Bikers : lap[c] - 1 - x.lap < Size(scores)
      BY <2>1, LiveFacts DEF IInv, LiveOK
    <3>2. x.lap \in Nat /\ Size(scores) \in Nat
      BY <2>1, LiveFacts
    <3>3. reports'[x.lap] = NoReport
      BY <1>9, <2>1, <3>1
    <3>4. ASSUME NEW c \in x.data PROVE lap'[c] > x.lap
      BY <1>5, <3>1, <3>2
    <3>5. ASSUME NEW c \in Bikers PROVE lap'[c] - 1 - x.lap < m
      <4>1. CASE c = b
        BY <1>1, <1>2, <1>4, <2>1, <3>2, <4>1
      <4>2. CASE c # b
        <5>1. lap'[c] = lap[c] /\ lap[c] - 1 - x.lap < Size(scores)
          BY <1>4, <3>1, <4>2
        <5> QED BY <1>2, <1>5, <3>2, <5>1
      <4> QED BY <4>1, <4>2
    <3> QED BY <3>1, <3>3, <3>4, <3>5
  <2>2. CASE x = B /\ ~Complete(B)
    <3>1. x.data # {} /\ x.lap = l
      BY <1>2, <2>2
    <3>2. ASSUME NEW c \in x.data PROVE lap'[c] > x.lap
      <4>1. CASE c = b
        BY <1>1, <1>2, <1>4, <2>2, <4>1
      <4>2. CASE c # b
        BY <1>2, <1>4, <1>6, <2>2, <4>2
      <4> QED BY <4>1, <4>2
    <3>3. reports'[x.lap] = NoReport
      BY <1>1, <1>9, <2>2, <3>1
    <3>4. x.size >= Cardinality(IF x.lap + 1 < Span THEN Bikers ELSE Staying)
      BY <1>2, <2>2
    <3>5. ASSUME NEW c \in Bikers PROVE lap'[c] - 1 - x.lap < m
      <4>1. CASE c = b
        BY <1>1, <1>4, <1>7, <3>1, <4>1
      <4>2. CASE c # b /\ lap[c] <= l
        BY <1>1, <1>4, <1>5, <1>7, <3>1, <4>2
      <4>3. CASE c # b /\ lap[c] > l
        <5>1. l \in 0 .. lap[c] - 1
          BY <1>1, <1>5, <4>3
        <5>2. PICK y \in Live : y.lap = l
          BY <1>1, <5>1, Recorded
        <5>3. lap[c] - 1 - l < Size(scores) /\ Size(scores) \in Nat
          BY <5>2, LiveFacts DEF IInv, LiveOK
        <5> QED BY <1>1, <1>2, <1>4, <1>5, <3>1, <4>3, <5>3
      <4> QED BY <1>1, <1>5, <4>1, <4>2, <4>3
    <3> QED BY <3>1, <3>2, <3>3, <3>4, <3>5
  <2> QED BY <1>2, <2>1, <2>2
<1>13. \A c \in B.data : c \in reports'[l].ranked \/ B \in Live'
  BY <1>1, <1>2, <1>8, <1>9
<1>14. RecordOK'
  <2> SUFFICES ASSUME NEW c \in Bikers, NEW k \in 0 .. lap'[c] - 1
               PROVE  c \in reports'[k].ranked \/ \E x \in Live' : x.lap = k /\ c \in x.data
    BY DEF RecordOK
  <2>1. k \in 0 .. Laps - 1
    BY <1>4, Constants
  <2>2. CASE k = l
    <3>1. c \in B.data
      <4>1. CASE c = b
        BY <1>2, <4>1
      <4>2. CASE c # b
        <5>1. lap[c] > l
          BY <1>1, <1>4, <1>5, <2>2, <4>2
        <5> QED BY <1>2, <4>2, <5>1
      <4> QED BY <4>1, <4>2
    <3> QED BY <1>2, <1>13, <2>2, <3>1
  <2>3. CASE k # l
    <3>1. k \in 0 .. lap[c] - 1
      BY <1>1, <1>4, <1>5, <2>3
    <3>2. CASE c \in reports[k].ranked
      BY <1>9, <2>1, <2>3, <3>2
    <3>3. CASE \E x \in Live : x.lap = k /\ c \in x.data
      BY <1>2, <2>3, <3>3
    <3> QED BY <3>1, <3>2, <3>3 DEF IInv, RecordOK
  <2> QED BY <2>2, <2>3
<1>15. ReportOK'
  <2> SUFFICES ASSUME NEW k \in 0 .. Laps - 1, reports'[k] # NoReport
               PROVE  /\ Staying \subseteq reports'[k].ranked
                      /\ \A c \in reports'[k].ranked : lap'[c] > k
    BY <1>4 DEF ReportOK
  <2>1. CASE k = l /\ Complete(B)
    <3>1. reports'[k].ranked = B.data
      BY <1>8, <1>9, <2>1
    <3>2. ASSUME NEW c \in B.data PROVE lap'[c] > k
      <4>1. CASE c = b
        BY <1>1, <1>4, <2>1, <4>1
      <4>2. CASE c # b
        BY <1>2, <1>4, <1>6, <2>1, <4>2
      <4> QED BY <4>1, <4>2
    <3> QED BY <1>3, <2>1, <3>1, <3>2
  <2>2. CASE ~(k = l /\ Complete(B))
    <3>1. reports'[k] = reports[k] /\ reports[k].ranked \subseteq Bikers
      BY <1>9, <2>2 DEF IInv, TypeOK, Reports
    <3>2. /\ Staying \subseteq reports[k].ranked
          /\ \A c \in reports[k].ranked : lap[c] > k
      BY <3>1 DEF IInv, ReportOK
    <3> QED BY <1>5, <3>1, <3>2
  <2> QED BY <2>1, <2>2
<1> QED
  BY <1>4, <1>10, <1>11, <1>12, <1>14, <1>15 DEF IInv

\* A step of the rest of the round: laps, ring and reports stay, fewer bikers
\* may stay.
LEMMA RoundStep ==
    ASSUME IInv, lap' = lap, scores' = scores, reports' = reports, score' = score,
           fast' = fast, Staying' \subseteq Staying
    PROVE  RingOK' /\ LiveOK' /\ RecordOK' /\ ReportOK'
<1>1. RingOK' /\ Live' = Live /\ Size(scores)' = Size(scores)
  BY DEF IInv, RingOK, RingOf, Live, Size
<1>2. IsFiniteSet(Staying)
  <2>1. Staying \subseteq Bikers
    BY DEF Staying
  <2> QED BY <2>1, Constants, FS_Subset
<1>3. /\ Cardinality(Staying') <= Cardinality(Staying)
      /\ Cardinality(Staying') \in Nat /\ Cardinality(Staying) \in Nat
  <2>1. IsFiniteSet(Staying') /\ Cardinality(Staying') <= Cardinality(Staying)
    BY <1>2, FS_Subset
  <2> QED BY <1>2, <2>1, FS_CardinalityType
<1>4. LiveOK'
  <2> SUFFICES ASSUME NEW x \in Live
               PROVE  /\ x.data # {}
                      /\ \A c \in x.data : lap[c] > x.lap
                      /\ reports[x.lap] = NoReport
                      /\ x.size >= Cardinality(IF x.lap + 1 < Span THEN Bikers ELSE Staying')
                      /\ \A c \in Bikers : lap[c] - 1 - x.lap < Size(scores)
    BY <1>1 DEF LiveOK
  <2>1. x.size \in Nat
    BY LiveFacts
  <2>2. x.size >= Cardinality(IF x.lap + 1 < Span THEN Bikers ELSE Staying)
    BY DEF IInv, LiveOK
  <2>3. x.size >= Cardinality(IF x.lap + 1 < Span THEN Bikers ELSE Staying')
    <3>1. CASE x.lap + 1 < Span
      BY <2>2, <3>1
    <3>2. CASE ~(x.lap + 1 < Span)
      BY <1>3, <2>1, <2>2, <3>2
    <3> QED BY <3>1, <3>2
  <2> QED BY <2>3 DEF IInv, LiveOK
<1>5. RecordOK'
  BY <1>1 DEF IInv, RecordOK
<1>6. ReportOK'
  BY DEF IInv, ReportOK
<1> QED
  BY <1>1, <1>4, <1>5, <1>6

LEMMA StayStep ==
    ASSUME IInv, NEW b \in Bikers, Stay(b)
    PROVE  IInv'
<1>1. /\ pc[b] = "ride" /\ pc' = [pc EXCEPT ![b] = "barr"]
      /\ UNCHANGED <<lap, score, loaded, scores, tot_num_bikers, fast, broken, reports>>
  BY DEF Stay, Goes
<1>2. \A c \in Bikers : pc'[c] = IF c = b THEN "barr" ELSE pc[c]
  BY <1>1 DEF IInv, TypeOK
<1>3. TypeOK'
  BY <1>1 DEF IInv, TypeOK, Size
<1>4. Staying' = Staying
  BY <1>1, <1>2 DEF Staying
<1>5. StageOK'
  BY <1>1, <1>2 DEF IInv, StageOK
<1>6. CountOK'
  BY <1>1, <1>2, <1>4 DEF IInv, CountOK
<1> QED
  BY <1>1, <1>3, <1>4, <1>5, <1>6, RoundStep DEF IInv

LEMMA LoadStep ==
    ASSUME IInv, NEW b \in Bikers, Load(b)
    PROVE  IInv'
<1>1. /\ pc[b] = "load" /\ pc' = [pc EXCEPT ![b] = "store"]
      /\ loaded' = [loaded EXCEPT ![b] = tot_num_bikers[1]]
      /\ UNCHANGED <<lap, score, scores, tot_num_bikers, fast, broken, reports>>
  BY DEF Load, Goes
<1>2. \A c \in Bikers : /\ pc'[c] = IF c = b THEN "store" ELSE pc[c]
                        /\ loaded'[c] = IF c = b THEN tot_num_bikers[1] ELSE loaded[c]
  BY <1>1 DEF IInv, TypeOK
<1>3. TypeOK'
  <2>1. tot_num_bikers[1] \in Int
    BY Constants DEF IInv, TypeOK
  <2> QED BY <1>1, <2>1 DEF IInv, TypeOK, Size
<1>4. Staying' = Staying
  BY <1>1, <1>2 DEF Staying
<1>5. StageOK'
  BY <1>1, <1>2 DEF IInv, StageOK
<1>6. CountOK'
  BY <1>1, <1>2, <1>4 DEF IInv, CountOK
<1> QED
  BY <1>1, <1>3, <1>4, <1>5, <1>6, RoundStep DEF IInv

\* One biker less stays, and tot_num_bikers is one less at most.
LEMMA StoreStep ==
    ASSUME IInv, NEW b \in Bikers, Store(b)
    PROVE  IInv'
<1>1. /\ pc[b] = "store" /\ pc' = [pc EXCEPT ![b] = "broken"]
      /\ tot_num_bikers' = [tot_num_bikers EXCEPT ![1] = loaded[b] - 1]
      /\ UNCHANGED <<lap, score, loaded, scores, fast, broken, reports>>
  BY DEF Store, Goes
<1>2. \A c \in Bikers : pc'[c] = IF c = b THEN "broken" ELSE pc[c]
  BY <1>1 DEF IInv, TypeOK
<1>3. b \in Staying /\ Staying' = Staying \ {b}
  BY <1>1, <1>2 DEF Staying, IInv, StageOK
<1>4. IsFiniteSet(Staying) /\ Cardinality(Staying) \in Nat
      /\ Cardinality(Staying') = Cardinality(Staying) - 1
  <2>1. IsFiniteSet(Staying)
    <3>1. Staying \subseteq Bikers
      BY DEF Staying
    <3> QED BY <3>1, Constants, FS_Subset
  <2> QED BY <1>3, <2>1, FS_RemoveElement, FS_CardinalityType
<1>5. \A c \in Bikers : loaded[c] \in Int
  BY DEF IInv, TypeOK
<1>6. /\ tot_num_bikers'[0] = tot_num_bikers[0]
      /\ tot_num_bikers'[1] = loaded[b] - 1
  BY <1>1, Constants DEF IInv, TypeOK
<1>7. TypeOK'
  <2>1. tot_num_bikers' \in [Intervals -> Int]
    <3>1. loaded[b] - 1 \in Int
      BY <1>5
    <3> QED BY <1>1, <3>1 DEF IInv, TypeOK
  <2>2. pc' \in [Bikers -> {"ride", "barr", "load", "store", "broken", "finished", "gone"}]
    BY <1>1 DEF IInv, TypeOK
  <2> QED BY <1>1, <2>1, <2>2 DEF IInv, TypeOK, Size
<1>8. StageOK'
  BY <1>1, <1>2 DEF IInv, StageOK
<1>9. CountOK'
  <2>1. tot_num_bikers'[0] = Cardinality(Bikers)
    BY <1>6 DEF IInv, CountOK
  <2>2. loaded[b] >= Cardinality(Staying)
    BY <1>1 DEF IInv, CountOK
  <2>3. tot_num_bikers'[1] >= Cardinality(Staying')
    BY <1>4, <1>5, <1>6, <2>2
  <2>4. ASSUME NEW c \in Bikers, pc'[c] = "store" PROVE loaded[c] >= Cardinality(Staying')
    <3>1. loaded[c] >= Cardinality(Staying)
      BY <1>2, <2>4 DEF IInv, CountOK
    <3> QED BY <1>4, <1>5, <3>1
  <2> QED BY <1>1, <2>1, <2>3, <2>4 DEF CountOK
<1>10. Staying' \subseteq Staying
  BY <1>3
<1> QED
  BY <1>1, <1>7, <1>8, <1>9, <1>10, RoundStep DEF IInv

LEMMA EndRoundStep ==
    ASSUME IInv, EndRound
    PROVE  IInv'
<1>1. /\ \A b \in Bikers : pc[b] \in {"barr", "broken", "finished", "gone"}
      /\ pc' = [b \in Bikers |-> IF pc[b] = "barr" THEN "ride" ELSE "gone"]
      /\ broken' = broken \union {b \in Bikers : pc[b] = "broken"}
      /\ UNCHANGED <<lap, score, loaded, scores, tot_num_bikers, fast, reports>>
  BY DEF EndRound
<1>2. \A b \in Bikers : pc'[b] = IF pc[b] = "barr" THEN "ride" ELSE "gone"
  BY <1>1
<1>3. TypeOK'
  <2>1. pc' \in [Bikers -> {"ride", "barr", "load", "store", "broken", "finished", "gone"}]
    BY <1>1
  <2>2. broken' \subseteq Bikers
    BY <1>1 DEF IInv, TypeOK
  <2> QED BY <1>1, <2>1, <2>2 DEF IInv, TypeOK, Size
<1>4. Staying' = Staying
  BY <1>1, <1>2 DEF Staying
<1>5. StageOK'
  BY <1>1, <1>2 DEF IInv, StageOK
<1>6. CountOK'
  BY <1>1, <1>2, <1>4 DEF IInv, CountOK
<1> QED
  BY <1>1, <1>3, <1>4, <1>5, <1>6, RoundStep DEF IInv

LEMMA NextIInv == IInv /\ [Next]_vars => IInv'
<1> SUFFICES ASSUME IInv, [Next]_vars PROVE IInv'
  OBVIOUS
<1>1. CASE \E b \in Bikers : Cross(b)
  BY <1>1, FirstCross, ScoredCross
<1>2. CASE \E b \in Bikers : Stay(b) \/ Load(b) \/ Store(b)
  BY <1>2, StayStep, LoadStep, StoreStep
<1>3. CASE EndRound
  BY <1>3, EndRoundStep
<1>4. CASE UNCHANGED vars
  <2>1. /\ lap' = lap /\ score' = score /\ pc' = pc /\ loaded' = loaded /\ scores' = scores
        /\ tot_num_bikers' = tot_num_bikers /\ fast' = fast /\ broken' = broken
        /\ reports' = reports
    BY <1>4 DEF vars
  <2>2. TypeOK' /\ StageOK' /\ CountOK'
    BY <2>1 DEF IInv, TypeOK, StageOK, CountOK, Staying, Size
  <2>3. Staying' = Staying
    BY <2>1 DEF Staying
  <2> QED BY <2>1, <2>2, <2>3, RoundStep DEF IInv
<1> QED
  BY <1>1, <1>2, <1>3, <1>4 DEF Next, Terminated

LEMMA InitIInv == Init => IInv
<1> SUFFICES ASSUME Init PROVE IInv
  OBVIOUS
<1> DEFINE k == 2 + (Laps - 1) \div 4
<1>1. k \in Nat /\ k >= 2
  BY Constants
<1>2. scores = [i \in 0 .. k - 1 |-> NoBuffer]
  <2>1. k - 1 = 1 + (Laps - 1) \div 4
    BY Constants
  <2> HIDE DEF k
  <2> QED BY <2>1 DEF Init
<1> HIDE DEF k
<1>3. RingOf(scores, k)
  BY <1>1, <1>2 DEF RingOf
<1>4. Size(scores) = k /\ DOMAIN scores = 0 .. k - 1
  BY <1>3, RingFacts
<1>5. RingOK
  BY <1>3, <1>4 DEF RingOK
<1>6. Live = {}
  BY <1>2, <1>4 DEF Live
<1>7. TypeOK
  <2>1. scores \in [0 .. Size(scores) - 1 -> Buffers \union {NoBuffer}]
    BY <1>2, <1>4
  <2>2. lap \in [Bikers -> -1 .. Laps] /\ score \in [Bikers -> Nat] /\ loaded \in [Bikers -> Int]
    BY Constants DEF Init
  <2>3. tot_num_bikers \in [Intervals -> Int]
    BY Constants DEF Init
  <2>4. reports \in [0 .. Laps - 1 -> Reports]
    BY DEF Init, Reports, NoReport
  <2>5. fast \subseteq Bikers /\ Cardinality(fast) <= 1 /\ broken \subseteq Bikers
    BY FS_EmptySet DEF Init
  <2>6. pc \in [Bikers -> {"ride", "barr", "load", "store", "broken", "finished", "gone"}]
    BY DEF Init
  <2> QED BY <2>1, <2>2, <2>3, <2>4, <2>5, <2>6 DEF TypeOK
<1>8. StageOK
  BY Constants DEF Init, StageOK
<1>9. CountOK
  <2>1. Staying = Bikers
    BY DEF Init, Staying
  <2>2. tot_num_bikers[0] = Cardinality(Bikers) /\ tot_num_bikers[1] = Cardinality(Bikers)
    BY Constants DEF Init
  <2> QED BY <2>1, <2>2, Constants DEF Init, CountOK
<1>10. LiveOK
  BY <1>6 DEF LiveOK
<1>11. RecordOK
  BY DEF Init, RecordOK
<1>12. ReportOK
  BY DEF Init, ReportOK
<1> QED
  BY <1>5, <1>7, <1>8, <1>9, <1>10, <1>11, <1>12 DEF IInv

\* The inductive invariant holds in every reachable state.
THEOREM Invariant == Spec => []IInv
<1>1. Init => IInv
  BY InitIInv
<1>2. IInv /\ [Next]_vars => IInv'
  BY NextIInv
<1> QED
  BY <1>1, <1>2, PTL DEF Spec

-----------------------------------------------------------------------------
(* What the scoreboard promises *)

\* A buffer is never fuller than it was made for.
LEMMA Fits ==
    ASSUME IInv, NEW x \in Live
    PROVE  Cardinality(x.data) <= x.size
<1>1. /\ x \in Buffers /\ x.lap \in 0 .. Laps - 1 /\ x.size \in Nat /\ x.data \subseteq Bikers
      /\ \A b \in x.data : lap[b] > x.lap
      /\ x.size >= Cardinality(IF x.lap + 1 < Span THEN Bikers ELSE Staying)
  BY LiveFacts DEF IInv, LiveOK
<1>2. Staying \subseteq Bikers
  BY DEF Staying
<1>3. /\ IsFiniteSet(Bikers) /\ IsFiniteSet(x.data) /\ IsFiniteSet(Staying)
      /\ Cardinality(Bikers) \in Nat /\ Cardinality(x.data) \in Nat /\ Cardinality(Staying) \in Nat
  BY <1>1, <1>2, Constants, FS_Subset, FS_CardinalityType
<1>4. CASE x.lap + 1 < Span
  <2>1. Cardinality(x.data) <= Cardinality(Bikers)
    BY <1>1, <1>3, FS_Subset
  <2> QED BY <1>1, <1>3, <1>4, <2>1
<1>5. CASE ~(x.lap + 1 < Span)
  <2>1. x.data \subseteq Staying
    <3> SUFFICES ASSUME NEW c \in x.data PROVE c \in Staying
      OBVIOUS
    <3>1. c \in Bikers /\ lap[c] > x.lap
      BY <1>1
    <3>2. lap[c] # Span - 1
      BY <1>1, <1>5, <3>1, Constants, LiveFacts
    <3>3. c \notin broken /\ pc[c] # "broken"
      BY <3>1, <3>2 DEF IInv, StageOK
    <3> QED BY <3>1, <3>3 DEF Staying
  <2>2. Cardinality(x.data) <= Cardinality(Staying)
    BY <1>3, <2>1, FS_Subset
  <2> QED BY <1>1, <1>3, <1>5, <2>2
<1> QED
  BY <1>4, <1>5

LEMMA NothingLostHolds == IInv => NothingLost
<1> SUFFICES ASSUME IInv PROVE NothingLost
  OBVIOUS
<1>1. \A x, y \in Live : x.lap = y.lap => x = y
  BY LiveFacts, RingFacts
<1>2. \A x \in Live : reports[x.lap] = NoReport /\ \A b \in x.data : lap[b] > x.lap
  BY DEF IInv, LiveOK
<1>3. ASSUME NEW b \in Bikers, NEW l \in 0 .. lap[b] - 1
      PROVE  Cardinality({x \in Live : x.lap = l /\ b \in x.data})
               + (IF b \in reports[l].ranked THEN 1 ELSE 0) = 1
  <2> DEFINE S == {x \in Live : x.lap = l /\ b \in x.data}
  <2>1. CASE b \in reports[l].ranked
    <3>1. S = {}
      BY <1>2, <2>1 DEF NoReport
    <3>2. Cardinality(S) = 0
      BY <3>1, FS_EmptySet
    <3> QED BY <2>1, <3>2
  <2>2. CASE b \notin reports[l].ranked
    <3>1. PICK x \in Live : x.lap = l /\ b \in x.data
      BY <2>2 DEF IInv, RecordOK
    <3>2. S = {x}
      BY <1>1, <3>1
    <3>3. Cardinality(S) = 1
      BY <3>2, FS_Singleton
    <3> QED BY <2>2, <3>3
  <2> QED BY <2>1, <2>2
<1>4. \A x \in Live : Cardinality(x.data) <= x.size
  BY Fits
<1>5. \A x \in Live : \A y \in Live \ {x} : y.lap # x.lap
  BY <1>1
<1>6. TypeOK
  BY DEF IInv
<1> QED
  BY <1>2, <1>3, <1>4, <1>5, <1>6 DEF NothingLost

\* Every completed lap is on record exactly once, in one buffer or in its report,
\* and no buffer overflows, for any number of bikers and doublings of the ring.
THEOREM NothingIsLost == Spec => []NothingLost
BY Invariant, NothingLostHolds, PTL

\* A step prints at most one report: of the lap that a biker completes.
LEMMA ReportStep ==
    ASSUME IInv, [Next]_vars, NEW l \in 0 .. Laps - 1, reports'[l] # reports[l]
    PROVE  \E b \in Bikers : Cross(b) /\ lap[b] = l /\ AddScore(b)
                             /\ reports' # reports
<1>1. reports' # reports
  OBVIOUS
<1>2. PICK b \in Bikers : Cross(b)
  BY <1>1 DEF Next, Stay, Load, Store, EndRound, Terminated, vars
<1>3. lap[b] # -1 /\ AddScore(b) /\ pc[b] = "ride"
  BY <1>1, <1>2 DEF Cross
<1>4. PICK B \in Buffers :
        reports' = IF Complete(B) THEN [reports EXCEPT ![lap[b]] = PrintBuffer(B)]
                   ELSE reports
  BY <1>3, AddScoreEffect
<1>5. lap[b] = l
  BY <1>1, <1>4 DEF IInv, TypeOK
<1> QED
  BY <1>1, <1>2, <1>3, <1>5

\* A lap is reported once, when everyone has completed it that has not broken,
\* whatever decrements of tot_num_bikers are lost.
THEOREM ReportsWait == Spec => ReportsWaitForAll
<1> DEFINE Act == \A l \in 0 .. Laps - 1 :
          reports'[l] # reports[l] =>
             /\ reports[l] = NoReport
             /\ reports'[l].ranked \intersect reports'[l].broke = {}
             /\ \A b \in Bikers \ (reports'[l].ranked \union reports'[l].broke) :
                   pc[b] \in {"load", "store", "broken"}
<1>1. IInv /\ [Next]_vars => Act
  <2> SUFFICES ASSUME IInv, [Next]_vars, NEW l \in 0 .. Laps - 1, reports'[l] # reports[l]
      PROVE  /\ reports[l] = NoReport
             /\ reports'[l].ranked \intersect reports'[l].broke = {}
             /\ \A c \in Bikers \ (reports'[l].ranked \union reports'[l].broke) :
                   pc[c] \in {"load", "store", "broken"}
    OBVIOUS
  <2>1. PICK b \in Bikers : Cross(b) /\ lap[b] = l /\ AddScore(b) /\ reports' # reports
    BY ReportStep
  <2>2. pc[b] = "ride" /\ lap[b] # -1 /\ lap[b] \in Int
    BY <2>1 DEF Cross
  <2>3. reports[l] = NoReport /\ b \in Staying
    BY <2>1, <2>2, NotReported
  <2>4. PICK B \in Buffers :
          /\ B.lap = lap[b] /\ b \in B.data
          /\ \A c \in Bikers \ {b} : c \in B.data <=> lap[c] > lap[b]
          /\ reports' = IF Complete(B) THEN [reports EXCEPT ![lap[b]] = PrintBuffer(B)]
                        ELSE reports
    BY <2>1, <2>2, AddScoreEffect
  <2>5. Complete(B) /\ reports' = [reports EXCEPT ![l] = PrintBuffer(B)]
    BY <2>1, <2>4
  <2>6. /\ reports'[l].ranked = B.data
        /\ reports'[l].broke = {x \in broken : lap[x] <= l}
    BY <2>1, <2>4, <2>5 DEF IInv, TypeOK, PrintBuffer
  <2>7. /\ Staying \subseteq B.data
        /\ B.lap + 1 < Span => B.data = Bikers
    BY <2>1, <2>2, <2>4, <2>5, CompleteHasAll
  <2>8. B.data \intersect {x \in broken : lap[x] <= l} = {}
    <3> SUFFICES ASSUME NEW x \in B.data, x \in broken, lap[x] <= l PROVE FALSE
      OBVIOUS
    <3>1. x \in Bikers /\ x # b
      BY <2>3 DEF Buffers, Staying
    <3>2. lap[x] > l
      BY <2>1, <2>4, <3>1
    <3> QED BY <2>1, <2>2, <3>1, <3>2, LiveFacts
  <2>9. ASSUME NEW c \in Bikers, c \notin B.data, ~(c \in broken /\ lap[c] <= l)
        PROVE  pc[c] \in {"load", "store", "broken"}
    <3>1. c \in broken \/ pc[c] = "broken"
      BY <2>7, <2>9 DEF Staying
    <3>2. CASE c \in broken
      <4>1. lap[c] = Span - 1
        BY <3>2 DEF IInv, StageOK
      <4>2. ~(l + 1 < Span)
        BY <2>1, <2>4, <2>7, <2>9
      <4> QED BY <2>1, <2>2, <2>9, <3>2, <4>1, <4>2, Constants
    <3> QED BY <3>1, <3>2
  <2> QED BY <2>3, <2>6, <2>8, <2>9
<1>2. IInv /\ [Next]_vars => [Act]_vars
  BY <1>1
<1> QED
  BY <1>2, Invariant, PTL DEF Spec, ReportsWaitForAll

\* The 20 points go to the biker that is a lap ahead of everyone, whatever lap
\* the buffer before holds after the ring was doubled, and to nobody else.
THEOREM BonusIsEarned == Spec => BonusEarned
<1> DEFINE Act == \A b \in Bikers :
          score'[b] # score[b] \/ lap'[b] # lap[b] =>
             (score'[b] - score[b] >= 20 <=>
                /\ lap[b] >= 1
                /\ \A c \in Bikers \ {b} : lap[c] < lap[b]
                /\ reports[lap[b] - 1] = NoReport)
<1>1. IInv /\ [Next]_vars => Act
  <2> SUFFICES ASSUME IInv, [Next]_vars, NEW b \in Bikers,
                      score'[b] # score[b] \/ lap'[b] # lap[b]
               PROVE  score'[b] - score[b] >= 20 <=> Alone(b)
    BY DEF Alone
  <2>0. \A c \in Bikers : score[c] \in Nat
    BY DEF IInv, TypeOK
  <2>1. PICK a \in Bikers : Cross(a)
    BY DEF Next, Stay, Load, Store, EndRound, Terminated, vars
  <2>2. /\ pc[a] = "ride" /\ lap[a] \in -1 .. Laps - 1
        /\ \A c \in Bikers : lap'[c] = IF c = a THEN lap[a] + 1 ELSE lap[c]
    BY <2>1, CrossFrame
  <2>3. CASE lap[a] = -1
    <3>1. score' = score
      BY <2>1, <2>3 DEF Cross
    <3>2. b = a
      BY <2>2, <3>1
    <3> QED BY <2>0, <2>3, <3>1, <3>2 DEF Alone
  <2>4. CASE lap[a] # -1
    <3>1. AddScore(a)
      BY <2>1, <2>4 DEF Cross
    <3>2. PICK k \in 0 .. 5 :
            score' = [score EXCEPT ![a] = @ + k + IF Alone(a) THEN 20 ELSE 0]
      BY <2>2, <2>4, <3>1, ScoreEffect
    <3>3. score \in [Bikers -> Nat]
      BY DEF IInv, TypeOK
    <3>4. b = a
      BY <2>2, <3>2, <3>3
    <3>5. score'[b] = score[b] + k + IF Alone(b) THEN 20 ELSE 0
      BY <3>2, <3>3, <3>4
    <3>6. CASE Alone(b)
      BY <2>0, <3>5, <3>6
    <3>7. CASE ~Alone(b)
      BY <2>0, <3>5, <3>7
    <3> QED BY <3>6, <3>7
  <2> QED BY <2>3, <2>4
<1>2. IInv /\ [Next]_vars => [Act]_vars
  BY <1>1
<1> QED
  BY <1>2, Invariant, PTL DEF Spec, BonusEarned

=============================================================================
