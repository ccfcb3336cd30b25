---------------------------- MODULE MemoryProofs ----------------------------
(***************************************************************************)
(* Proofs about Memory, for every number of processes, pages and frames    *)
(* and every algorithm: the map, the bases, the page table, the frame      *)
(* table, QuickFit's lists and the paginators' control data agree, FIFO    *)
(* and LRU2 give up the page they have to, and a compaction loses nothing. *)
(***************************************************************************)
EXTENDS Memory, ProofLemmas

-----------------------------------------------------------------------------
(* The memory map. *)

Pieces == [status : {"L", "P"}, base : Nat, qtd : Nat \ {0}]

\* A sequence of pieces without gaps.
Chain(map) ==
    /\ map \in Seq(Pieces) /\ map # << >>
    /\ \A i \in 1 .. Len(map) - 1 : End(map[i]) = map[i + 1].base

\* It covers the numbers from first to last.
Covers(map, first, last) ==
    Chain(map) /\ map[1].base = first /\ End(map[Len(map)]) = last

Used(map) == {m \in ToSet(map) : m.status = "P"}

LEMMA PieceType ==
    ASSUME NEW m \in Pieces
    PROVE  /\ m.status \in {"L", "P"} /\ m.base \in Nat /\ m.qtd \in Nat \ {0}
           /\ End(m) = m.base + m.qtd /\ End(m) \in Nat /\ m.base < End(m)
           /\ m = Piece(m.status, m.base, m.qtd)
BY DEF Piece, Pieces, End

LEMMA ChainType ==
    ASSUME NEW map, Chain(map)
    PROVE  /\ DOMAIN map = 1 .. Len(map) /\ Len(map) \in Nat \ {0} /\ map \in Seq(Pieces)
           /\ \A i \in DOMAIN map : map[i] \in Pieces
           /\ ToSet(map) = {map[i] : i \in 1 .. Len(map)} /\ ToSet(map) \subseteq Pieces
<1>1. map \in Seq(Pieces) /\ map # << >>
  BY DEF Chain
<1>2. DOMAIN map = 1 .. Len(map) /\ Len(map) \in Nat \ {0}
  BY <1>1, LenProperties, EmptySeq
<1>3. \A i \in DOMAIN map : map[i] \in Pieces
  BY <1>1, <1>2, ElementOfSeq
<1>4. ToSet(map) = {map[i] : i \in 1 .. Len(map)}
  BY <1>2 DEF ToSet
<1> QED
  BY <1>1, <1>2, <1>3, <1>4

\* The pieces follow each other.
LEMMA ChainOrder ==
    ASSUME NEW map, Chain(map)
    PROVE  \A i, j \in 1 .. Len(map) : i < j => End(map[i]) <= map[j].base
<1>0. Len(map) \in Nat \ {0} /\ \A i \in 1 .. Len(map) : map[i] \in Pieces
  BY ChainType
<1>1. \A i \in 1 .. Len(map) :
         map[i].base \in Nat /\ End(map[i]) \in Nat /\ map[i].base < End(map[i])
  BY <1>0, PieceType
<1> SUFFICES ASSUME NEW i \in 1 .. Len(map), NEW j \in 1 .. Len(map), i < j
             PROVE  End(map[i]) <= map[j].base
  OBVIOUS
<1> DEFINE G == {k \in Nat : i + 1 + k <= Len(map) => End(map[i]) <= map[i + 1 + k].base}
<1>2. 0 \in G
  <2>1. SUFFICES ASSUME i + 1 <= Len(map) PROVE End(map[i]) <= map[i + 1].base
    BY <1>0
  <2>2. i \in 1 .. Len(map) - 1
    BY <1>0, <2>1
  <2>3. End(map[i]) = map[i + 1].base
    BY <2>2 DEF Chain
  <2> QED BY <1>0, <1>1, <2>1, <2>3
<1>3. ASSUME NEW k \in Nat, k \in G PROVE k + 1 \in G
  <2>1. SUFFICES ASSUME i + 1 + (k + 1) <= Len(map)
                 PROVE  End(map[i]) <= map[i + 1 + (k + 1)].base
    OBVIOUS
  <2> DEFINE l == i + 1 + k
  <2>2. l \in 1 .. Len(map) - 1 /\ i + 1 + (k + 1) = l + 1 /\ l \in 1 .. Len(map) /\ l + 1 \in 1 .. Len(map)
    BY <1>0, <2>1
  <2>3. End(map[i]) <= map[l].base
    BY <1>3, <2>2
  <2> HIDE DEF l
  <2>4. End(map[l]) = map[l + 1].base
    BY <2>2 DEF Chain
  <2>5. End(map[i]) <= map[l + 1].base
    BY <1>1, <2>2, <2>3, <2>4
  <2> QED BY <2>2, <2>5
<1>4. \A k \in Nat : k \in G
  <2> HIDE DEF G
  <2> QED BY <1>2, <1>3, NaturalInduction
<1>5. \E k \in Nat : i + 1 + k = j
  <2>1. j - (i + 1) \in Nat /\ i + 1 + (j - (i + 1)) = j
    BY <1>0
  <2> QED BY <2>1
<1>6. PICK k \in Nat : i + 1 + k = j
  BY <1>5
<1>7. i + 1 + k <= Len(map) => End(map[i]) <= map[i + 1 + k].base
  BY <1>4
<1> QED
  BY <1>6, <1>7

\* So a base, and any number a piece covers, is in one piece only.
LEMMA ChainOnce ==
    ASSUME NEW map, Chain(map),
           NEW i \in 1 .. Len(map), NEW j \in 1 .. Len(map), NEW pg \in Int,
           map[i].base <= pg, pg < End(map[i]), map[j].base <= pg, pg < End(map[j])
    PROVE  i = j
<1>1. Len(map) \in Nat \ {0} /\ map[i] \in Pieces /\ map[j] \in Pieces
  BY ChainType
<1>2. /\ map[i].base \in Nat /\ End(map[i]) \in Nat
      /\ map[j].base \in Nat /\ End(map[j]) \in Nat
  BY <1>1, PieceType
<1>3. ~(i < j) /\ ~(j < i)
  BY <1>2, ChainOrder
<1> QED
  BY <1>1, <1>3

LEMMA AtIs ==
    ASSUME NEW map, Chain(map), NEW i \in 1 .. Len(map)
    PROVE  At(map, map[i].base) = i
<1>1. DOMAIN map = 1 .. Len(map) /\ \A j \in 1 .. Len(map) : map[j] \in Pieces
  BY ChainType
<1>2. ASSUME NEW j \in 1 .. Len(map), map[j].base = map[i].base PROVE j = i
  <2>1. /\ map[i].base \in Nat /\ map[i].base < End(map[i])
        /\ map[j].base \in Nat /\ map[j].base < End(map[j])
    BY <1>1, PieceType
  <2> QED BY <1>2, <2>1, ChainOnce
<1> QED
  BY <1>1, <1>2 DEF At

\* All of them lie between the ends of the map.
LEMMA ChainWithin ==
    ASSUME NEW map, NEW first, NEW last, Covers(map, first, last)
    PROVE  /\ first \in Nat /\ last \in Nat
           /\ \A i \in 1 .. Len(map) : first <= map[i].base /\ End(map[i]) <= last
<1>1. Chain(map) /\ map[1].base = first /\ End(map[Len(map)]) = last
  BY DEF Covers
<1>2. Len(map) \in Nat \ {0} /\ \A i \in 1 .. Len(map) : map[i] \in Pieces
  BY <1>1, ChainType
<1>3. 1 \in 1 .. Len(map) /\ Len(map) \in 1 .. Len(map)
  BY <1>2
<1>4. \A i \in 1 .. Len(map) :
         map[i].base \in Nat /\ End(map[i]) \in Nat /\ map[i].base < End(map[i])
  BY <1>2, PieceType
<1>5. ASSUME NEW i \in 1 .. Len(map) PROVE first <= map[i].base /\ End(map[i]) <= last
  <2>1. i = 1 \/ 1 < i
    OBVIOUS
  <2>2. i = Len(map) \/ i < Len(map)
    BY <1>2
  <2>3. 1 < i => End(map[1]) <= map[i].base
    BY <1>1, <1>3, ChainOrder
  <2>4. i < Len(map) => End(map[i]) <= map[Len(map)].base
    BY <1>1, <1>3, ChainOrder
  <2> QED BY <1>1, <1>3, <1>4, <2>1, <2>2, <2>3, <2>4
<1> QED
  BY <1>1, <1>3, <1>4, <1>5

LEMMA ReplaceIs ==
    ASSUME NEW S, NEW map \in Seq(S), NEW i \in 1 .. Len(map), NEW j \in i .. Len(map),
           NEW pieces \in Seq(S)
    PROVE  /\ Replace(map, i, j, pieces) \in Seq(S)
           /\ Len(Replace(map, i, j, pieces)) = (i - 1) + Len(pieces) + (Len(map) - j)
           /\ \A k \in 1 .. Len(Replace(map, i, j, pieces)) :
                 Replace(map, i, j, pieces)[k] =
                    IF k <= i - 1 THEN map[k]
                    ELSE IF k <= (i - 1) + Len(pieces) THEN pieces[k - (i - 1)]
                    ELSE map[j + (k - (i - 1) - Len(pieces))]
<1> DEFINE before == SubSeq(map, 1, i - 1)
           after == SubSeq(map, j + 1, Len(map))
<1>1. Len(map) \in Nat /\ Len(pieces) \in Nat /\ \A k \in 1 .. Len(map) : map[k] \in S
  BY LenProperties, ElementOfSeq
<1>2. /\ before \in Seq(S) /\ Len(before) = i - 1
      /\ \A k \in 1 .. i - 1 : before[k] = map[k]
  <2>1. \A k \in 1 .. i - 1 : map[k] \in S
    BY <1>1
  <2>2. 1 \in Int /\ i - 1 \in Int
    OBVIOUS
  <2>3. /\ SubSeq(map, 1, i - 1) \in Seq(S)
        /\ Len(SubSeq(map, 1, i - 1)) = IF 1 <= i - 1 THEN (i - 1) - 1 + 1 ELSE 0
        /\ \A k \in 1 .. (i - 1) - 1 + 1 : SubSeq(map, 1, i - 1)[k] = map[1 + k - 1]
    BY <2>1, <2>2, SubSeqProperties
  <2>4. (i - 1) - 1 + 1 = i - 1 /\ \A k \in 1 .. i - 1 : 1 + k - 1 = k
    OBVIOUS
  <2> QED BY <2>3, <2>4
<1>3. /\ after \in Seq(S) /\ Len(after) = Len(map) - j
      /\ \A k \in 1 .. Len(map) - j : after[k] = map[j + k]
  <2>1. \A k \in j + 1 .. Len(map) : map[k] \in S
    BY <1>1
  <2>2. j + 1 \in Int /\ Len(map) \in Int
    BY <1>1
  <2>3. /\ after \in Seq(S)
        /\ Len(after) = IF j + 1 <= Len(map) THEN Len(map) - (j + 1) + 1 ELSE 0
        /\ \A k \in 1 .. Len(map) - (j + 1) + 1 : after[k] = map[(j + 1) + k - 1]
    BY <2>1, <2>2, SubSeqProperties
  <2>4. Len(map) - (j + 1) + 1 = Len(map) - j /\ \A k \in 1 .. Len(map) - j : (j + 1) + k - 1 = j + k
    BY <1>1
  <2>5. Len(after) = Len(map) - j
    <3>1. j + 1 <= Len(map) \/ Len(map) - j = 0
      BY <1>1
    <3>2. Len(map) - j = 0 => ~(j + 1 <= Len(map))
      BY <1>1
    <3> HIDE DEF after
    <3> QED BY <2>3, <2>4, <3>1, <3>2
  <2> QED BY <2>3, <2>4, <2>5
<1> HIDE DEF before, after
<1>4. /\ before \o pieces \in Seq(S)
      /\ Len(before \o pieces) = (i - 1) + Len(pieces)
      /\ \A k \in 1 .. (i - 1) + Len(pieces) : (before \o pieces)[k] =
            IF k <= i - 1 THEN before[k] ELSE pieces[k - (i - 1)]
  <2>1. before \in Seq(S) /\ pieces \in Seq(S)
    BY <1>2
  <2>2. /\ before \o pieces \in Seq(S)
        /\ Len(before \o pieces) = Len(before) + Len(pieces)
        /\ \A k \in 1 .. Len(before) + Len(pieces) : (before \o pieces)[k] =
              IF k <= Len(before) THEN before[k] ELSE pieces[k - Len(before)]
    BY <2>1, ConcatProperties
  <2> QED BY <1>2, <2>2
<1> DEFINE new == (before \o pieces) \o after
<1>5. /\ new \in Seq(S)
      /\ Len(new) = Len(before \o pieces) + Len(after)
      /\ \A k \in 1 .. Len(before \o pieces) + Len(after) : new[k] =
            IF k <= Len(before \o pieces) THEN (before \o pieces)[k]
            ELSE after[k - Len(before \o pieces)]
  <2>1. before \o pieces \in Seq(S) /\ after \in Seq(S)
    BY <1>3, <1>4
  <2> QED BY <2>1, ConcatProperties
<1>6. Replace(map, i, j, pieces) = new
  BY ConcatAssociative, <1>2, <1>3 DEF Replace, before, after
<1> HIDE DEF new
<1>7. Len(new) = (i - 1) + Len(pieces) + (Len(map) - j)
  BY <1>3, <1>4, <1>5
<1>8. ASSUME NEW k \in 1 .. Len(new)
      PROVE  new[k] = IF k <= i - 1 THEN map[k]
                      ELSE IF k <= (i - 1) + Len(pieces) THEN pieces[k - (i - 1)]
                      ELSE map[j + (k - (i - 1) - Len(pieces))]
  <2>1. k \in 1 .. (i - 1) + Len(pieces) + (Len(map) - j)
    BY <1>7
  <2>2. CASE k <= (i - 1) + Len(pieces)
    <3>1. k \in 1 .. (i - 1) + Len(pieces)
      BY <1>1, <2>1, <2>2
    <3>2. new[k] = (before \o pieces)[k]
      BY <1>1, <1>3, <1>4, <1>5, <2>1, <2>2
    <3>3. k <= i - 1 => before[k] = map[k]
      BY <1>2, <3>1
    <3> QED BY <1>4, <2>2, <3>1, <3>2, <3>3
  <2>3. CASE ~(k <= (i - 1) + Len(pieces))
    <3>1. k - ((i - 1) + Len(pieces)) \in 1 .. Len(map) - j
      BY <1>1, <2>1, <2>3
    <3>2. new[k] = after[k - ((i - 1) + Len(pieces))]
      BY <1>1, <1>3, <1>4, <1>5, <2>1, <2>3
    <3>3. j + (k - ((i - 1) + Len(pieces))) = j + (k - (i - 1) - Len(pieces)) /\ ~(k <= i - 1)
      BY <1>1, <2>1, <2>3
    <3> QED BY <1>3, <2>3, <3>1, <3>2, <3>3
  <2> QED BY <2>2, <2>3
<1> QED
  BY <1>5, <1>6, <1>7, <1>8

\* Pieces i to j of a map give way to others that cover the same numbers.
LEMMA ReplaceChain ==
    ASSUME NEW map, NEW first, NEW last, Covers(map, first, last),
           NEW i \in 1 .. Len(map), NEW j \in i .. Len(map),
           NEW pieces, Covers(pieces, map[i].base, End(map[j]))
    PROVE  /\ Covers(Replace(map, i, j, pieces), first, last)
           /\ \A m : m \in ToSet(Replace(map, i, j, pieces)) <=>
                 m \in ToSet(pieces) \/ \E k \in 1 .. Len(map) : (k < i \/ j < k) /\ m = map[k]
<1> DEFINE new == Replace(map, i, j, pieces)
           L == Len(pieces)
           N == Len(map)
<1>1. /\ Chain(map) /\ map[1].base = first /\ End(map[N]) = last
      /\ Chain(pieces) /\ pieces[1].base = map[i].base /\ End(pieces[L]) = End(map[j])
  BY DEF Covers
<1>2. /\ N \in Nat \ {0} /\ map \in Seq(Pieces) /\ L \in Nat \ {0} /\ pieces \in Seq(Pieces)
      /\ ToSet(pieces) = {pieces[k] : k \in 1 .. L}
  BY <1>1, ChainType
<1>3. /\ new \in Seq(Pieces) /\ Len(new) = (i - 1) + L + (N - j)
      /\ \A k \in 1 .. Len(new) : new[k] =
             IF k <= i - 1 THEN map[k]
             ELSE IF k <= (i - 1) + L THEN pieces[k - (i - 1)]
             ELSE map[j + (k - (i - 1) - L)]
  BY <1>2, ReplaceIs
<1>4. /\ \A k \in 1 .. N - 1 : End(map[k]) = map[k + 1].base
      /\ \A k \in 1 .. L - 1 : End(pieces[k]) = pieces[k + 1].base
  BY <1>1 DEF Chain
<1> HIDE DEF new, L, N
<1>5. Len(new) \in Nat \ {0} /\ i \in 1 .. N /\ j \in i .. N
  BY <1>2, <1>3 DEF N
<1>6. /\ \A k \in 1 .. i - 1 : new[k] = map[k]
      /\ \A k \in 1 .. L : new[(i - 1) + k] = pieces[k]
      /\ \A k \in j + 1 .. N : new[(i - 1) + L + (k - j)] = map[k]
  <2>1. ASSUME NEW k \in 1 .. i - 1 PROVE new[k] = map[k]
    <3>1. k \in 1 .. Len(new) /\ k <= i - 1
      BY <1>2, <1>3, <1>5
    <3> QED BY <1>3, <3>1
  <2>2. ASSUME NEW k \in 1 .. L PROVE new[(i - 1) + k] = pieces[k]
    <3>1. /\ (i - 1) + k \in 1 .. Len(new) /\ ~((i - 1) + k <= i - 1)
          /\ (i - 1) + k <= (i - 1) + L /\ ((i - 1) + k) - (i - 1) = k
      BY <1>2, <1>3, <1>5
    <3> QED BY <1>3, <3>1
  <2>3. ASSUME NEW k \in j + 1 .. N PROVE new[(i - 1) + L + (k - j)] = map[k]
    <3> DEFINE l == (i - 1) + L + (k - j)
    <3>1. /\ l \in 1 .. Len(new) /\ ~(l <= i - 1) /\ ~(l <= (i - 1) + L)
          /\ j + (l - (i - 1) - L) = k
      BY <1>2, <1>3, <1>5
    <3> HIDE DEF l
    <3>2. new[l] = map[k]
      BY <1>3, <3>1
    <3> QED BY <3>2 DEF l
  <2> QED BY <2>1, <2>2, <2>3
<1>7. ASSUME NEW k \in 1 .. Len(new) - 1 PROVE End(new[k]) = new[k + 1].base
  <2>1. CASE k + 1 <= i - 1
    <3>1. k \in 1 .. i - 1 /\ k + 1 \in 1 .. i - 1 /\ k \in 1 .. N - 1
      BY <1>2, <1>5, <1>7, <2>1
    <3> QED BY <1>4, <1>6, <3>1
  <2>2. CASE k = i - 1
    <3>1. k \in 1 .. i - 1 /\ 1 \in 1 .. L /\ (i - 1) + 1 = k + 1 /\ k \in 1 .. N - 1 /\ k + 1 = i
      BY <1>2, <1>5, <1>7, <2>2
    <3>2. new[k] = map[k] /\ new[k + 1] = pieces[1]
      BY <1>6, <3>1
    <3> QED BY <1>1, <1>4, <3>1, <3>2
  <2>3. CASE i <= k /\ k < (i - 1) + L
    <3> DEFINE l == k - (i - 1)
    <3>1. l \in 1 .. L - 1 /\ l \in 1 .. L /\ l + 1 \in 1 .. L /\ (i - 1) + l = k /\ (i - 1) + (l + 1) = k + 1
      BY <1>2, <1>5, <1>7, <2>3
    <3> HIDE DEF l
    <3>2. new[k] = pieces[l] /\ new[k + 1] = pieces[l + 1]
      BY <1>6, <3>1
    <3> QED BY <1>4, <3>1, <3>2
  <2>4. CASE k = (i - 1) + L
    <3>1. /\ L \in 1 .. L /\ j + 1 \in j + 1 .. N /\ (i - 1) + L + ((j + 1) - j) = k + 1
          /\ j \in 1 .. N - 1
      BY <1>2, <1>3, <1>5, <1>7, <2>4
    <3>2. new[k] = pieces[L] /\ new[k + 1] = map[j + 1]
      BY <1>6, <2>4, <3>1
    <3> QED BY <1>1, <1>4, <3>1, <3>2
  <2>5. CASE (i - 1) + L < k
    <3> DEFINE l == j + (k - (i - 1) - L)
    <3>1. /\ l \in j + 1 .. N /\ l + 1 \in j + 1 .. N /\ l \in 1 .. N - 1
          /\ (i - 1) + L + (l - j) = k /\ (i - 1) + L + ((l + 1) - j) = k + 1
      BY <1>2, <1>3, <1>5, <1>7, <2>5
    <3> HIDE DEF l
    <3>2. new[k] = map[l] /\ new[k + 1] = map[l + 1]
      BY <1>6, <3>1
    <3> QED BY <1>4, <3>1, <3>2
  <2> QED BY <1>2, <1>5, <1>7, <2>1, <2>2, <2>3, <2>4, <2>5
<1>8. new[1].base = first
  <2>1. CASE i = 1
    <3>1. 1 \in 1 .. L /\ (i - 1) + 1 = 1
      BY <1>2, <2>1
    <3>2. new[1] = pieces[1]
      BY <1>6, <3>1
    <3> QED BY <1>1, <2>1, <3>2
  <2>2. CASE i # 1
    <3>1. 1 \in 1 .. i - 1
      BY <1>5, <2>2
    <3> QED BY <1>1, <1>6, <3>1
  <2> QED BY <2>1, <2>2
<1>9. End(new[Len(new)]) = last
  <2>1. CASE j = N
    <3>1. L \in 1 .. L /\ (i - 1) + L = Len(new)
      BY <1>2, <1>3, <2>1
    <3>2. new[Len(new)] = pieces[L]
      BY <1>6, <3>1
    <3> QED BY <1>1, <2>1, <3>2
  <2>2. CASE j # N
    <3>1. N \in j + 1 .. N /\ (i - 1) + L + (N - j) = Len(new)
      BY <1>2, <1>3, <1>5, <2>2
    <3>2. new[Len(new)] = map[N]
      BY <1>6, <3>1
    <3> QED BY <1>1, <3>2
  <2> QED BY <2>1, <2>2
<1>10. Chain(new)
  <2>1. new # << >>
    BY <1>3, <1>5, EmptySeq
  <2> QED BY <1>3, <1>7, <2>1 DEF Chain
<1>11. ASSUME NEW m
       PROVE  m \in ToSet(new) <=>
                 m \in ToSet(pieces) \/ \E k \in 1 .. N : (k < i \/ j < k) /\ m = map[k]
  <2>0. ToSet(new) = {new[k] : k \in 1 .. Len(new)}
    BY <1>10, ChainType
  <2>1. ASSUME NEW k \in 1 .. Len(new), m = new[k]
        PROVE  m \in ToSet(pieces) \/ \E l \in 1 .. N : (l < i \/ j < l) /\ m = map[l]
    <3>1. CASE k <= i - 1
      <4>1. k \in 1 .. i - 1 /\ k \in 1 .. N /\ k < i
        BY <1>2, <1>5, <3>1
      <4> QED BY <1>6, <2>1, <4>1
    <3>2. CASE ~(k <= i - 1) /\ k <= (i - 1) + L
      <4>1. k - (i - 1) \in 1 .. L /\ (i - 1) + (k - (i - 1)) = k
        BY <1>2, <1>5, <3>2
      <4> QED BY <1>2, <1>6, <2>1, <4>1
    <3>3. CASE ~(k <= (i - 1) + L)
      <4> DEFINE l == j + (k - (i - 1) - L)
      <4>1. l \in j + 1 .. N /\ l \in 1 .. N /\ (i - 1) + L + (l - j) = k /\ j < l
        BY <1>2, <1>3, <1>5, <3>3
      <4> HIDE DEF l
      <4> QED BY <1>6, <2>1, <4>1
    <3> QED BY <3>1, <3>2, <3>3
  <2>2. ASSUME m \in ToSet(pieces) PROVE m \in ToSet(new)
    <3>1. PICK k \in 1 .. L : m = pieces[k]
      BY <1>2, <2>2
    <3>2. (i - 1) + k \in 1 .. Len(new)
      BY <1>2, <1>3, <1>5
    <3> QED BY <1>6, <2>0, <3>1, <3>2
  <2>3. ASSUME NEW k \in 1 .. N, k < i \/ j < k, m = map[k] PROVE m \in ToSet(new)
    <3>1. CASE k < i
      <4>1. k \in 1 .. i - 1 /\ k \in 1 .. Len(new)
        BY <1>2, <1>3, <1>5, <3>1
      <4> QED BY <1>6, <2>0, <2>3, <4>1
    <3>2. CASE j < k
      <4>1. k \in j + 1 .. N /\ (i - 1) + L + (k - j) \in 1 .. Len(new)
        BY <1>2, <1>3, <1>5, <3>2
      <4> QED BY <1>6, <2>0, <2>3, <4>1
    <3> QED BY <2>3, <3>1, <3>2
  <2> QED BY <2>0, <2>1, <2>2, <2>3
<1> QED
  BY <1>8, <1>9, <1>10, <1>11 DEF Covers, new, N

Flip(map, i, st) == [map EXCEPT ![i].status = st]

\* A piece is given away or taken back as it is.
LEMMA FlipChain ==
    ASSUME NEW map, NEW first, NEW last, Covers(map, first, last),
           NEW i \in 1 .. Len(map), NEW st \in {"L", "P"}
    PROVE  /\ Covers(Flip(map, i, st), first, last)
           /\ \A m : m \in ToSet(Flip(map, i, st)) <=>
                 m = Piece(st, map[i].base, map[i].qtd)
                   \/ \E k \in 1 .. Len(map) : k # i /\ m = map[k]
<1> DEFINE new == Flip(map, i, st)
           m0 == Piece(st, map[i].base, map[i].qtd)
<1>1. /\ Chain(map) /\ map[1].base = first /\ End(map[Len(map)]) = last
  BY DEF Covers
<1>2. /\ map \in Seq(Pieces) /\ DOMAIN map = 1 .. Len(map) /\ Len(map) \in Nat \ {0}
      /\ \A k \in 1 .. Len(map) : map[k] \in Pieces
  BY <1>1, ChainType
<1>3. map[i] \in Pieces
  BY <1>2
<1>4. /\ map[i].base \in Nat /\ map[i].qtd \in Nat \ {0} /\ End(map[i]) = map[i].base + map[i].qtd
  BY <1>3, PieceType
<1>5. m0 \in Pieces /\ m0.base = map[i].base /\ End(m0) = End(map[i])
  <2>1. /\ Piece(st, map[i].base, map[i].qtd) \in Pieces
        /\ Piece(st, map[i].base, map[i].qtd).base = map[i].base
        /\ End(Piece(st, map[i].base, map[i].qtd)) = map[i].base + map[i].qtd
    BY <1>4 DEF Piece, Pieces, End
  <2> QED BY <1>4, <2>1
<1>6. [map[i] EXCEPT !.status = st] = m0
  BY <1>3 DEF Pieces, Piece
<1>7. new = [map EXCEPT ![i] = m0]
  BY <1>2, <1>6 DEF Flip
<1> HIDE DEF new, m0
<1>8. /\ new \in Seq(Pieces) /\ Len(new) = Len(map)
      /\ \A k \in 1 .. Len(map) : new[k] = IF k = i THEN m0 ELSE map[k]
  BY <1>2, <1>5, <1>7, ExceptSeq
<1>9. \A k \in 1 .. Len(map) : new[k].base = map[k].base /\ End(new[k]) = End(map[k])
  BY <1>5, <1>8
<1>10. new # << >> /\ DOMAIN new = 1 .. Len(map)
  BY <1>2, <1>8, EmptySeq, LenProperties
<1>11. ASSUME NEW k \in 1 .. Len(new) - 1 PROVE End(new[k]) = new[k + 1].base
  <2>1. k \in 1 .. Len(map) - 1 /\ k \in 1 .. Len(map) /\ k + 1 \in 1 .. Len(map)
    BY <1>2, <1>8
  <2>2. End(map[k]) = map[k + 1].base
    BY <1>1, <2>1 DEF Chain
  <2> QED BY <1>9, <2>1, <2>2
<1>12. Chain(new)
  BY <1>8, <1>10, <1>11 DEF Chain
<1>13. 1 \in 1 .. Len(map) /\ Len(map) \in 1 .. Len(map)
  BY <1>2
<1>14. Covers(new, first, last)
  BY <1>1, <1>8, <1>9, <1>12, <1>13 DEF Covers
<1>15. \A m : m \in ToSet(new) <=> m = m0 \/ \E k \in 1 .. Len(map) : k # i /\ m = map[k]
  BY <1>8, <1>10 DEF ToSet
<1> QED
  BY <1>14, <1>15 DEF new, m0

-----------------------------------------------------------------------------
(* Lists without an element. *)

\* r keeps elements of s in their order.
Keeps(r, s) ==
    \A i, j \in 1 .. Len(r) : i < j =>
       \E k, l \in 1 .. Len(s) : k < l /\ r[i] = s[k] /\ r[j] = s[l]

LEMMA RemoveKeeps ==
    ASSUME NEW S, NEW s \in Seq(S), NEW e
    PROVE  /\ RemoveFirst(s, e) \in Seq(S) /\ Len(RemoveFirst(s, e)) <= Len(s)
           /\ ToSet(RemoveFirst(s, e)) \subseteq ToSet(s)
           /\ ToSet(s) \subseteq ToSet(RemoveFirst(s, e)) \union {e}
           /\ IsInjective(s) => /\ IsInjective(RemoveFirst(s, e))
                                /\ ToSet(RemoveFirst(s, e)) = ToSet(s) \ {e}
           /\ Keeps(RemoveFirst(s, e), s)
           /\ \A k \in 1 .. Len(s) : s[k] # e => \E i \in 1 .. Len(RemoveFirst(s, e)) : RemoveFirst(s, e)[i] = s[k]
<1> DEFINE r == RemoveFirst(s, e)
           Where == {i \in 1 .. Len(s) : s[i] = e}
<1>1. Len(s) \in Nat /\ DOMAIN s = 1 .. Len(s) /\ \A i \in 1 .. Len(s) : s[i] \in S
  BY LenProperties, ElementOfSeq
<1>2. CASE Where = {}
  <2>1. ~\E i \in 1 .. Len(s) : s[i] = e
    BY <1>2
  <2>2. r = s
    BY <2>1 DEF RemoveFirst
  <2>3. e \notin ToSet(s)
    BY <1>1, <2>1 DEF ToSet
  <2>4. Keeps(s, s)
    BY DEF Keeps
  <2> QED BY <1>1, <2>2, <2>3, <2>4
<1>3. CASE Where # {}
  <2>1. \E i \in 1 .. Len(s) : s[i] = e
    BY <1>3
  <2>2. SelectInSeq(s, LAMBDA v : v = e) = Min(Where)
    BY <1>3 DEF SelectInSeq
  <2>3. Min(Where) \in Where
    <3>1. Where \subseteq Nat
      OBVIOUS
    <3> HIDE DEF Where
    <3> QED BY <1>3, <3>1, MinIn
  <2>4. PICK n \in 1 .. Len(s) : n = Min(Where) /\ s[n] = e
    BY <2>3
  <2> HIDE DEF Where
  <2>5. r = SubSeq(s, 1, n - 1) \o SubSeq(s, n + 1, Len(s))
    BY <2>1, <2>2, <2>4 DEF RemoveFirst, RemoveAt
  <2>6. SubSeq(s, 1, n - 1) \in Seq(S)
    <3>1. \A i \in 1 .. n - 1 : s[i] \in S
      BY <1>1, <2>4
    <3>2. 1 \in Int /\ n - 1 \in Int
      BY <2>4
    <3> QED BY <3>1, <3>2, SubSeqProperties
  <2>7. r = Replace(s, n, n, << >>)
    BY <2>5, <2>6, ConcatEmptySeq DEF Replace
  <2> HIDE DEF r
  <2>8. /\ r \in Seq(S) /\ Len(r) = Len(s) - 1
        /\ \A k \in 1 .. Len(r) : r[k] = IF k <= n - 1 THEN s[k] ELSE s[k + 1]
    <3> DEFINE none == << >>
    <3>1. n \in n .. Len(s) /\ none \in Seq(S)
      BY <2>4, EmptySeq
    <3>5. Len(none) = 0
      BY EmptySeq
    <3>0. r = Replace(s, n, n, none)
      BY <2>7
    <3> HIDE DEF none
    <3>2. /\ r \in Seq(S) /\ Len(r) = (n - 1) + Len(none) + (Len(s) - n)
          /\ \A k \in 1 .. Len(r) : r[k] =
               IF k <= n - 1 THEN s[k]
               ELSE IF k <= (n - 1) + Len(none) THEN none[k - (n - 1)]
               ELSE s[n + (k - (n - 1) - Len(none))]
      <4> DEFINE q == Replace(s, n, n, none)
      <4>1. /\ q \in Seq(S) /\ Len(q) = (n - 1) + Len(none) + (Len(s) - n)
            /\ \A k \in 1 .. Len(q) : q[k] =
                 IF k <= n - 1 THEN s[k]
                 ELSE IF k <= (n - 1) + Len(none) THEN none[k - (n - 1)]
                 ELSE s[n + (k - (n - 1) - Len(none))]
        <5>1. s \in Seq(S) /\ n \in 1 .. Len(s)
          OBVIOUS
        <5> QED BY <3>1, <5>1, ReplaceIs
      <4> QED BY <3>0, <4>1
    <3>3. Len(r) = Len(s) - 1
      BY <1>1, <2>4, <3>5, <3>2
    <3>4. ASSUME NEW k \in 1 .. Len(r) PROVE r[k] = IF k <= n - 1 THEN s[k] ELSE s[k + 1]
      <4>1. n + (k - (n - 1) - 0) = k + 1 /\ (k <= (n - 1) + 0 <=> k <= n - 1)
        BY <1>1, <2>4, <3>3
      <4> QED BY <3>5, <3>2, <4>1
    <3> QED BY <3>2, <3>3, <3>4
  <2>9. DOMAIN r = 1 .. Len(r)
    BY <2>8, LenProperties
  <2> DEFINE from == [k \in 1 .. Len(r) |-> IF k <= n - 1 THEN k ELSE k + 1]
  <2>10. /\ \A k \in 1 .. Len(r) : from[k] \in 1 .. Len(s) /\ from[k] # n /\ r[k] = s[from[k]]
         /\ \A k, l \in 1 .. Len(r) : k < l => from[k] < from[l]
    BY <1>1, <2>4, <2>8
  <2>11. \A k \in 1 .. Len(s) : k # n => \E i \in 1 .. Len(r) : from[i] = k
    <3> TAKE k \in 1 .. Len(s)
    <3>1. CASE k < n
      <4>1. k \in 1 .. Len(r) /\ from[k] = k
        BY <1>1, <2>4, <2>8, <3>1
      <4> QED BY <4>1
    <3>2. CASE k > n
      <4>1. k - 1 \in 1 .. Len(r) /\ from[k - 1] = k
        BY <1>1, <2>4, <2>8, <3>2
      <4> QED BY <4>1
    <3> QED BY <2>4, <3>1, <3>2
  <2> HIDE DEF from
  <2>12. Keeps(r, s)
    BY <2>10 DEF Keeps
  <2>13. ToSet(r) \subseteq ToSet(s)
    BY <1>1, <2>9, <2>10 DEF ToSet
  <2>14. \A k \in 1 .. Len(s) : k # n => s[k] \in ToSet(r)
    BY <2>9, <2>10, <2>11 DEF ToSet
  <2>15. ToSet(s) \subseteq ToSet(r) \union {e}
    BY <1>1, <2>4, <2>14 DEF ToSet
  <2>16. ASSUME IsInjective(s) PROVE IsInjective(r) /\ e \notin ToSet(r)
    <3>1. \A i, j \in 1 .. Len(s) : s[i] = s[j] => i = j
      BY <1>1, <2>16 DEF IsInjective
    <3>2. ASSUME NEW i \in 1 .. Len(r), NEW j \in 1 .. Len(r), r[i] = r[j] PROVE i = j
      <4>1. from[i] = from[j]
        BY <2>10, <3>1, <3>2
      <4>2. ~(from[i] < from[j]) /\ ~(from[j] < from[i])
        BY <2>10, <4>1
      <4> QED BY <2>8, <2>10, <4>2, <1>1
    <3>3. \A i \in 1 .. Len(r) : r[i] # e
      BY <2>4, <2>10, <3>1
    <3> QED BY <2>9, <3>2, <3>3 DEF IsInjective, ToSet
  <2>17. \A k \in 1 .. Len(s) : s[k] # e => \E i \in 1 .. Len(r) : r[i] = s[k]
    BY <2>4, <2>10, <2>11
  <2> QED BY <1>1, <2>8, <2>12, <2>13, <2>15, <2>16, <2>17 DEF r
<1> QED
  BY <1>2, <1>3

\* A list leads to different numbers.
Fresh(list) == list \in Seq(Nat) /\ IsInjective(list)

StillTurn(map, first, s, n, list) ==
    IF n < first THEN list
    ELSE IF map[n].qtd = s THEN RemoveFirst(list, map[n].base) ELSE list

StillLoop(map, lists, span, s, left) ==
    left = [n \in 0 .. span[2] |->
              IF n < span[1] THEN lists[s]
              ELSE IF map[n].qtd = s THEN RemoveFirst(left[n - 1], map[n].base) ELSE left[n - 1]]

LEMMA StillIsLoop ==
    \A map, lists, span, s :
       StillListed(map, lists, span, s) = (CHOOSE left : StillLoop(map, lists, span, s, left))[span[2]]
BY DEF StillListed, StillLoop

LEMMA StillTurnFresh ==
    ASSUME NEW map, NEW first, NEW s, NEW n, NEW list, Fresh(list)
    PROVE  /\ Fresh(StillTurn(map, first, s, n, list))
           /\ ToSet(StillTurn(map, first, s, n, list)) =
                 {b \in ToSet(list) : ~(~(n < first) /\ map[n].qtd = s /\ map[n].base = b)}
<1>1. list \in Seq(Nat) /\ IsInjective(list)
  BY DEF Fresh
<1>2. \A e : Fresh(RemoveFirst(list, e)) /\ ToSet(RemoveFirst(list, e)) = ToSet(list) \ {e}
  BY <1>1, RemoveKeeps DEF Fresh
<1>3. CASE ~(n < first) /\ map[n].qtd = s
  <2>1. StillTurn(map, first, s, n, list) = RemoveFirst(list, map[n].base)
    BY <1>3 DEF StillTurn
  <2>2. /\ Fresh(RemoveFirst(list, map[n].base))
        /\ ToSet(RemoveFirst(list, map[n].base)) = ToSet(list) \ {map[n].base}
    BY <1>2
  <2> QED BY <1>3, <2>1, <2>2
<1>4. CASE ~(~(n < first) /\ map[n].qtd = s)
  <2>1. StillTurn(map, first, s, n, list) = list
    BY <1>4 DEF StillTurn
  <2> QED BY <1>4, <2>1
<1> QED
  BY <1>3, <1>4

\* The pieces of the span, and no others, have left the list.
LEMMA StillIs ==
    ASSUME NEW map, NEW lists, NEW s, NEW span, span[2] \in Nat, span[1] \in 1 .. span[2],
           Fresh(lists[s])
    PROVE  /\ Fresh(StillListed(map, lists, span, s))
           /\ ToSet(StillListed(map, lists, span, s)) =
                 {b \in ToSet(lists[s]) :
                    ~\E n \in span[1] .. span[2] : map[n].qtd = s /\ map[n].base = b}
<1> DEFINE S == {list \in Seq(Nat) : Fresh(list)}
           list0 == lists[s]
           turn == [n \in 1 .. span[2] |-> [list \in S |-> StillTurn(map, span[1], s, n, list)]]
           e == CHOOSE left : StillLoop(map, lists, span, s, left)
<1>1. list0 \in S
  BY DEF Fresh
<1>2. \A n : \A list \in S : StillTurn(map, span[1], s, n, list) \in S
  <2> TAKE n
  <2> TAKE list \in S
  <2>1. Fresh(list)
    OBVIOUS
  <2>2. Fresh(StillTurn(map, span[1], s, n, list))
    BY <2>1, StillTurnFresh
  <2> QED BY <2>2 DEF Fresh
<1>3. turn \in LoopTurns(S, span[2])
  <2>1. \A n \in 1 .. span[2] : [list \in S |-> StillTurn(map, span[1], s, n, list)] \in [S -> S]
    BY <1>2
  <2> HIDE DEF S
  <2> QED BY <2>1 DEF LoopTurns
<1>4. StillLoop(map, lists, span, s, e)
  <2>1. \A n \in 1 .. span[2] : \A list \in S : turn[n][list] = StillTurn(map, span[1], s, n, list)
    OBVIOUS
  <2> HIDE DEF S, turn, list0
  <2>2. PICK f : Loop(S, span[2], list0, turn, f)
    BY <1>1, <1>3, LoopExists
  <2>3. /\ f \in [0 .. span[2] -> S] /\ f[0] = list0
        /\ \A n \in 1 .. span[2] : f[n] = StillTurn(map, span[1], s, n, f[n - 1])
    <3>1. /\ f \in [0 .. span[2] -> S] /\ f[0] = list0
          /\ \A n \in 1 .. span[2] : f[n] = turn[n][f[n - 1]]
      BY <2>2 DEF Loop
    <3>2. \A n \in 1 .. span[2] : f[n - 1] \in S
      BY <3>1
    <3> QED BY <2>1, <3>1, <3>2
  <2>4. \A n \in 0 .. span[2] : n < span[1] => f[n] = list0
    <3> DEFINE G == {n \in Nat : n < span[1] => f[n] = list0}
    <3>1. 0 \in G
      BY <2>3
    <3>2. ASSUME NEW n \in Nat, n \in G PROVE n + 1 \in G
      <4>1. SUFFICES ASSUME n + 1 < span[1] PROVE f[n + 1] = list0
        OBVIOUS
      <4>2. n + 1 \in 1 .. span[2] /\ (n + 1) - 1 = n /\ n < span[1]
        BY <4>1
      <4>3. f[n + 1] = StillTurn(map, span[1], s, n + 1, f[n])
        BY <2>3, <4>2
      <4> QED BY <3>2, <4>1, <4>2, <4>3 DEF StillTurn
    <3> HIDE DEF G
    <3>3. \A n \in Nat : n \in G
      BY <3>1, <3>2, NaturalInduction
    <3> QED BY <3>3 DEF G
  <2>5. \A n \in 0 .. span[2] : f[n] =
           IF n < span[1] THEN lists[s]
           ELSE IF map[n].qtd = s THEN RemoveFirst(f[n - 1], map[n].base) ELSE f[n - 1]
    <3> TAKE n \in 0 .. span[2]
    <3>1. CASE n < span[1]
      BY <2>4, <3>1 DEF list0
    <3>2. CASE ~(n < span[1])
      <4>1. n \in 1 .. span[2]
        BY <3>2
      <4> QED BY <2>3, <3>2, <4>1 DEF StillTurn
    <3> QED BY <3>1, <3>2
  <2>6. StillLoop(map, lists, span, s, f)
    BY <2>3, <2>5 DEF StillLoop
  <2> QED BY <2>6
<1> HIDE DEF e
<1>5. \A n \in 0 .. span[2] : e[n] =
         IF n < span[1] THEN lists[s]
         ELSE IF map[n].qtd = s THEN RemoveFirst(e[n - 1], map[n].base) ELSE e[n - 1]
  BY <1>4 DEF StillLoop
<1> DEFINE Left(n) == {b \in ToSet(lists[s]) :
                         ~\E k \in span[1] .. n : map[k].qtd = s /\ map[k].base = b}
           I == [n \in 0 .. span[2] |-> {list \in S : ToSet(list) = Left(n)}]
<1>6. e[0] \in I[0]
  <2>1. e[0] = lists[s] /\ 0 \in 0 .. span[2]
    BY <1>5
  <2>2. Left(0) = ToSet(lists[s])
    OBVIOUS
  <2> QED BY <1>1, <2>1, <2>2
<1>7. ASSUME NEW n \in 1 .. span[2], e[n - 1] \in I[n - 1] PROVE e[n] \in I[n]
  <2>1. n - 1 \in 0 .. span[2] /\ n \in 0 .. span[2]
    OBVIOUS
  <2>2. e[n - 1] \in S /\ Fresh(e[n - 1]) /\ ToSet(e[n - 1]) = Left(n - 1)
    BY <1>7, <2>1
  <2>3. CASE n < span[1]
    <3>1. e[n] = lists[s]
      BY <1>5, <2>1, <2>3
    <3>2. Left(n) = ToSet(lists[s])
      BY <2>3
    <3> QED BY <1>1, <2>1, <3>1, <3>2
  <2>4. CASE ~(n < span[1])
    <3> DEFINE next == StillTurn(map, span[1], s, n, e[n - 1])
    <3>1. e[n] = next
      BY <1>5, <2>1, <2>4 DEF StillTurn
    <3>2. /\ Fresh(next)
          /\ ToSet(next) = {b \in ToSet(e[n - 1]) : ~(~(n < span[1]) /\ map[n].qtd = s /\ map[n].base = b)}
      BY <2>2, StillTurnFresh
    <3> HIDE DEF next
    <3>3. ToSet(next) = {b \in Left(n - 1) : ~(map[n].qtd = s /\ map[n].base = b)}
      BY <2>2, <2>4, <3>2
    <3>4. \A k : k \in span[1] .. n <=> k \in span[1] .. n - 1 \/ k = n
      BY <2>4
    <3>5. ToSet(next) = Left(n)
      BY <3>3, <3>4
    <3> QED BY <2>1, <3>1, <3>2, <3>5 DEF Fresh
  <2> QED BY <2>3, <2>4
<1>8. e[span[2]] \in I[span[2]]
  <2> HIDE DEF I
  <2>1. \A n \in 1 .. span[2] : e[n - 1] \in I[n - 1] => e[n] \in I[n]
    BY <1>7
  <2>2. \A n \in 0 .. span[2] : e[n] \in I[n]
    BY <1>6, <2>1, LoopInvariant
  <2> QED BY <2>2
<1>9. StillListed(map, lists, span, s) = e[span[2]]
  BY StillIsLoop DEF e
<1>10. Fresh(e[span[2]]) /\ ToSet(e[span[2]]) = Left(span[2])
  BY <1>8
<1> QED
  BY <1>9, <1>10

-----------------------------------------------------------------------------
(* malloc. *)

\* Every list leads to free pieces of its size.
ListsFresh(map, lists) ==
    /\ DOMAIN lists \subseteq Nat \ {0}
    /\ \A s \in DOMAIN lists :
         Fresh(lists[s]) /\ \A b \in ToSet(lists[s]) : Piece("L", b, s) \in ToSet(map)

\* The free pieces from the first to the last of the pair have room for n pages.
Room(map, span, n) ==
    /\ span[1] \in 1 .. Len(map) /\ span[2] \in span[1] .. Len(map)
    /\ \A k \in span[1] .. span[2] : IsFree(map, k)
    /\ End(map[span[2]]) - map[span[1]].base >= n

LEMMA FittingRoom ==
    ASSUME NEW map, Chain(map), NEW n \in Nat, NEW i \in Fitting(map, n)
    PROVE  Room(map, <<i, i>>, n)
<1>1. i \in 1 .. Len(map) /\ IsFree(map, i) /\ n <= map[i].qtd /\ map[i] \in Pieces
  BY ChainType DEF Fitting
<1>2. map[i].base \in Nat /\ map[i].qtd \in Nat /\ End(map[i]) = map[i].base + map[i].qtd
  BY <1>1, PieceType
<1>3. i .. i = {i} /\ i \in i .. Len(map)
  BY <1>1, ChainType
<1>4. End(map[i]) - map[i].base >= n
  BY <1>1, <1>2
<1> QED
  BY <1>1, <1>3, <1>4 DEF Room

LEMMA BestIn ==
    ASSUME NEW map, NEW first, NEW last, Covers(map, first, last), NEW n \in Nat,
           Fitting(map, n) # {}
    PROVE  BestPiece(map, n) \in Fitting(map, n) /\ WorstPiece(map, n) \in Fitting(map, n)
<1> DEFINE F == Fitting(map, n)
           Best == {i \in F : \A j \in F : map[i].qtd <= map[j].qtd}
           Worst == {i \in F : \A j \in F : map[i].qtd >= map[j].qtd}
           small == {map[i].qtd : i \in F}
           large == {last - map[i].qtd : i \in F}
<1>1. Chain(map)
  BY DEF Covers
<1>2. F \subseteq 1 .. Len(map) /\ \A i \in 1 .. Len(map) : map[i] \in Pieces
  BY <1>1, ChainType DEF Fitting
<1>3. \A i \in F : map[i].qtd \in Nat /\ map[i].qtd <= last
  <2> TAKE i \in F
  <2>1. map[i].base \in Nat /\ map[i].qtd \in Nat /\ End(map[i]) = map[i].base + map[i].qtd
    BY <1>2, PieceType
  <2>2. last \in Nat /\ End(map[i]) <= last
    BY <1>2, ChainWithin
  <2> QED BY <2>1, <2>2
<1>4. last \in Nat
  BY ChainWithin
<1> HIDE DEF F
<1>5. small \subseteq Nat /\ large \subseteq Nat /\ small # {} /\ large # {}
  BY <1>3, <1>4 DEF F
<1>6. Best # {}
  <2> HIDE DEF small
  <2>1. PICK x \in small : \A y \in small : x <= y
    BY <1>5, LeastNat
  <2> QED BY <2>1 DEF small
<1>7. Worst # {}
  <2>0. \E x \in large : \A y \in large : x <= y
    <3> HIDE DEF large
    <3> QED BY <1>5, LeastNat
  <2>1. PICK i \in F : \A j \in F : last - map[i].qtd <= last - map[j].qtd
    BY <2>0
  <2>2. \A j \in F : map[i].qtd >= map[j].qtd
    BY <1>3, <1>4, <2>1
  <2> QED BY <2>2
<1>8. Best \subseteq Nat /\ Worst \subseteq Nat
  <2>1. Best \subseteq F /\ Worst \subseteq F
    OBVIOUS
  <2>2. F \subseteq Nat
    <3>1. 1 .. Len(map) \subseteq Nat
      OBVIOUS
    <3> QED BY <1>2, <3>1
  <2> QED BY <2>1, <2>2
<1>9. BestPiece(map, n) = Min(Best) /\ WorstPiece(map, n) = Min(Worst)
  BY DEF BestPiece, WorstPiece, F
<1>10. Min(Best) \in Best
  <2> HIDE DEF Best
  <2> QED BY <1>6, <1>8, MinIn
<1>11. Min(Worst) \in Worst
  <2> HIDE DEF Worst
  <2> QED BY <1>7, <1>8, MinIn
<1> QED
  BY <1>9, <1>10, <1>11 DEF F

LEMMA FirstSpanIn ==
    ASSUME NEW map, Chain(map), NEW n \in Nat, Spans(map, n) # {}
    PROVE  Room(map, FirstSpan(map, n), n)
<1> DEFINE S == Spans(map, n)
           Firsts == {s[1] : s \in S}
<1>1. DOMAIN map = 1 .. Len(map)
  BY ChainType
<1>2. \A s \in S : s \in (1 .. Len(map)) \X (1 .. Len(map)) /\ Room(map, s, n)
  <2> TAKE s \in S
  <2>1. /\ s \in (1 .. Len(map)) \X (1 .. Len(map))
        /\ \A k \in s[1] .. s[2] : IsFree(map, k)
        /\ s[1] <= s[2] /\ End(map[s[2]]) - map[s[1]].base >= n
    BY <1>1 DEF Spans
  <2>2. s[1] \in 1 .. Len(map) /\ s[2] \in 1 .. Len(map)
    BY <2>1
  <2>3. s[2] \in s[1] .. Len(map)
    BY <2>1, <2>2
  <2> QED BY <2>1, <2>2, <2>3 DEF Room
<1>3. \A s \in S : s[1] \in Nat /\ s[2] \in Nat
  BY <1>2 DEF Room
<1> HIDE DEF S
<1>4. \E x \in Firsts : \A y \in Firsts : x <= y
  <2>1. Firsts \subseteq Nat /\ Firsts # {}
    BY <1>3 DEF S
  <2> HIDE DEF Firsts
  <2> QED BY <2>1, LeastNat
<1>5. PICK s0 \in S : \A t \in S : s0[1] <= t[1]
  BY <1>4
<1> DEFINE Seconds == {s[2] : s \in {t \in S : t[1] = s0[1]}}
<1>6. \E x \in Seconds : \A y \in Seconds : x <= y
  <2>1. Seconds \subseteq Nat /\ Seconds # {}
    BY <1>3
  <2> HIDE DEF Seconds
  <2> QED BY <2>1, LeastNat
<1>7. PICK s1 \in S : s1[1] = s0[1] /\ \A t \in S : t[1] = s0[1] => s1[2] <= t[2]
  BY <1>6
<1>8. \A t \in S : s1[1] < t[1] \/ (s1[1] = t[1] /\ s1[2] <= t[2])
  <2> TAKE t \in S
  <2>1. s0[1] <= t[1] /\ s0[1] \in Nat /\ t[1] \in Nat
    BY <1>3, <1>5
  <2> QED BY <1>7, <2>1
<1>9. FirstSpan(map, n) \in S
  BY <1>8 DEF FirstSpan, S
<1> QED
  BY <1>2, <1>9

LEMMA SpanRoom ==
    ASSUME NEW manager \in Managers, NEW map, NEW first, NEW last, Covers(map, first, last),
           NEW lists, NEW n \in Nat,
           HasSpace(manager, map, lists, n), ~Listed(lists, n)
    PROVE  Room(map, Span(manager, map, n), n)
<1>1. Chain(map)
  BY DEF Covers
<1>2. CASE manager = "BestFit"
  <2>1. Span(manager, map, n) = <<BestPiece(map, n), BestPiece(map, n)>>
    BY <1>2, Zenon DEF Span
  <2>2. Fitting(map, n) # {}
    BY <1>2 DEF HasSpace
  <2>3. BestPiece(map, n) \in Fitting(map, n)
    BY <2>2, BestIn
  <2> QED BY <1>1, <2>1, <2>3, FittingRoom
<1>3. CASE manager = "WorstFit"
  <2>1. Span(manager, map, n) = <<WorstPiece(map, n), WorstPiece(map, n)>>
    BY <1>3, Zenon DEF Span
  <2>2. Fitting(map, n) # {}
    BY <1>3 DEF HasSpace
  <2>3. WorstPiece(map, n) \in Fitting(map, n)
    BY <2>2, BestIn
  <2> QED BY <1>1, <2>1, <2>3, FittingRoom
<1>4. CASE manager = "QuickFit"
  <2>1. Span(manager, map, n) = FirstSpan(map, n)
    BY <1>4, Zenon DEF Span
  <2>2. Spans(map, n) # {}
    BY <1>4 DEF HasSpace
  <2> QED BY <1>1, <2>1, <2>2, FirstSpanIn
<1> QED
  BY <1>2, <1>3, <1>4 DEF Managers

\* One piece, or two, that cover the numbers from a to c.
LEMMA OnePiece ==
    ASSUME NEW st \in {"L", "P"}, NEW a \in Nat, NEW c \in Nat, a < c
    PROVE  /\ Covers(<<Piece(st, a, c - a)>>, a, c)
           /\ ToSet(<<Piece(st, a, c - a)>>) = {Piece(st, a, c - a)}
<1> DEFINE p == Piece(st, a, c - a)
           s == <<p>>
<1>1. p \in Pieces /\ p.base = a /\ End(p) = c
  BY DEF Piece, Pieces, End
<1> HIDE DEF p
<1>2. s \in Seq(Pieces) /\ Len(s) = 1 /\ s[1] = p /\ s # << >> /\ DOMAIN s = 1 .. 1
  BY <1>1
<1>3. ToSet(s) = {p}
  BY <1>2 DEF ToSet
<1>4. Covers(s, a, c)
  <2> HIDE DEF s
  <2> QED BY <1>1, <1>2 DEF Covers, Chain
<1> QED
  BY <1>3, <1>4 DEF p

LEMMA TwoPieces ==
    ASSUME NEW a \in Nat, NEW b \in Nat, NEW c \in Nat, a < b, b < c
    PROVE  /\ Covers(<<Piece("P", a, b - a), Piece("L", b, c - b)>>, a, c)
           /\ ToSet(<<Piece("P", a, b - a), Piece("L", b, c - b)>>) =
                 {Piece("P", a, b - a), Piece("L", b, c - b)}
<1> DEFINE p == Piece("P", a, b - a)
           q == Piece("L", b, c - b)
           s == <<p, q>>
<1>1. p \in Pieces /\ p.base = a /\ End(p) = b /\ q \in Pieces /\ q.base = b /\ End(q) = c
  BY DEF Piece, Pieces, End
<1> HIDE DEF p, q
<1>2. s \in Seq(Pieces) /\ Len(s) = 2 /\ s[1] = p /\ s[2] = q /\ s # << >> /\ DOMAIN s = 1 .. 2
  BY <1>1
<1>3. ToSet(s) = {p, q}
  BY <1>2 DEF ToSet
<1>4. Covers(s, a, c)
  <2> HIDE DEF s
  <2>1. \A i \in 1 .. Len(s) - 1 : i = 1
    BY <1>2
  <2> QED BY <1>1, <1>2, <2>1 DEF Covers, Chain
<1> QED
  BY <1>3, <1>4 DEF p, q

\* What malloc promises: a free place for n pages is used now, the rest is as
\* before, and the lists lead to free pieces.
Given(map, lists, new, last, n) ==
    /\ Covers(new.map, 0, last) /\ ListsFresh(new.map, new.refs)
    /\ DOMAIN new.refs = DOMAIN lists
    /\ new.base \in Nat /\ new.base + n <= last
    /\ Used(new.map) = Used(map) \union {Piece("P", new.base, n)}
    /\ \A m \in Used(map) : End(m) <= new.base \/ new.base + n <= m.base

\* The pieces outside of a free span: the used ones are among them and are
\* clear of the span.
Clear(map, last, i, j, n) ==
    /\ map[i].base \in Nat /\ map[i].base + n <= last
    /\ \A m : m \in Used(map) <=>
          m.status = "P" /\ \E k \in 1 .. Len(map) : (k < i \/ j < k) /\ m = map[k]
    /\ \A k \in 1 .. Len(map) : k < i => End(map[k]) <= map[i].base
    /\ \A k \in 1 .. Len(map) : j < k => End(map[j]) <= map[k].base
    /\ \A m \in Used(map) : End(m) <= map[i].base \/ map[i].base + n <= m.base

LEMMA SpanClear ==
    ASSUME NEW map, NEW last, Covers(map, 0, last),
           NEW i \in 1 .. Len(map), NEW j \in i .. Len(map),
           \A k \in i .. j : IsFree(map, k),
           NEW n \in Nat, map[i].base + n <= End(map[j])
    PROVE  Clear(map, last, i, j, n)
<1>1. Chain(map)
  BY DEF Covers
<1>2. /\ Len(map) \in Nat /\ ToSet(map) = {map[k] : k \in 1 .. Len(map)}
      /\ \A k \in 1 .. Len(map) : map[k] \in Pieces
  BY <1>1, ChainType
<1>3. \A k \in 1 .. Len(map) :
         map[k].base \in Nat /\ End(map[k]) \in Nat /\ map[k].base < End(map[k])
  BY <1>2, PieceType
<1>4. j \in 1 .. Len(map)
  BY <1>2
<1>5. /\ \A k \in 1 .. Len(map) : k < i => End(map[k]) <= map[i].base
      /\ \A k \in 1 .. Len(map) : j < k => End(map[j]) <= map[k].base
  BY <1>1, <1>4, ChainOrder
<1>6. End(map[j]) <= last /\ last \in Nat
  BY <1>4, ChainWithin
<1>7. \A k \in 1 .. Len(map) : map[k].status = "P" => k < i \/ j < k
  <2> SUFFICES ASSUME NEW k \in 1 .. Len(map), map[k].status = "P", ~(k < i \/ j < k)
               PROVE  FALSE
    OBVIOUS
  <2>1. k \in i .. j
    BY <1>2
  <2> QED BY <2>1 DEF IsFree
<1>8. ASSUME NEW m
      PROVE  m \in Used(map) <=>
                m.status = "P" /\ \E k \in 1 .. Len(map) : (k < i \/ j < k) /\ m = map[k]
  BY <1>2, <1>7 DEF Used
<1>9. ASSUME NEW m \in Used(map)
      PROVE  End(m) <= map[i].base \/ map[i].base + n <= m.base
  <2>1. PICK k \in 1 .. Len(map) : (k < i \/ j < k) /\ m = map[k]
    BY <1>8
  <2>2. CASE k < i
    BY <1>5, <2>1, <2>2
  <2>3. CASE j < k
    BY <1>3, <1>4, <1>5, <2>1, <2>3
  <2> QED BY <2>1, <2>2, <2>3
<1> QED
  BY <1>3, <1>4, <1>5, <1>6, <1>8, <1>9 DEF Clear

LEMMA MallocFromListGives ==
    ASSUME NEW map, NEW last, Covers(map, 0, last),
           NEW lists, ListsFresh(map, lists), NEW n \in Nat \ {0}, Listed(lists, n)
    PROVE  Given(map, lists, MallocFromList(map, lists, n), last, n)
<1> DEFINE list == lists[n]
           b == Last(list)
           new == MallocFromList(map, lists, n)
<1>1. Chain(map)
  BY DEF Covers
<1>2. /\ Len(map) \in Nat /\ ToSet(map) = {map[k] : k \in 1 .. Len(map)}
      /\ \A k \in 1 .. Len(map) : map[k] \in Pieces
  BY <1>1, ChainType
<1>3. /\ n \in DOMAIN lists /\ list # << >> /\ list \in Seq(Nat) /\ IsInjective(list)
      /\ \A x \in ToSet(list) : Piece("L", x, n) \in ToSet(map)
  BY DEF Listed, ListsFresh, Fresh
<1> HIDE DEF list
<1>4. /\ Len(list) \in Nat \ {0} /\ DOMAIN list = 1 .. Len(list) /\ b = list[Len(list)]
      /\ b \in Nat /\ b \in ToSet(list)
  <2>1. Len(list) \in Nat \ {0} /\ DOMAIN list = 1 .. Len(list)
    BY <1>3, LenProperties, EmptySeq
  <2>2. b = list[Len(list)]
    BY DEF Last
  <2> QED BY <1>3, <2>1, <2>2, ElementOfSeq DEF ToSet
<1>5. PICK i \in 1 .. Len(map) : map[i] = Piece("L", b, n)
  BY <1>2, <1>3, <1>4
<1>6. map[i].base = b /\ map[i].qtd = n /\ map[i].status = "L" /\ End(map[i]) = b + n
  BY <1>5 DEF Piece, End
<1>7. At(map, b) = i
  BY <1>1, <1>6, AtIs
<1>8. Front(list) \in Seq(Nat) /\ Fresh(Front(list)) /\ ToSet(Front(list)) = ToSet(list) \ {b}
  <2>1. Front(list) = SubSeq(list, 1, Len(list) - 1)
    BY DEF Front
  <2>2. \A k \in 1 .. Len(list) - 1 : list[k] \in Nat
    BY <1>3, <1>4, ElementOfSeq
  <2>3. /\ Front(list) \in Seq(Nat) /\ Len(Front(list)) = Len(list) - 1
        /\ \A k \in 1 .. Len(list) - 1 : Front(list)[k] = list[k]
    <3>1. /\ SubSeq(list, 1, Len(list) - 1) \in Seq(Nat)
          /\ Len(SubSeq(list, 1, Len(list) - 1)) = IF 1 <= Len(list) - 1 THEN (Len(list) - 1) - 1 + 1 ELSE 0
          /\ \A k \in 1 .. (Len(list) - 1) - 1 + 1 : SubSeq(list, 1, Len(list) - 1)[k] = list[1 + k - 1]
      <4>1. 1 \in Int /\ Len(list) - 1 \in Int
        BY <1>4
      <4> QED BY <2>2, <4>1, SubSeqProperties
    <3>2. (Len(list) - 1) - 1 + 1 = Len(list) - 1 /\ \A k \in 1 .. Len(list) - 1 : 1 + k - 1 = k
      BY <1>4
    <3>3. ~(1 <= Len(list) - 1) => Len(list) - 1 = 0
      BY <1>4
    <3> QED BY <2>1, <3>1, <3>2, <3>3
  <2>4. DOMAIN Front(list) = 1 .. Len(list) - 1
    BY <2>3, LenProperties
  <2>5. \A k, l \in 1 .. Len(list) : list[k] = list[l] => k = l
    BY <1>3, <1>4 DEF IsInjective
  <2>6. IsInjective(Front(list))
    <3>1. \A k \in 1 .. Len(list) - 1 : k \in 1 .. Len(list)
      BY <1>4
    <3> QED BY <2>3, <2>4, <2>5, <3>1 DEF IsInjective
  <2>7. ASSUME NEW x PROVE x \in ToSet(Front(list)) <=> x \in ToSet(list) /\ x # b
    <3>1. x \in ToSet(Front(list)) <=> \E k \in 1 .. Len(list) - 1 : x = list[k]
      BY <2>3, <2>4 DEF ToSet
    <3>2. x \in ToSet(list) <=> \E k \in 1 .. Len(list) : x = list[k]
      BY <1>4 DEF ToSet
    <3>0. Len(list) \in Nat \ {0}
      BY <1>4
    <3>3. \A k \in 1 .. Len(list) : k = Len(list) \/ k \in 1 .. Len(list) - 1
      BY <3>0
    <3>4. \A k \in 1 .. Len(list) - 1 : k \in 1 .. Len(list) /\ k # Len(list) /\ Len(list) \in 1 .. Len(list)
      BY <3>0
    <3> QED BY <1>4, <2>5, <3>1, <3>2, <3>3, <3>4
  <2> QED BY <2>3, <2>6, <2>7 DEF Fresh
<1>9. /\ new.map = Flip(map, i, "P") /\ new.refs = [lists EXCEPT ![n] = Front(list)] /\ new.base = b
  BY <1>7 DEF MallocFromList, Flip, list
<1> HIDE DEF new, b
<1>10. /\ Covers(new.map, 0, last)
       /\ \A m : m \in ToSet(new.map) <=>
              m = Piece("P", b, n) \/ \E k \in 1 .. Len(map) : k # i /\ m = map[k]
  BY <1>6, <1>9, FlipChain
<1>11. /\ b + n <= last
       /\ \A m : m \in Used(map) <=> m.status = "P" /\ \E k \in 1 .. Len(map) : (k < i \/ i < k) /\ m = map[k]
       /\ \A m \in Used(map) : End(m) <= b \/ b + n <= m.base
  <2>1. \A k \in i .. i : IsFree(map, k)
    BY <1>6, <1>1, ChainType DEF IsFree
  <2>2. i \in i .. Len(map) /\ map[i].base + n <= End(map[i])
    BY <1>2, <1>4, <1>6
  <2>3. n \in Nat
    OBVIOUS
  <2>4. /\ map[i].base + n <= last
        /\ \A m : m \in Used(map) <=> m.status = "P" /\ \E k \in 1 .. Len(map) : (k < i \/ i < k) /\ m = map[k]
        /\ \A m \in Used(map) : End(m) <= map[i].base \/ map[i].base + n <= m.base
    <3>1. Clear(map, last, i, i, n)
      BY <2>1, <2>2, <2>3, SpanClear
    <3> QED BY <3>1 DEF Clear
  <2> QED BY <1>6, <2>4
<1>12. ASSUME NEW m PROVE m \in Used(new.map) <=> m \in Used(map) \union {Piece("P", b, n)}
  <2>1. m \in Used(new.map) <=> m \in ToSet(new.map) /\ m.status = "P"
    BY DEF Used
  <2>2. Piece("P", b, n).status = "P"
    BY DEF Piece
  <2>3. \A k \in 1 .. Len(map) : k # i <=> k < i \/ i < k
    BY <1>2
  <2> QED BY <1>10, <1>11, <2>1, <2>2, <2>3
<1>13. ListsFresh(new.map, new.refs)
  <2>1. DOMAIN new.refs = DOMAIN lists
    BY <1>9
  <2>2. ASSUME NEW s \in DOMAIN lists
        PROVE  Fresh(new.refs[s]) /\ \A x \in ToSet(new.refs[s]) : Piece("L", x, s) \in ToSet(new.map)
    <3>0. Fresh(lists[s]) /\ \A x \in ToSet(lists[s]) : Piece("L", x, s) \in ToSet(map)
      BY DEF ListsFresh
    <3>1. /\ Fresh(new.refs[s]) /\ ToSet(new.refs[s]) \subseteq ToSet(lists[s])
          /\ s = n => b \notin ToSet(new.refs[s])
      BY <1>8, <1>9, <3>0 DEF list
    <3>2. ASSUME NEW x \in ToSet(new.refs[s]) PROVE Piece("L", x, s) \in ToSet(new.map)
      <4>1. PICK k \in 1 .. Len(map) : map[k] = Piece("L", x, s)
        BY <1>2, <3>0, <3>1
      <4>2. k # i
        <5>1. map[k].base = x /\ map[k].qtd = s
          BY <4>1 DEF Piece
        <5> QED BY <1>6, <3>1, <3>2, <5>1
      <4> QED BY <1>10, <4>1, <4>2
    <3> QED BY <3>1, <3>2
  <2> QED BY <2>1, <2>2 DEF ListsFresh
<1> QED
  BY <1>4, <1>9, <1>10, <1>11, <1>12, <1>13 DEF Given, new

LEMMA PairIsConcat ==
    ASSUME NEW S, NEW x \in S, NEW y \in S
    PROVE  <<x>> \o <<y>> = <<x, y>>
<1> DEFINE a == <<x>>
           b == <<y>>
           c == <<x, y>>
<1>1. /\ a \in Seq(S) /\ Len(a) = 1 /\ a[1] = x
      /\ b \in Seq(S) /\ Len(b) = 1 /\ b[1] = y
      /\ c \in Seq(S) /\ Len(c) = 2 /\ c[1] = x /\ c[2] = y
  OBVIOUS
<1> HIDE DEF a, b, c
<1>2. /\ a \o b \in Seq(S) /\ Len(a \o b) = Len(a) + Len(b)
      /\ \A i \in 1 .. Len(a) + Len(b) : (a \o b)[i] = IF i <= Len(a) THEN a[i] ELSE b[i - Len(a)]
  BY <1>1, ConcatProperties
<1>3. Len(a \o b) = Len(c) /\ \A i \in 1 .. Len(a \o b) : (a \o b)[i] = c[i]
  <2>1. \A i \in 1 .. 2 : i = 1 \/ i = 2
    OBVIOUS
  <2> QED BY <1>1, <1>2, <2>1
<1>4. a \o b = c
  BY <1>1, <1>2, <1>3, SeqEqual
<1> QED
  BY <1>4 DEF a, b, c

LEMMA MallocFromSpanGives ==
    ASSUME NEW manager, NEW map, NEW last, Covers(map, 0, last),
           NEW lists, ListsFresh(map, lists), NEW n \in Nat \ {0},
           Room(map, Span(manager, map, n), n)
    PROVE  Given(map, lists, MallocFromSpan(manager, map, lists, n), last, n)
<1> DEFINE span == Span(manager, map, n)
           b == map[span[1]].base
           c == End(map[span[2]])
           rest == c - (b + n)
           used == Piece("P", b, n)
           left == Piece("L", b + n, rest)
           pieces == <<used>> \o (IF rest = 0 THEN << >> ELSE <<left>>)
           new == MallocFromSpan(manager, map, lists, n)
<1>1. Chain(map)
  BY DEF Covers
<1>2. /\ Len(map) \in Nat /\ ToSet(map) = {map[k] : k \in 1 .. Len(map)}
      /\ \A k \in 1 .. Len(map) : map[k] \in Pieces
  BY <1>1, ChainType
<1>3. PICK i \in 1 .. Len(map), j \in 1 .. Len(map) :
         /\ i = span[1] /\ j = span[2] /\ i <= j
         /\ \A k \in i .. j : IsFree(map, k) /\ End(map[j]) - map[i].base >= n
  BY DEF Room
<1>4. j \in i .. Len(map)
  BY <1>2, <1>3
<1>5. b \in Nat /\ c \in Nat /\ b = map[i].base /\ c = End(map[j]) /\ b + n <= c /\ i \in i .. j
  <2>1. map[i].base \in Nat /\ End(map[j]) \in Nat
    BY <1>2, PieceType
  <2>2. i \in i .. j
    BY <1>3
  <2> QED BY <1>3, <2>1, <2>2
<1>6. /\ new.map = Replace(map, i, j, pieces)
      /\ new.refs = [s \in DOMAIN lists |-> StillListed(map, lists, span, s)
                                           \o (IF rest = s THEN <<b + n>> ELSE << >>)]
      /\ new.base = b
  BY <1>3 DEF MallocFromSpan
<1> HIDE DEF new, b, c, span
<1>7. rest \in Nat
  BY <1>5
<1>8. Covers(pieces, b, c) /\ ToSet(pieces) = {used} \union (IF rest = 0 THEN {} ELSE {left})
  <2>1. CASE rest = 0
    <3>1. b < c /\ c - b = n
      BY <1>5, <2>1
    <3>2. pieces = <<used>>
      BY <2>1
    <3>3. Covers(<<Piece("P", b, c - b)>>, b, c) /\ ToSet(<<Piece("P", b, c - b)>>) = {Piece("P", b, c - b)}
      BY <1>5, <3>1, OnePiece
    <3> QED BY <2>1, <3>1, <3>2, <3>3
  <2>2. CASE rest # 0
    <3>1. b < b + n /\ b + n < c /\ b + n \in Nat /\ (b + n) - b = n
      BY <1>5, <2>2
    <3>2. pieces = <<used, left>>
      <4>0. used \in Pieces /\ left \in Pieces
        BY <1>5, <1>7, <2>2 DEF Piece, Pieces
      <4>1. <<used>> \o <<left>> = <<used, left>>
        BY <4>0, PairIsConcat
      <4> HIDE DEF used, left, rest
      <4>2. pieces = <<used>> \o <<left>>
        BY <2>2
      <4> QED BY <4>1, <4>2
    <3>3. PICK d \in Nat : d = b + n
      BY <3>1
    <3>4. /\ Covers(<<Piece("P", b, d - b), Piece("L", d, c - d)>>, b, c)
          /\ ToSet(<<Piece("P", b, d - b), Piece("L", d, c - d)>>) =
                {Piece("P", b, d - b), Piece("L", d, c - d)}
      <4>1. b \in Nat /\ c \in Nat /\ b < d /\ d < c
        BY <1>5, <3>1, <3>3
      <4> QED BY <4>1, TwoPieces
    <3>5. used = Piece("P", b, d - b) /\ left = Piece("L", d, c - d)
      BY <3>1, <3>3
    <3> HIDE DEF used, left, rest
    <3> QED BY <2>2, <3>2, <3>4, <3>5
  <2> QED BY <2>1, <2>2
<1> HIDE DEF pieces
<1>9. /\ Covers(new.map, 0, last)
      /\ \A m : m \in ToSet(new.map) <=>
             m \in ToSet(pieces) \/ \E k \in 1 .. Len(map) : (k < i \/ j < k) /\ m = map[k]
  <2>1. Covers(pieces, map[i].base, End(map[j]))
    BY <1>5, <1>8
  <2> QED BY <1>4, <1>6, <2>1, ReplaceChain
<1>10. /\ b + n <= last
       /\ \A m : m \in Used(map) <=> m.status = "P" /\ \E k \in 1 .. Len(map) : (k < i \/ j < k) /\ m = map[k]
       /\ \A k \in 1 .. Len(map) : k < i => End(map[k]) <= b
       /\ \A k \in 1 .. Len(map) : j < k => c <= map[k].base
       /\ \A m \in Used(map) : End(m) <= b \/ b + n <= m.base
  <2>1. \A k \in i .. j : IsFree(map, k)
    BY <1>3
  <2>2. n \in Nat /\ map[i].base + n <= End(map[j])
    BY <1>5
  <2>3. /\ map[i].base + n <= last
        /\ \A m : m \in Used(map) <=> m.status = "P" /\ \E k \in 1 .. Len(map) : (k < i \/ j < k) /\ m = map[k]
        /\ \A k \in 1 .. Len(map) : k < i => End(map[k]) <= map[i].base
        /\ \A k \in 1 .. Len(map) : j < k => End(map[j]) <= map[k].base
        /\ \A m \in Used(map) : End(m) <= map[i].base \/ map[i].base + n <= m.base
    <3>1. Clear(map, last, i, j, n)
      BY <1>4, <2>1, <2>2, SpanClear
    <3> QED BY <3>1 DEF Clear
  <2> QED BY <1>5, <2>3
<1>11. ASSUME NEW m PROVE m \in Used(new.map) <=> m \in Used(map) \union {used}
  <2>1. m \in Used(new.map) <=> m \in ToSet(new.map) /\ m.status = "P"
    BY DEF Used
  <2>2. used.status = "P" /\ left.status = "L"
    BY DEF Piece
  <2> HIDE DEF used, left
  <2> QED BY <1>8, <1>9, <1>10, <2>1, <2>2
<1>12. ASSUME NEW k \in 1 .. Len(map), k < i \/ j < k, rest # 0 PROVE map[k].base # b + n
  <2>1. map[k].base \in Nat /\ End(map[k]) \in Nat /\ map[k].base < End(map[k])
    BY <1>2, PieceType
  <2>2. b + n < c
    BY <1>5, <1>7, <1>12
  <2>3. CASE k < i
    BY <1>5, <1>10, <2>1, <2>3
  <2>4. CASE j < k
    BY <1>5, <1>10, <2>1, <2>2, <2>4
  <2> QED BY <1>12, <2>3, <2>4
<1>13. ASSUME NEW s \in DOMAIN lists
       PROVE  Fresh(new.refs[s]) /\ \A x \in ToSet(new.refs[s]) : Piece("L", x, s) \in ToSet(new.map)
  <2> DEFINE list == lists[s]
             still == StillListed(map, lists, span, s)
  <2>1. s \in Nat \ {0} /\ Fresh(list) /\ \A x \in ToSet(list) : Piece("L", x, s) \in ToSet(map)
    BY DEF ListsFresh
  <2>2. /\ Fresh(still)
        /\ ToSet(still) = {x \in ToSet(list) : ~\E k \in i .. j : map[k].qtd = s /\ map[k].base = x}
    <3>1. span[2] \in Nat /\ span[1] \in 1 .. span[2]
      BY <1>2, <1>3 DEF span
    <3> QED BY <1>3, <2>1, <3>1, StillIs DEF span
  <2>3. new.refs[s] = still \o (IF rest = s THEN <<b + n>> ELSE << >>)
    BY <1>6
  <2> HIDE DEF still, list
  <2>4. ASSUME NEW x \in ToSet(still)
        PROVE  \E k \in 1 .. Len(map) : (k < i \/ j < k) /\ map[k] = Piece("L", x, s)
    <3>1. PICK k \in 1 .. Len(map) : map[k] = Piece("L", x, s)
      BY <1>2, <2>1, <2>2
    <3>2. map[k].qtd = s /\ map[k].base = x
      BY <3>1 DEF Piece
    <3>3. ~(k \in i .. j)
      BY <2>2, <3>2
    <3> QED BY <1>2, <3>1, <3>3
  <2>5. \A x \in ToSet(still) : Piece("L", x, s) \in ToSet(new.map)
    BY <1>9, <2>4
  <2>6. still \in Seq(Nat) /\ IsInjective(still)
    BY <2>2 DEF Fresh
  <2>7. CASE rest # s
    <3>1. new.refs[s] = still
      <4> HIDE DEF rest
      <4> QED BY <2>3, <2>6, <2>7, ConcatEmptySeq
    <3> QED BY <2>2, <2>5, <3>1
  <2>8. CASE rest = s
    <3>1. PICK d \in Nat : d = b + n
      BY <1>5
    <3>2. new.refs[s] = Append(still, d)
      <4>1. new.refs[s] = still \o <<d>>
        BY <2>3, <2>8, <3>1
      <4> QED BY <2>6, <4>1, AppendIsConcat
    <3>3. d \notin ToSet(still)
      <4> SUFFICES ASSUME d \in ToSet(still) PROVE FALSE
        OBVIOUS
      <4>1. PICK k \in 1 .. Len(map) : (k < i \/ j < k) /\ map[k] = Piece("L", d, s)
        BY <2>4
      <4>2. map[k].base = d
        BY <4>1 DEF Piece
      <4>3. rest # 0
        BY <2>1, <2>8
      <4> QED BY <1>12, <3>1, <4>1, <4>2, <4>3
    <3>4. Fresh(new.refs[s]) /\ ToSet(new.refs[s]) = ToSet(still) \union {d}
      BY <2>6, <3>2, <3>3, AppendQueue DEF Fresh
    <3>5. Piece("L", d, s) \in ToSet(new.map)
      <4>1. left \in ToSet(pieces)
        BY <1>8, <2>1, <2>8
      <4>2. left = Piece("L", d, s)
        BY <2>8, <3>1
      <4> QED BY <1>9, <4>1, <4>2
    <3> QED BY <2>5, <3>4, <3>5
  <2> QED BY <2>7, <2>8
<1>14. DOMAIN new.refs = DOMAIN lists
  BY <1>6
<1>15. ListsFresh(new.map, new.refs)
  <2>1. DOMAIN lists \subseteq Nat \ {0}
    BY DEF ListsFresh
  <2> QED BY <1>13, <1>14, <2>1 DEF ListsFresh
<1> QED
  BY <1>5, <1>6, <1>9, <1>10, <1>11, <1>14, <1>15 DEF Given, new

LEMMA MallocGives ==
    ASSUME NEW manager \in Managers, NEW map, NEW last, Covers(map, 0, last),
           NEW lists, ListsFresh(map, lists), NEW n \in Nat \ {0},
           HasSpace(manager, map, lists, n)
    PROVE  Given(map, lists, Malloc(manager, map, lists, n), last, n)
<1>1. CASE Listed(lists, n)
  BY <1>1, MallocFromListGives DEF Malloc
<1>2. CASE ~Listed(lists, n)
  <2>1. n \in Nat
    OBVIOUS
  <2>2. Room(map, Span(manager, map, n), n)
    BY <1>2, <2>1, SpanRoom
  <2> QED BY <1>2, <2>2, MallocFromSpanGives DEF Malloc
<1> QED
  BY <1>1, <1>2

-----------------------------------------------------------------------------
(* free. *)

\* What free promises: the process's piece is no longer used.
Taken(map, lists, new, last, m) ==
    /\ Covers(new.map, 0, last) /\ ListsFresh(new.map, new.refs)
    /\ DOMAIN new.refs = DOMAIN lists
    /\ Used(new.map) = Used(map) \ {m}

LEMMA FreeTakes ==
    ASSUME NEW map, NEW last, Covers(map, 0, last), NEW lists, ListsFresh(map, lists),
           NEW m \in Used(map)
    PROVE  Taken(map, lists, Free(map, lists, m.base), last, m)
<1> DEFINE b == m.base
           n == m.qtd
           new == Free(map, lists, b)
<1>1. Chain(map) /\ End(map[Len(map)]) = last
  BY DEF Covers
<1>2. /\ Len(map) \in Nat /\ ToSet(map) = {map[k] : k \in 1 .. Len(map)}
      /\ DOMAIN map = 1 .. Len(map)
      /\ \A k \in 1 .. Len(map) : map[k] \in Pieces
  BY <1>1, ChainType
<1>3. PICK i \in 1 .. Len(map) : map[i] = m
  BY <1>2 DEF Used
<1>4. m.status = "P" /\ b \in Nat /\ n \in Nat \ {0} /\ m \in Pieces /\ End(m) \in Nat /\ b < End(m)
  BY <1>2, <1>3, PieceType DEF Used
<1>5. At(map, b) = i
  BY <1>1, <1>3, AtIs
<1>6. \A k, l \in 1 .. Len(map) : map[k] = map[l] => k = l
  <2> SUFFICES ASSUME NEW k \in 1 .. Len(map), NEW l \in 1 .. Len(map), map[k] = map[l]
               PROVE  k = l
    OBVIOUS
  <2>1. map[k].base \in Nat /\ map[k].base < End(map[k])
    BY <1>2, PieceType
  <2> QED BY <1>1, <2>1, ChainOnce
<1>7. DOMAIN lists \subseteq Nat \ {0}
  BY DEF ListsFresh
<1>8. CASE n \in DOMAIN lists
  <2>1. /\ new.map = Flip(map, i, "L") /\ new.refs = [lists EXCEPT ![n] = Append(@, b)]
    BY <1>3, <1>5, <1>8 DEF Free, Flip
  <2> HIDE DEF new
  <2>2. /\ Covers(new.map, 0, last)
        /\ \A x : x \in ToSet(new.map) <=>
               x = Piece("L", b, n) \/ \E k \in 1 .. Len(map) : k # i /\ x = map[k]
    BY <1>3, <2>1, FlipChain
  <2>3. Used(new.map) = Used(map) \ {m}
    <3>1. ASSUME NEW x PROVE x \in Used(new.map) <=> x \in Used(map) /\ x # m
      <4>1. Piece("L", b, n).status = "L"
        BY DEF Piece
      <4>2. x \in Used(new.map) <=> x \in ToSet(new.map) /\ x.status = "P"
        BY DEF Used
      <4>3. x \in Used(map) <=> x.status = "P" /\ \E k \in 1 .. Len(map) : x = map[k]
        BY <1>2 DEF Used
      <4> QED BY <1>3, <1>6, <2>2, <4>1, <4>2, <4>3
    <3> QED BY <3>1
  <2>4. ASSUME NEW s \in DOMAIN lists
        PROVE  Fresh(new.refs[s]) /\ \A x \in ToSet(new.refs[s]) : Piece("L", x, s) \in ToSet(new.map)
    <3>1. Fresh(lists[s]) /\ \A x \in ToSet(lists[s]) : Piece("L", x, s) \in ToSet(map)
      BY DEF ListsFresh
    <3>2. ASSUME NEW x \in ToSet(lists[s])
          PROVE  \E k \in 1 .. Len(map) : k # i /\ map[k] = Piece("L", x, s)
      <4>1. PICK k \in 1 .. Len(map) : map[k] = Piece("L", x, s)
        BY <1>2, <3>1
      <4>2. map[k].status = "L"
        BY <4>1 DEF Piece
      <4> QED BY <1>3, <1>4, <4>1, <4>2
    <3>3. \A x \in ToSet(lists[s]) : Piece("L", x, s) \in ToSet(new.map)
      BY <2>2, <3>2
    <3>4. CASE s # n
      BY <2>1, <3>1, <3>3, <3>4
    <3>5. CASE s = n
      <4>1. b \notin ToSet(lists[s])
        <5> SUFFICES ASSUME b \in ToSet(lists[s]) PROVE FALSE
          OBVIOUS
        <5>1. PICK k \in 1 .. Len(map) : k # i /\ map[k] = Piece("L", b, s)
          BY <3>2
        <5>2. map[k].base = b
          BY <5>1 DEF Piece
        <5>3. At(map, b) = k
          BY <1>1, <5>2, AtIs
        <5> QED BY <1>5, <5>1, <5>3
      <4>2. new.refs[s] = Append(lists[s], b)
        BY <2>1, <3>5
      <4>3. lists[s] \in Seq(Nat) /\ IsInjective(lists[s])
        BY <3>1 DEF Fresh
      <4>4. Fresh(new.refs[s]) /\ ToSet(new.refs[s]) = ToSet(lists[s]) \union {b}
        BY <1>4, <4>1, <4>2, <4>3, AppendQueue DEF Fresh
      <4>5. Piece("L", b, s) \in ToSet(new.map)
        BY <2>2, <3>5
      <4> QED BY <3>3, <4>4, <4>5
    <3> QED BY <3>4, <3>5
  <2>5. DOMAIN new.refs = DOMAIN lists
    BY <2>1
  <2>6. ListsFresh(new.map, new.refs)
    BY <1>7, <2>4, <2>5 DEF ListsFresh
  <2> QED BY <2>2, <2>3, <2>5, <2>6 DEF Taken, new
<1>9. CASE n \notin DOMAIN lists
  <2>1. PICK first \in {i - 1, i}, end \in {i, i + 1} :
           /\ first = FirstJoined(map, lists, i) /\ end = LastJoined(map, lists, i)
           /\ first # i => Joins(map, lists, first)
           /\ end # i => Joins(map, lists, end)
    BY DEF FirstJoined, LastJoined
  <2>2. first \in 1 .. Len(map) /\ end \in first .. Len(map) /\ end \in 1 .. Len(map) /\ i \in first .. end
    <3>1. first \in 1 .. Len(map) /\ end \in 1 .. Len(map)
      BY <1>2, <2>1 DEF Joins, IsFree
    <3> QED BY <1>2, <2>1, <3>1
  <2>3. \A k \in first .. end : k = i \/ Joins(map, lists, k)
    BY <2>1, <2>2
  <2> DEFINE a == map[first].base
             c == End(map[end])
             piece == Piece("L", a, c - a)
  <2>4. new.map = Replace(map, first, end, <<piece>>) /\ new.refs = lists
    BY <1>3, <1>5, <1>9, <2>1 DEF Free
  <2> HIDE DEF new
  <2>5. a \in Nat /\ c \in Nat /\ a < c
    <3>1. a \in Nat /\ c \in Nat /\ a < End(map[first]) /\ End(map[first]) \in Nat /\ map[end].base < c /\ map[end].base \in Nat
      BY <1>2, <2>2, PieceType
    <3>2. first = end \/ first < end
      BY <2>2
    <3>3. first < end => End(map[first]) <= map[end].base
      BY <1>1, <2>2, ChainOrder
    <3> QED BY <3>1, <3>2, <3>3
  <2>6. Covers(<<piece>>, a, c) /\ ToSet(<<piece>>) = {piece}
    BY <2>5, OnePiece
  <2>7. /\ Covers(new.map, 0, last)
        /\ \A x : x \in ToSet(new.map) <=>
               x = piece \/ \E k \in 1 .. Len(map) : (k < first \/ end < k) /\ x = map[k]
    <3> HIDE DEF piece
    <3>1. /\ Covers(Replace(map, first, end, <<piece>>), 0, last)
          /\ \A x : x \in ToSet(Replace(map, first, end, <<piece>>)) <=>
                x \in ToSet(<<piece>>) \/ \E k \in 1 .. Len(map) : (k < first \/ end < k) /\ x = map[k]
      BY <2>2, <2>6, ReplaceChain
    <3> QED BY <2>4, <2>6, <3>1
  <2>8. piece.status = "L"
    BY DEF Piece
  <2> HIDE DEF piece
  <2>9. Used(new.map) = Used(map) \ {m}
    <3>1. ASSUME NEW x PROVE x \in Used(new.map) <=> x \in Used(map) /\ x # m
      <4>2. x \in Used(new.map) <=> x \in ToSet(new.map) /\ x.status = "P"
        BY DEF Used
      <4>3. x \in Used(map) <=> x.status = "P" /\ \E k \in 1 .. Len(map) : x = map[k]
        BY <1>2 DEF Used
      <4>4. \A k \in 1 .. Len(map) : map[k].status = "P" /\ k # i => k < first \/ end < k
        <5> SUFFICES ASSUME NEW k \in 1 .. Len(map), map[k].status = "P", k # i, ~(k < first \/ end < k)
                     PROVE  FALSE
          OBVIOUS
        <5>1. k \in first .. end
          BY <2>2
        <5> QED BY <2>3, <5>1 DEF Joins, IsFree
      <4>5. ~(i < first \/ end < i)
        BY <2>2
      <4> QED BY <1>3, <1>6, <2>7, <2>8, <4>2, <4>3, <4>4, <4>5
    <3> QED BY <3>1
  <2>10. ASSUME NEW s \in DOMAIN lists
         PROVE  Fresh(lists[s]) /\ \A x \in ToSet(lists[s]) : Piece("L", x, s) \in ToSet(new.map)
    <3>1. Fresh(lists[s]) /\ \A x \in ToSet(lists[s]) : Piece("L", x, s) \in ToSet(map)
      BY DEF ListsFresh
    <3>2. ASSUME NEW x \in ToSet(lists[s]) PROVE Piece("L", x, s) \in ToSet(new.map)
      <4>1. PICK k \in 1 .. Len(map) : map[k] = Piece("L", x, s)
        BY <1>2, <3>1
      <4>2. map[k].status = "L" /\ map[k].qtd = s
        BY <4>1 DEF Piece
      <4>3. ~(k \in first .. end)
        BY <1>3, <1>4, <2>3, <4>2 DEF Joins
      <4>4. k < first \/ end < k
        BY <2>2, <4>3
      <4> QED BY <2>7, <4>1, <4>4
    <3> QED BY <3>1, <3>2
  <2>11. ListsFresh(new.map, new.refs)
    BY <1>7, <2>4, <2>10 DEF ListsFresh
  <2> QED BY <2>4, <2>7, <2>9, <2>11 DEF Taken, new
<1> QED
  BY <1>8, <1>9

-----------------------------------------------------------------------------
(* reorder_references. *)

\* The map up to the number b, which may be empty.
CoversTo(map, b) == IF map = << >> THEN b = 0 ELSE Covers(map, 0, b)

LEMMA JoinMaps ==
    ASSUME NEW map \in Seq(Pieces), NEW a, CoversTo(map, a), NEW pieces, NEW c, Covers(pieces, a, c)
    PROVE  /\ Covers(map \o pieces, 0, c)
           /\ ToSet(map \o pieces) = ToSet(map) \union ToSet(pieces)
<1> DEFINE new == map \o pieces
<1>1. Chain(pieces) /\ pieces[1].base = a /\ End(pieces[Len(pieces)]) = c
  BY DEF Covers
<1>2. /\ pieces \in Seq(Pieces) /\ Len(pieces) \in Nat \ {0}
      /\ ToSet(pieces) = {pieces[k] : k \in 1 .. Len(pieces)}
      /\ \A k \in 1 .. Len(pieces) - 1 : End(pieces[k]) = pieces[k + 1].base
  BY <1>1, ChainType DEF Chain
<1>3. CASE map = << >>
  <2>1. new = pieces
    BY <1>2, <1>3, ConcatEmptySeq
  <2>2. ToSet(map) = {} /\ a = 0
    BY <1>3, EmptySeq DEF ToSet, CoversTo
  <2> QED BY <2>1, <2>2
<1>4. CASE map # << >>
  <2>1. Chain(map) /\ map[1].base = 0 /\ End(map[Len(map)]) = a
    BY <1>4 DEF CoversTo, Covers
  <2>2. /\ Len(map) \in Nat \ {0} /\ ToSet(map) = {map[k] : k \in 1 .. Len(map)}
        /\ \A k \in 1 .. Len(map) - 1 : End(map[k]) = map[k + 1].base
    BY <2>1, ChainType DEF Chain
  <2>3. /\ new \in Seq(Pieces) /\ Len(new) = Len(map) + Len(pieces)
        /\ \A k \in 1 .. Len(map) + Len(pieces) : new[k] =
              IF k <= Len(map) THEN map[k] ELSE pieces[k - Len(map)]
    BY <1>2, ConcatProperties
  <2> HIDE DEF new
  <2>4. /\ \A k \in 1 .. Len(map) : k \in 1 .. Len(new) /\ new[k] = map[k]
        /\ \A k \in 1 .. Len(pieces) : Len(map) + k \in 1 .. Len(new) /\ new[Len(map) + k] = pieces[k]
    <3>1. ASSUME NEW k \in 1 .. Len(map) PROVE k \in 1 .. Len(new) /\ new[k] = map[k]
      BY <1>2, <2>2, <2>3
    <3>2. ASSUME NEW k \in 1 .. Len(pieces)
          PROVE  Len(map) + k \in 1 .. Len(new) /\ new[Len(map) + k] = pieces[k]
      <4>1. Len(map) + k \in 1 .. Len(map) + Len(pieces) /\ ~(Len(map) + k <= Len(map)) /\ (Len(map) + k) - Len(map) = k
        BY <1>2, <2>2
      <4> QED BY <2>3, <4>1
    <3> QED BY <3>1, <3>2
  <2>5. ASSUME NEW k \in 1 .. Len(new) - 1 PROVE End(new[k]) = new[k + 1].base
    <3>1. CASE k < Len(map)
      <4>1. k \in 1 .. Len(map) - 1 /\ k \in 1 .. Len(map) /\ k + 1 \in 1 .. Len(map)
        BY <2>2, <3>1
      <4> QED BY <2>2, <2>4, <4>1
    <3>2. CASE k = Len(map)
      <4>1. k \in 1 .. Len(map) /\ 1 \in 1 .. Len(pieces)
        BY <1>2, <2>2, <3>2
      <4>2. new[k] = map[Len(map)] /\ new[k + 1] = pieces[1]
        BY <2>4, <3>2, <4>1
      <4> QED BY <1>1, <2>1, <4>2
    <3>3. CASE k > Len(map)
      <4> DEFINE l == k - Len(map)
      <4>1. l \in 1 .. Len(pieces) - 1 /\ l \in 1 .. Len(pieces) /\ l + 1 \in 1 .. Len(pieces)
            /\ Len(map) + l = k /\ Len(map) + (l + 1) = k + 1
        BY <1>2, <2>2, <2>3, <3>3
      <4> HIDE DEF l
      <4>2. new[k] = pieces[l] /\ new[k + 1] = pieces[l + 1]
        BY <2>4, <4>1
      <4> QED BY <1>2, <4>1, <4>2
    <3> QED BY <2>2, <3>1, <3>2, <3>3
  <2>6. new # << >>
    BY <1>2, <2>2, <2>3, EmptySeq
  <2>7. Chain(new)
    BY <2>3, <2>5, <2>6 DEF Chain
  <2>8. new[1].base = 0 /\ End(new[Len(new)]) = c
    <3>1. 1 \in 1 .. Len(map) /\ Len(pieces) \in 1 .. Len(pieces)
      BY <1>2, <2>2
    <3> QED BY <1>1, <2>1, <2>3, <2>4, <3>1
  <2>9. ToSet(new) = ToSet(map) \union ToSet(pieces)
    <3>1. ToSet(new) = {new[k] : k \in 1 .. Len(new)}
      BY <2>7, ChainType
    <3>2. \A k \in 1 .. Len(new) : k \in 1 .. Len(map) \/ (k - Len(map) \in 1 .. Len(pieces) /\ Len(map) + (k - Len(map)) = k)
      BY <1>2, <2>2, <2>3
    <3>3. ASSUME NEW m \in ToSet(new) PROVE m \in ToSet(map) \union ToSet(pieces)
      <4>1. PICK k \in 1 .. Len(new) : m = new[k]
        BY <3>1
      <4>2. CASE k \in 1 .. Len(map)
        BY <2>2, <2>4, <4>1, <4>2
      <4>3. CASE k \notin 1 .. Len(map)
        <5>1. k - Len(map) \in 1 .. Len(pieces) /\ Len(map) + (k - Len(map)) = k
          BY <3>2, <4>3
        <5>2. new[k] = pieces[k - Len(map)]
          BY <2>4, <5>1
        <5> QED BY <1>2, <4>1, <5>1, <5>2
      <4> QED BY <4>2, <4>3
    <3>4. ASSUME NEW m \in ToSet(map) \union ToSet(pieces) PROVE m \in ToSet(new)
      BY <1>2, <2>2, <2>4, <3>1
    <3> QED BY <3>3, <3>4
  <2> QED BY <2>7, <2>8, <2>9 DEF Covers, new
<1> QED
  BY <1>3, <1>4

\* The pieces of size s that are cut off from b on.
CutBases(b, s, count) == [x \in 1 .. count |-> b + (x - 1) * s]
CutPieces(b, s, count) == [x \in 1 .. count |-> Piece("L", CutBases(b, s, count)[x], s)]

LEMMA CutIs ==
    ASSUME NEW b \in Nat, NEW s \in Nat \ {0}, NEW count \in Nat
    PROVE  /\ Fresh(CutBases(b, s, count))
           /\ \A x \in ToSet(CutBases(b, s, count)) : Piece("L", x, s) \in ToSet(CutPieces(b, s, count))
           /\ \A m \in ToSet(CutPieces(b, s, count)) : m.status = "L"
           /\ CutPieces(b, s, count) \in Seq(Pieces)
           /\ count # 0 => Covers(CutPieces(b, s, count), b, b + count * s)
           /\ count = 0 => CutPieces(b, s, count) = << >>
<1> DEFINE bases == CutBases(b, s, count)
           pieces == CutPieces(b, s, count)
<1>1. \A x \in 1 .. count : (x - 1) * s \in Nat /\ b + (x - 1) * s \in Nat
  OBVIOUS
<1>2. /\ bases \in [1 .. count -> Nat] /\ DOMAIN bases = 1 .. count
      /\ \A x \in 1 .. count : bases[x] = b + (x - 1) * s
  BY <1>1 DEF CutBases
<1>3. /\ pieces = [x \in 1 .. count |-> Piece("L", bases[x], s)]
  BY DEF CutPieces
<1> HIDE DEF bases, pieces
<1>4. bases \in Seq(Nat)
  BY <1>2
<1>5. \A x \in 1 .. count : Piece("L", bases[x], s) \in Pieces
  BY <1>2 DEF Piece, Pieces
<1>6. /\ pieces \in [1 .. count -> Pieces] /\ DOMAIN pieces = 1 .. count
      /\ \A x \in 1 .. count : /\ pieces[x] = Piece("L", bases[x], s)
                               /\ pieces[x].status = "L" /\ pieces[x].base = bases[x]
                               /\ End(pieces[x]) = bases[x] + s
  BY <1>3, <1>5 DEF Piece, End
<1>7. pieces \in Seq(Pieces) /\ Len(pieces) = count
  BY <1>6
<1>8. IsInjective(bases)
  <2> SUFFICES ASSUME NEW x \in 1 .. count, NEW y \in 1 .. count, bases[x] = bases[y]
               PROVE  x = y
    BY <1>2 DEF IsInjective
  <2>0. bases[x] = b + (x - 1) * s /\ bases[y] = b + (y - 1) * s
    BY <1>2
  <2>1. (x - 1) * s = (y - 1) * s
    <3>1. b + (x - 1) * s = b + (y - 1) * s
      BY <2>0, Zenon
    <3>2. \A u, v \in Nat : b + u = b + v => u = v
      OBVIOUS
    <3> QED BY <1>1, <3>1, <3>2, Zenon
  <2>2. \A u, v \in Int : u * s = v * s => u = v
    OBVIOUS
  <2>3. x - 1 = y - 1
    BY <2>1, <2>2
  <2> QED BY <2>3
<1>9. /\ \A x \in ToSet(bases) : Piece("L", x, s) \in ToSet(pieces)
      /\ \A m \in ToSet(pieces) : m.status = "L"
  BY <1>2, <1>6 DEF ToSet
<1>10. ASSUME count # 0 PROVE Covers(pieces, b, b + count * s)
  <2>1. \A x \in 1 .. count - 1 : End(pieces[x]) = pieces[x + 1].base
    <3> TAKE x \in 1 .. count - 1
    <3>1. x \in 1 .. count /\ x + 1 \in 1 .. count
      OBVIOUS
    <3>2. bases[x] = b + (x - 1) * s /\ bases[x + 1] = b + ((x + 1) - 1) * s
      BY <1>2, <3>1
    <3>3. (x - 1) * s + s = ((x + 1) - 1) * s
      OBVIOUS
    <3>4. bases[x] + s = bases[x + 1]
      BY <3>2, <3>3
    <3> QED BY <1>6, <3>1, <3>4
  <2>2. pieces # << >>
    BY <1>7, <1>10, EmptySeq
  <2>3. 1 \in 1 .. count /\ count \in 1 .. count
    BY <1>10
  <2>4. bases[1] = b + (1 - 1) * s /\ bases[count] = b + (count - 1) * s
    BY <1>2, <2>3
  <2>5. (1 - 1) * s = 0 /\ (count - 1) * s + s = count * s
    OBVIOUS
  <2>6. pieces[1].base = b
    BY <1>6, <2>3, <2>4, <2>5
  <2>7. End(pieces[count]) = b + count * s
    BY <1>6, <2>3, <2>4, <2>5
  <2> QED BY <1>7, <2>1, <2>2, <2>6, <2>7 DEF Covers, Chain
<1>11. count = 0 => pieces = << >>
  BY <1>7, EmptySeq
<1> QED
  BY <1>4, <1>7, <1>8, <1>9, <1>10, <1>11 DEF Fresh, bases, pieces

CutTurn(end, lists, s, state) ==
    LET count == Min({Len(lists[s]), (End(end) - state.base) \div s})
        bases == [x \in 1 .. count |-> state.base + (x - 1) * s]
    IN  [base |-> state.base + count * s,
         map |-> state.map \o [x \in 1 .. count |-> Piece("L", bases[x], s)],
         refs |-> [state.refs EXCEPT ![s] = bases]]

CutLoop(map, lists, max, cut) ==
    cut = [s \in 0 .. max |->
             IF s = 0 THEN [base |-> Last(map).base, map |-> Front(map), refs |-> lists]
             ELSE IF s \in DOMAIN lists THEN CutTurn(Last(map), lists, s, cut[s - 1]) ELSE cut[s - 1]]

Reordered(end, all) ==
    [map |-> IF all.base = End(end) THEN all.map
             ELSE Append(all.map, Piece("L", all.base, End(end) - all.base)),
     refs |-> all.refs]

LEMMA ReorderIsLoop ==
    \A map, lists, max :
       ReorderReferences(map, lists, max) =
          Reordered(Last(map), (CHOOSE cut : CutLoop(map, lists, max, cut))[max])
BY DEF ReorderReferences, CutLoop, CutTurn, Reordered

\* The states of the loop after the sizes up to s.
Cutting(map, lists, last, s) ==
    {state \in [base : Nat, map : Seq(Pieces), refs : {lists} \union [DOMAIN lists -> Seq(Nat)]] :
       /\ state.base <= last
       /\ CoversTo(state.map, state.base)
       /\ Used(state.map) = Used(map)
       /\ \A t \in DOMAIN lists : t <= s =>
            /\ Fresh(state.refs[t])
            /\ \A b \in ToSet(state.refs[t]) : Piece("L", b, t) \in ToSet(state.map)}

LEMMA TimesMonotone ==
    ASSUME NEW u \in Nat, NEW v \in Nat, NEW k \in Nat, u <= v
    PROVE  u * k <= v * k
<1>1. v - u \in Nat /\ v = u + (v - u)
  OBVIOUS
<1>2. (u + (v - u)) * k = u * k + (v - u) * k
  OBVIOUS
<1>3. u * k \in Nat /\ (v - u) * k \in Nat /\ v * k \in Nat
  <2>1. \A a \in Nat : a * k \in Nat
    OBVIOUS
  <2> QED BY <1>1, <2>1
<1>4. v * k = u * k + (v - u) * k
  BY <1>1, <1>2
<1>5. \A a, b, c \in Nat : a = b + c => b <= a
  OBVIOUS
<1> QED
  BY <1>3, <1>4, <1>5

LEMMA CutTurnKeeps ==
    ASSUME NEW map, NEW lists, DOMAIN lists \subseteq Nat \ {0},
           \A t \in DOMAIN lists : lists[t] \in Seq(Nat),
           NEW last \in Nat, NEW end, End(end) = last,
           NEW s \in DOMAIN lists,
           NEW state \in Cutting(map, lists, last, s - 1)
    PROVE  CutTurn(end, lists, s, state) \in Cutting(map, lists, last, s)
<1> DEFINE count == Min({Len(lists[s]), (End(end) - state.base) \div s})
           bases == CutBases(state.base, s, count)
           pieces == CutPieces(state.base, s, count)
           new == CutTurn(end, lists, s, state)
<1>1. /\ state.base \in Nat /\ state.map \in Seq(Pieces) /\ state.base <= last
      /\ state.refs = lists \/ state.refs \in [DOMAIN lists -> Seq(Nat)]
      /\ CoversTo(state.map, state.base) /\ Used(state.map) = Used(map)
      /\ \A t \in DOMAIN lists : t <= s - 1 =>
            /\ Fresh(state.refs[t])
            /\ \A b \in ToSet(state.refs[t]) : Piece("L", b, t) \in ToSet(state.map)
  BY DEF Cutting
<1>2. s \in Nat \ {0} /\ Len(lists[s]) \in Nat
  <2>1. lists[s] \in Seq(Nat)
    OBVIOUS
  <2> QED BY <2>1, LenProperties
<1>3. count \in Nat /\ state.base + count * s <= last
  <2> DEFINE d == last - state.base
             quot == d \div s
  <2>1. d \in Nat
    BY <1>1
  <2> HIDE DEF d
  <2>2. quot \in Nat /\ quot * s <= d
    <3>1. d \div s \in Nat /\ d % s \in 0 .. s - 1 /\ d = s * (d \div s) + (d % s)
      BY <1>2, <2>1, DivMod
    <3>2. \A q \in Nat : s * q = q * s
      BY <1>2
    <3>3. s * (d \div s) = (d \div s) * s
      BY <3>1, <3>2
    <3> DEFINE qs == s * (d \div s)
    <3>4. qs \in Nat
      <4>1. \A q \in Nat : s * q \in Nat
        BY <1>2
      <4> QED BY <3>1, <4>1
    <3>5. qs <= d
      <4>1. d = qs + (d % s)
        BY <3>1
      <4>2. d % s \in Nat
        BY <1>2, <3>1
      <4> HIDE DEF qs
      <4> QED BY <2>1, <3>4, <4>1, <4>2
    <3> QED BY <3>1, <3>3, <3>5
  <2>3. count = Min({Len(lists[s]), quot})
    BY DEF d
  <2> HIDE DEF quot
  <2>4. count \in {Len(lists[s]), quot} /\ count <= quot
    <3>1. {Len(lists[s]), quot} \subseteq Nat
      BY <1>2, <2>2
    <3>2. Min({Len(lists[s]), quot}) \in {Len(lists[s]), quot} /\ Min({Len(lists[s]), quot}) <= quot
      BY <3>1, MinIn
    <3> QED BY <2>3, <3>2
  <2>5. count \in Nat
    BY <1>2, <2>2, <2>4
  <2> HIDE DEF count
  <2>6. count * s <= quot * s
    BY <1>2, <2>2, <2>4, <2>5, TimesMonotone
  <2>7. count * s \in Nat /\ quot * s \in Nat
    BY <1>2, <2>2, <2>5
  <2>8. \A u, v \in Nat : u <= v /\ v <= d => state.base + u <= last
    BY <1>1 DEF d
  <2> QED BY <2>2, <2>5, <2>6, <2>7, <2>8
<1>4. new = [base |-> state.base + count * s, map |-> state.map \o pieces,
             refs |-> [state.refs EXCEPT ![s] = bases]]
  BY DEF CutTurn, CutBases, CutPieces
<1> HIDE DEF count, bases, pieces, new
<1>5. new.base = state.base + count * s /\ new.map = state.map \o pieces
      /\ new.refs = [state.refs EXCEPT ![s] = bases]
  BY <1>4
<1>6. /\ Fresh(bases) /\ pieces \in Seq(Pieces)
      /\ \A x \in ToSet(bases) : Piece("L", x, s) \in ToSet(pieces)
      /\ \A m \in ToSet(pieces) : m.status = "L"
      /\ count # 0 => Covers(pieces, state.base, state.base + count * s)
      /\ count = 0 => pieces = << >>
  BY <1>1, <1>2, <1>3, CutIs DEF bases, pieces
<1>7. /\ new.map \in Seq(Pieces) /\ CoversTo(new.map, new.base)
      /\ ToSet(new.map) = ToSet(state.map) \union ToSet(pieces)
  <2>1. new.map \in Seq(Pieces)
    BY <1>1, <1>5, <1>6, ConcatProperties
  <2>2. CASE count = 0
    <3>1. count * s = 0
      BY <1>2, <2>2
    <3>2. new.base = state.base
      BY <1>1, <1>5, <3>1
    <3>3. pieces = << >> /\ ToSet(pieces) = {}
      BY <1>6, <2>2, EmptySeq DEF ToSet
    <3>4. new.map = state.map
      BY <1>1, <1>5, <3>3, ConcatEmptySeq
    <3> QED BY <1>1, <2>1, <3>2, <3>3, <3>4
  <2>3. CASE count # 0
    <3>1. Covers(new.map, 0, new.base) /\ ToSet(new.map) = ToSet(state.map) \union ToSet(pieces)
      BY <1>1, <1>5, <1>6, <2>3, JoinMaps
    <3>2. new.map # << >>
      BY <3>1 DEF Covers, Chain
    <3> QED BY <2>1, <3>1, <3>2 DEF CoversTo
  <2> QED BY <2>2, <2>3
<1>8. Used(new.map) = Used(map)
  BY <1>1, <1>6, <1>7 DEF Used
<1>9. \A t \in DOMAIN lists : t <= s =>
        /\ Fresh(new.refs[t])
        /\ \A b \in ToSet(new.refs[t]) : Piece("L", b, t) \in ToSet(new.map)
  <2> SUFFICES ASSUME NEW t \in DOMAIN lists, t <= s
               PROVE  /\ Fresh(new.refs[t])
                      /\ \A b \in ToSet(new.refs[t]) : Piece("L", b, t) \in ToSet(new.map)
    OBVIOUS
  <2>0. DOMAIN state.refs = DOMAIN lists
    BY <1>1
  <2>1. CASE t = s
    <3>1. new.refs[t] = bases
      BY <1>5, <2>0, <2>1
    <3> QED BY <1>6, <1>7, <2>1, <3>1
  <2>2. CASE t # s
    <3>1. new.refs[t] = state.refs[t]
      BY <1>5, <2>0, <2>2
    <3>2. t <= s - 1
      BY <1>2, <2>2
    <3> QED BY <1>1, <1>7, <3>1, <3>2
  <2> QED BY <2>1, <2>2
<1>10. new.refs \in [DOMAIN lists -> Seq(Nat)]
  <2>0. DOMAIN state.refs = DOMAIN lists /\ \A t \in DOMAIN lists : state.refs[t] \in Seq(Nat)
    BY <1>1
  <2>1. bases \in Seq(Nat)
    BY <1>6 DEF Fresh
  <2> QED BY <1>5, <2>0, <2>1
<1>11. new.base \in Nat /\ new.base <= last
  <2>1. count * s \in Nat
    BY <1>2, <1>3
  <2> QED BY <1>1, <1>3, <1>5, <2>1
<1>12. new \in [base : Nat, map : Seq(Pieces), refs : {lists} \union [DOMAIN lists -> Seq(Nat)]]
  <2>1. new = [base |-> new.base, map |-> new.map, refs |-> new.refs]
    BY <1>4, <1>5
  <2> QED BY <1>7, <1>10, <1>11, <2>1
<1> QED
  BY <1>7, <1>8, <1>9, <1>11, <1>12 DEF Cutting, new

\* The space behind the processes is cut into pieces of the frequent sizes and
\* what is left of it.
LEMMA ReorderGives ==
    ASSUME NEW map, NEW last, Covers(map, 0, last), ~(map[Len(map)].status = "P"),
           NEW lists, DOMAIN lists \subseteq Nat \ {0},
           \A t \in DOMAIN lists : lists[t] \in Seq(Nat),
           NEW max \in Nat, \A t \in DOMAIN lists : t <= max
    PROVE  /\ Covers(ReorderReferences(map, lists, max).map, 0, last)
           /\ ListsFresh(ReorderReferences(map, lists, max).map, ReorderReferences(map, lists, max).refs)
           /\ DOMAIN ReorderReferences(map, lists, max).refs = DOMAIN lists
           /\ Used(ReorderReferences(map, lists, max).map) = Used(map)
<1> DEFINE end == Last(map)
           S == [s \in 0 .. max |-> Cutting(map, lists, last, s)]
           start == [base |-> end.base, map |-> Front(map), refs |-> lists]
           e == CHOOSE cut : CutLoop(map, lists, max, cut)
           N == Len(map)
<1>1. Chain(map) /\ map[1].base = 0 /\ End(map[N]) = last
  BY DEF Covers
<1>2. /\ map \in Seq(Pieces) /\ N \in Nat \ {0} /\ ToSet(map) = {map[k] : k \in 1 .. N}
      /\ \A k \in 1 .. N : map[k] \in Pieces
      /\ \A k \in 1 .. N - 1 : End(map[k]) = map[k + 1].base
  BY <1>1, ChainType DEF Chain
<1>3. end = map[N]
  BY DEF Last
<1> HIDE DEF N
<1>4. end \in Pieces /\ end.base \in Nat /\ last \in Nat /\ end.base < last /\ End(end) = last
  <2>1. N \in 1 .. N
    BY <1>2
  <2> QED BY <1>1, <1>2, <1>3, <2>1, PieceType
<1>5. /\ Front(map) \in Seq(Pieces) /\ Len(Front(map)) = N - 1
      /\ \A k \in 1 .. N - 1 : Front(map)[k] = map[k]
  <2>1. Front(map) = SubSeq(map, 1, N - 1)
    BY DEF Front, N
  <2>2. \A k \in 1 .. N - 1 : map[k] \in Pieces
    BY <1>2
  <2>3. /\ SubSeq(map, 1, N - 1) \in Seq(Pieces)
        /\ Len(SubSeq(map, 1, N - 1)) = IF 1 <= N - 1 THEN (N - 1) - 1 + 1 ELSE 0
        /\ \A k \in 1 .. (N - 1) - 1 + 1 : SubSeq(map, 1, N - 1)[k] = map[1 + k - 1]
    <3>1. 1 \in Int /\ N - 1 \in Int
      BY <1>2
    <3> QED BY <2>2, <3>1, SubSeqProperties
  <2>4. (N - 1) - 1 + 1 = N - 1 /\ (~(1 <= N - 1) => N - 1 = 0) /\ \A k \in 1 .. N - 1 : 1 + k - 1 = k
    BY <1>2
  <2> QED BY <2>1, <2>3, <2>4
<1>6. CoversTo(Front(map), end.base) /\ Used(Front(map)) = Used(map)
  <2>1. DOMAIN Front(map) = 1 .. N - 1
    BY <1>5, LenProperties
  <2>2. ToSet(Front(map)) = {map[k] : k \in 1 .. N - 1}
    BY <1>5, <2>1 DEF ToSet
  <2>3. Used(Front(map)) = Used(map)
    <3>1. \A k \in 1 .. N : k \in 1 .. N - 1 \/ k = N
      BY <1>2
    <3>2. \A k \in 1 .. N - 1 : k \in 1 .. N
      BY <1>2
    <3>3. ~(map[N].status = "P")
      BY DEF N
    <3> QED BY <1>2, <2>2, <3>1, <3>2, <3>3 DEF Used
  <2>4. CASE N = 1
    <3>1. Front(map) = << >>
      BY <1>5, <2>4, EmptySeq
    <3> QED BY <1>1, <1>3, <2>3, <2>4, <3>1 DEF CoversTo
  <2>5. CASE N # 1
    <3>1. N - 1 \in Nat \ {0} /\ 1 \in 1 .. N - 1 /\ N - 1 \in 1 .. N - 1
      BY <1>2, <2>5
    <3>2. Front(map) # << >>
      BY <1>5, <3>1, EmptySeq
    <3>3. \A k \in 1 .. Len(Front(map)) - 1 : End(Front(map)[k]) = Front(map)[k + 1].base
      <4> TAKE k \in 1 .. Len(Front(map)) - 1
      <4>1. k \in 1 .. N - 1 /\ k + 1 \in 1 .. N - 1
        BY <1>2, <1>5
      <4> QED BY <1>2, <1>5, <4>1
    <3>4. Chain(Front(map))
      BY <1>5, <3>2, <3>3 DEF Chain
    <3>5. Front(map)[1].base = 0
      BY <1>1, <1>5, <3>1
    <3>6. End(Front(map)[N - 1]) = end.base
      <4>1. (N - 1) + 1 = N
        BY <1>2
      <4> QED BY <1>2, <1>3, <1>5, <3>1, <4>1
    <3> QED BY <1>5, <2>3, <3>2, <3>4, <3>5, <3>6 DEF Covers, CoversTo
  <2> QED BY <2>4, <2>5
<1>7. start \in S[0]
  <2>1. start \in [base : Nat, map : Seq(Pieces), refs : {lists} \union [DOMAIN lists -> Seq(Nat)]]
    BY <1>4, <1>5
  <2>2. \A t \in DOMAIN lists : ~(t <= 0)
    OBVIOUS
  <2>3. start.base = end.base /\ start.map = Front(map) /\ start.base <= last
    BY <1>4
  <2> HIDE DEF start, end
  <2>4. start \in Cutting(map, lists, last, 0)
    BY <1>6, <2>1, <2>2, <2>3 DEF Cutting
  <2> QED BY <2>4
<1> HIDE DEF end, start
<1>8. ASSUME NEW s \in 1 .. max, NEW state \in Cutting(map, lists, last, s - 1)
      PROVE  (IF s \in DOMAIN lists THEN CutTurn(end, lists, s, state) ELSE state)
                \in Cutting(map, lists, last, s)
  <2>1. CASE s \in DOMAIN lists
    BY <1>4, <2>1, CutTurnKeeps
  <2>2. CASE s \notin DOMAIN lists
    <3>1. \A t \in DOMAIN lists : t <= s => t <= s - 1
      BY <2>2
    <3> QED BY <2>2, <3>1 DEF Cutting
  <2> QED BY <2>1, <2>2
<1>9. CutLoop(map, lists, max, e)
  <2> DEFINE turn == [s \in 1 .. max |-> [state \in Cutting(map, lists, last, s - 1) |->
                        IF s \in DOMAIN lists THEN CutTurn(end, lists, s, state) ELSE state]]
  <2>1. \A s \in 1 .. max : \A state \in S[s - 1] :
           /\ turn[s][state] = IF s \in DOMAIN lists THEN CutTurn(end, lists, s, state) ELSE state
           /\ turn[s][state] \in S[s]
    <3> TAKE s \in 1 .. max
    <3>1. s - 1 \in 0 .. max /\ s \in 0 .. max
      OBVIOUS
    <3> TAKE state \in S[s - 1]
    <3>2. state \in Cutting(map, lists, last, s - 1)
      BY <3>1
    <3> QED BY <1>8, <3>1, <3>2
  <2> HIDE DEF S, turn
  <2>6. start \in S[0] /\ \A s \in 1 .. max : \A state \in S[s - 1] : turn[s][state] \in S[s]
    BY <1>7, <2>1
  <2>7. PICK f : Staged(max, S, start, turn, f)
    BY <2>6, StagedLoop
  <2>2. /\ f[0] = start /\ f = [s \in 0 .. max |-> f[s]]
        /\ \A s \in 1 .. max : f[s] = turn[s][f[s - 1]]
        /\ \A s \in 0 .. max : f[s] \in S[s]
    BY <2>7 DEF Staged
  <2>3. \A s \in 1 .. max : f[s] = IF s \in DOMAIN lists THEN CutTurn(end, lists, s, f[s - 1]) ELSE f[s - 1]
    <3> TAKE s \in 1 .. max
    <3>1. f[s - 1] \in S[s - 1]
      BY <2>2
    <3> QED BY <2>1, <2>2, <3>1
  <2>4. f = [s \in 0 .. max |->
               IF s = 0 THEN start
               ELSE IF s \in DOMAIN lists THEN CutTurn(end, lists, s, f[s - 1]) ELSE f[s - 1]]
    <3>1. \A s \in 0 .. max : f[s] =
               IF s = 0 THEN start
               ELSE IF s \in DOMAIN lists THEN CutTurn(end, lists, s, f[s - 1]) ELSE f[s - 1]
      BY <2>2, <2>3
    <3> QED BY <2>2, <3>1
  <2>5. CutLoop(map, lists, max, f)
    BY <2>4 DEF CutLoop, start, end
  <2> QED BY <2>5
<1> HIDE DEF e
<1>10. /\ e[0] = start
       /\ \A s \in 1 .. max : e[s] = IF s \in DOMAIN lists THEN CutTurn(end, lists, s, e[s - 1]) ELSE e[s - 1]
  BY <1>9 DEF CutLoop, start, end
<1>11. e[max] \in S[max]
  <2>1. ASSUME NEW s \in 1 .. max, e[s - 1] \in S[s - 1] PROVE e[s] \in S[s]
    <3>1. s - 1 \in 0 .. max /\ s \in 0 .. max
      OBVIOUS
    <3>2. e[s - 1] \in Cutting(map, lists, last, s - 1)
      BY <2>1, <3>1
    <3>3. e[s] \in Cutting(map, lists, last, s)
      BY <1>8, <1>10, <3>2
    <3> QED BY <3>1, <3>3
  <2>2. e[0] \in S[0]
    BY <1>7, <1>10
  <2> HIDE DEF S
  <2>3. \A s \in 0 .. max : e[s] \in S[s]
    BY <2>1, <2>2, LoopInvariant
  <2> QED BY <2>3
<1> DEFINE all == e[max]
           new == ReorderReferences(map, lists, max)
<1>12. all \in Cutting(map, lists, last, max)
  BY <1>11
<1>13. new.map = (IF all.base = End(end) THEN all.map
                  ELSE Append(all.map, Piece("L", all.base, End(end) - all.base)))
       /\ new.refs = all.refs
  <2>1. new = Reordered(end, all)
    BY ReorderIsLoop DEF e, end
  <2> HIDE DEF new, all
  <2> QED BY <2>1 DEF Reordered
<1> HIDE DEF all, new
<1>14. /\ all.base \in Nat /\ all.map \in Seq(Pieces) /\ all.base <= last
       /\ all.refs = lists \/ all.refs \in [DOMAIN lists -> Seq(Nat)]
       /\ CoversTo(all.map, all.base) /\ Used(all.map) = Used(map)
       /\ \A t \in DOMAIN lists :
             /\ Fresh(all.refs[t])
             /\ \A b \in ToSet(all.refs[t]) : Piece("L", b, t) \in ToSet(all.map)
  BY <1>12 DEF Cutting
<1>15. Covers(new.map, 0, last) /\ ToSet(all.map) \subseteq ToSet(new.map) /\ Used(new.map) = Used(map)
  <2>1. CASE all.base = last
    <3>1. new.map = all.map
      BY <1>4, <1>13, <2>1
    <3>2. all.map # << >>
      BY <1>4, <1>14, <2>1 DEF CoversTo
    <3> QED BY <1>14, <2>1, <3>1, <3>2 DEF CoversTo
  <2>2. CASE all.base # last
    <3> DEFINE piece == Piece("L", all.base, last - all.base)
    <3>1. new.map = Append(all.map, piece)
      BY <1>4, <1>13, <2>2
    <3>2. all.base < last
      BY <1>4, <1>14, <2>2
    <3>3. Covers(<<piece>>, all.base, last) /\ ToSet(<<piece>>) = {piece}
      BY <1>4, <1>14, <3>2, OnePiece
    <3>4. piece \in Pieces /\ piece.status = "L"
      BY <1>4, <1>14, <3>2 DEF Piece, Pieces
    <3> HIDE DEF piece
    <3>5. new.map = all.map \o <<piece>>
      BY <1>14, <3>1, <3>4, AppendIsConcat
    <3>6. Covers(new.map, 0, last) /\ ToSet(new.map) = ToSet(all.map) \union {piece}
      BY <1>14, <3>3, <3>5, JoinMaps
    <3> QED BY <1>14, <3>4, <3>6 DEF Used
  <2> QED BY <2>1, <2>2
<1>16. DOMAIN new.refs = DOMAIN lists
  BY <1>13, <1>14
<1>17. ListsFresh(new.map, new.refs)
  BY <1>13, <1>14, <1>15, <1>16 DEF ListsFresh
<1> QED
  BY <1>15, <1>16, <1>17 DEF new

-----------------------------------------------------------------------------
(* The paginators. *)

LEMMA FramesFacts ==
    /\ NumFrames \in Nat \ {0} /\ MaxGap \in Nat
    /\ IsFiniteSet(Frames) /\ Frames # {} /\ Frames \subseteq Nat /\ Cardinality(Frames) = NumFrames
    /\ None \notin Frames
<1>1. NumFrames \in Nat \ {0} /\ MaxGap \in Nat
  BY PaginatorAssumption
<1>2. IsFiniteSet(0 .. NumFrames - 1) /\ Cardinality(0 .. NumFrames - 1) = NumFrames
  <2>1. 0 \in Int /\ NumFrames - 1 \in Int /\ ~(0 > NumFrames - 1)
    BY <1>1
  <2>2. /\ IsFiniteSet(0 .. NumFrames - 1)
        /\ Cardinality(0 .. NumFrames - 1) = IF 0 > NumFrames - 1 THEN 0 ELSE (NumFrames - 1) - 0 + 1
    BY <2>1, FS_Interval
  <2> QED BY <1>1, <2>1, <2>2
<1>3. 0 \in Frames /\ Frames \subseteq Nat /\ None \notin Frames
  BY <1>1 DEF Frames, None
<1>4. Frames # {}
  BY <1>3
<1> QED
  BY <1>1, <1>2, <1>3, <1>4 DEF Frames

\* A finite set has a lowest element in a strict order, given by its pairs.
LEMMA LowestOf ==
    ASSUME NEW S, IsFiniteSet(S), S # {}, NEW R,
           \A x \in S : <<x, x>> \notin R,
           \A x, y, z \in S : <<x, y>> \in R /\ <<y, z>> \in R => <<x, z>> \in R
    PROVE  \E x \in S : \A y \in S : <<y, x>> \notin R
<1> DEFINE G == {T \in SUBSET S : T = {} \/ \E x \in T : \A y \in T : <<y, x>> \notin R}
<1>1. {} \in G
  OBVIOUS
<1>2. ASSUME NEW T \in SUBSET S, NEW z \in S \ T, T \in G
      PROVE  T \union {z} \in G
  <2>1. CASE T = {}
    BY <2>1
  <2>2. CASE T # {}
    <3>1. PICK x \in T : \A y \in T : <<y, x>> \notin R
      BY <1>2, <2>2
    <3>2. CASE <<z, x>> \notin R
      BY <3>1, <3>2
    <3>3. CASE <<z, x>> \in R
      <4>1. \A y \in T : <<y, z>> \notin R
        BY <3>1, <3>3
      <4> QED BY <4>1
    <3> QED BY <3>2, <3>3
  <2> QED BY <2>1, <2>2
<1> HIDE DEF G
<1>3. \A T \in SUBSET S : T \in G
  BY <1>1, <1>2, FiniteSetInduction
<1> QED
  BY <1>3 DEF G

\* One number is below another if it has a 0 where the other has a 1, and the
\* bits above that agree.
LEMMA BelowIs ==
    ASSUME NEW a \in SUBSET Frames, NEW b \in SUBSET Frames
    PROVE  Below(a, b) <=> \E m \in b \ a : \A k \in Frames : m < k => (k \in a <=> k \in b)
<1> DEFINE D == SymDiff(a, b)
<1>1. D \subseteq Frames /\ \A k \in Frames : k \in D <=> (k \in a <=> k \notin b)
  BY DEF SymDiff
<1>2. Frames \subseteq Nat /\ Frames \subseteq Int /\ IsFiniteSet(D)
  BY <1>1, FramesFacts, FS_Subset
<1>3. (a # b) <=> D # {}
  BY <1>1
<1> HIDE DEF D
<1>4. D # {} => Max(D) \in D /\ \A y \in D : y <= Max(D)
  BY <1>1, <1>2, MaxIn
<1>5. ASSUME Below(a, b) PROVE \E m \in b \ a : \A k \in Frames : m < k => (k \in a <=> k \in b)
  <2>1. D # {} /\ Max(D) \in b
    BY <1>3, <1>5 DEF Below, D
  <2>2. PICK m \in D : m = Max(D)
    BY <1>4, <2>1
  <2>3. m \in b \ a /\ m \in Nat
    BY <1>1, <1>2, <2>1, <2>2
  <2>4. \A k \in Frames : m < k => k \notin D
    BY <1>2, <1>4, <2>1, <2>2, <2>3
  <2> QED BY <1>1, <2>3, <2>4
<1>6. ASSUME NEW m \in b \ a, \A k \in Frames : m < k => (k \in a <=> k \in b) PROVE Below(a, b)
  <2>1. m \in D /\ D # {} /\ a # b
    BY <1>1
  <2>2. PICK x \in D : x = Max(D) /\ \A y \in D : y <= x
    BY <1>4, <2>1
  <2>3. m <= x /\ x \in Frames /\ x \in Nat /\ m \in Nat
    BY <1>1, <1>2, <2>1, <2>2
  <2>4. ~(m < x)
    BY <1>1, <1>6, <2>2, <2>3
  <2>5. x = m
    BY <2>3, <2>4
  <2> QED BY <2>1, <2>2, <2>5 DEF Below, D
<1> QED
  BY <1>5, <1>6

LEMMA BelowOrder ==
    /\ \A a \in SUBSET Frames : ~Below(a, a)
    /\ \A a, b, c \in SUBSET Frames : Below(a, b) /\ Below(b, c) => Below(a, c)
<1>1. \A a \in SUBSET Frames : ~Below(a, a)
  BY DEF Below
<1>2. ASSUME NEW a \in SUBSET Frames, NEW b \in SUBSET Frames, NEW c \in SUBSET Frames,
             Below(a, b), Below(b, c)
      PROVE  Below(a, c)
  <2>1. PICK m \in b \ a : \A k \in Frames : m < k => (k \in a <=> k \in b)
    BY <1>2, BelowIs
  <2>2. PICK n \in c \ b : \A k \in Frames : n < k => (k \in b <=> k \in c)
    BY <1>2, BelowIs
  <2>3. m \in Frames /\ n \in Frames /\ m # n /\ \A k \in Frames : k \in Nat
    BY FramesFacts
  <2>4. CASE m < n
    <3>1. n \in c \ a
      BY <2>1, <2>3, <2>4
    <3>2. \A k \in Frames : n < k => (k \in a <=> k \in c)
      BY <2>1, <2>2, <2>3, <2>4
    <3> QED BY <3>1, <3>2, BelowIs
  <2>5. CASE n < m
    <3>1. m \in c \ a
      BY <2>1, <2>2, <2>3, <2>5
    <3>2. \A k \in Frames : m < k => (k \in a <=> k \in c)
      BY <2>1, <2>2, <2>3, <2>5
    <3> QED BY <3>1, <3>2, BelowIs
  <2> QED BY <2>3, <2>4, <2>5
<1> QED
  BY <1>1, <1>2

LEMMA LowestIn ==
    ASSUME NEW bits \in [Frames -> SUBSET Frames]
    PROVE  /\ LowestFrame(bits) \in Frames
           /\ \A g \in Frames : ~Below(bits[g], bits[LowestFrame(bits)])
<1> DEFINE R == {x \in Frames \X Frames : Below(bits[x[1]], bits[x[2]])}
           L == {f \in Frames : \A g \in Frames : ~Below(bits[g], bits[f])}
<1>1. \A f, g \in Frames : <<f, g>> \in R <=> Below(bits[f], bits[g])
  OBVIOUS
<1>2. \A f \in Frames : bits[f] \in SUBSET Frames
  OBVIOUS
<1>3. \A f \in Frames : <<f, f>> \notin R
  BY <1>1, <1>2, BelowOrder
<1>4. \A f, g, h \in Frames : <<f, g>> \in R /\ <<g, h>> \in R => <<f, h>> \in R
  <2> HIDE DEF R
  <2> QED BY <1>1, <1>2, BelowOrder
<1> HIDE DEF R
<1>5. \E f \in Frames : \A g \in Frames : <<g, f>> \notin R
  BY <1>3, <1>4, FramesFacts, LowestOf
<1>6. L # {} /\ L \subseteq Nat
  BY <1>1, <1>5, FramesFacts
<1>7. LowestFrame(bits) = Min(L)
  BY DEF LowestFrame
<1> HIDE DEF L
<1>8. Min(L) \in L
  BY <1>6, MinIn
<1> QED
  BY <1>7, <1>8 DEF L

LEMMA FarthestIn ==
    ASSUME NEW c, c.next \in [Frames -> 0 .. Never]
    PROVE  FarthestFrame(c) \in Frames
<1> DEFINE R == {x \in Frames \X Frames : c.next[x[1]] > c.next[x[2]]}
           L == {f \in Frames : \A g \in Frames : c.next[g] <= c.next[f]}
<1>1. \A f, g \in Frames : <<f, g>> \in R <=> c.next[f] > c.next[g]
  OBVIOUS
<1>2. \A f \in Frames : c.next[f] \in Int
  BY FramesFacts DEF Never
<1>3. \A f \in Frames : <<f, f>> \notin R
  BY <1>1, <1>2
<1>4. \A f, g, h \in Frames : <<f, g>> \in R /\ <<g, h>> \in R => <<f, h>> \in R
  <2> HIDE DEF R
  <2> QED BY <1>1, <1>2
<1> HIDE DEF R
<1>5. \E f \in Frames : \A g \in Frames : <<g, f>> \notin R
  BY <1>3, <1>4, FramesFacts, LowestOf
<1>6. L # {} /\ L \subseteq Nat
  <2>1. PICK f \in Frames : \A g \in Frames : <<g, f>> \notin R
    BY <1>5
  <2>2. \A g \in Frames : c.next[g] <= c.next[f]
    <3> TAKE g \in Frames
    <3>1. ~(c.next[g] > c.next[f]) /\ c.next[g] \in Int /\ c.next[f] \in Int
      BY <1>1, <1>2, <2>1
    <3> QED BY <3>1
  <2>3. Frames \subseteq Nat
    BY FramesFacts
  <2> QED BY <2>2, <2>3
<1>7. FarthestFrame(c) = Min(L)
  BY DEF FarthestFrame
<1> HIDE DEF L
<1>8. Min(L) \in L
  BY <1>6, MinIn
<1> QED
  BY <1>7, <1>8 DEF L

\* The list of FIFO.
FrameList(list) == list \in Seq(Frames) /\ Len(list) <= NumFrames

LEMMA FrameListIs == \A list : list \in SeqOf(Frames, NumFrames) <=> FrameList(list)
<1>1. ASSUME NEW list, list \in SeqOf(Frames, NumFrames) PROVE FrameList(list)
  <2>1. PICK m \in 0 .. NumFrames : list \in [1 .. m -> Frames]
    BY <1>1 DEF SeqOf
  <2>2. m \in Nat /\ m <= NumFrames
    BY <2>1, FramesFacts
  <2>3. list \in Seq(Frames) /\ Len(list) = m
    BY <2>1, <2>2
  <2> QED BY <2>2, <2>3 DEF FrameList
<1>2. ASSUME NEW list, FrameList(list) PROVE list \in SeqOf(Frames, NumFrames)
  <2>1. Len(list) \in 0 .. NumFrames /\ list \in [1 .. Len(list) -> Frames]
    BY <1>2, FramesFacts DEF FrameList
  <2> QED BY <2>1 DEF SeqOf
<1> QED
  BY <1>1, <1>2

LEMMA ControlIs ==
    \A c : c \in Control <=>
       /\ c = [next |-> c.next, fifo |-> c.fifo, matrix |-> c.matrix, timer |-> c.timer, bit_r |-> c.bit_r]
       /\ c.next \in [Frames -> 0 .. Never] /\ FrameList(c.fifo)
       /\ c.matrix \in [Frames -> SUBSET Frames] /\ c.timer \in [Frames -> SUBSET Frames]
       /\ c.bit_r \in [Frames -> BOOLEAN]
<1>1. ASSUME NEW c, c \in Control
      PROVE  /\ c = [next |-> c.next, fifo |-> c.fifo, matrix |-> c.matrix, timer |-> c.timer, bit_r |-> c.bit_r]
             /\ c.next \in [Frames -> 0 .. Never] /\ FrameList(c.fifo)
             /\ c.matrix \in [Frames -> SUBSET Frames] /\ c.timer \in [Frames -> SUBSET Frames]
             /\ c.bit_r \in [Frames -> BOOLEAN]
  <2>1. c.fifo \in SeqOf(Frames, NumFrames)
    BY <1>1 DEF Control
  <2>2. FrameList(c.fifo)
    BY <2>1, FrameListIs
  <2> QED BY <1>1, <2>2 DEF Control
<1>2. ASSUME NEW c,
             c = [next |-> c.next, fifo |-> c.fifo, matrix |-> c.matrix, timer |-> c.timer, bit_r |-> c.bit_r],
             c.next \in [Frames -> 0 .. Never], FrameList(c.fifo),
             c.matrix \in [Frames -> SUBSET Frames], c.timer \in [Frames -> SUBSET Frames],
             c.bit_r \in [Frames -> BOOLEAN]
      PROVE  c \in Control
  <2>1. c.fifo \in SeqOf(Frames, NumFrames)
    BY <1>2, FrameListIs
  <2> QED BY <1>2, <2>1 DEF Control
<1> QED
  BY <1>1, <1>2

\* A list without repetitions is as long as its set is large.
LEMMA ListSize ==
    ASSUME NEW list \in Seq(Frames)
    PROVE  /\ IsFiniteSet(ToSet(list)) /\ Cardinality(ToSet(list)) <= Len(list)
           /\ IsInjective(list) => Cardinality(ToSet(list)) = Len(list)
BY SequenceSize

\* As long as the list of FIFO is shorter than the memory, it misses a frame.
LEMMA ListFull ==
    ASSUME NEW list, FrameList(list)
    PROVE  /\ ToSet(list) \subseteq Frames
           /\ Len(list) # NumFrames => ToSet(list) # Frames
           /\ IsInjective(list) => (Len(list) = NumFrames <=> ToSet(list) = Frames)
<1>1. list \in Seq(Frames) /\ Len(list) <= NumFrames /\ Len(list) \in Nat
  BY DEF FrameList
<1>2. ToSet(list) \subseteq Frames
  BY <1>1 DEF ToSet
<1>3. /\ IsFiniteSet(ToSet(list)) /\ Cardinality(ToSet(list)) <= Len(list)
      /\ IsInjective(list) => Cardinality(ToSet(list)) = Len(list)
  BY <1>1, ListSize
<1>4. Cardinality(Frames) = NumFrames /\ IsFiniteSet(Frames) /\ NumFrames \in Nat
  BY FramesFacts
<1>5. Cardinality(ToSet(list)) \in Nat
  BY <1>3, FS_CardinalityType
<1>6. Len(list) # NumFrames => ToSet(list) # Frames
  BY <1>1, <1>3, <1>4, <1>5
<1>7. Cardinality(Frames) = Cardinality(ToSet(list)) => Frames = ToSet(list)
  BY <1>2, <1>4, FS_Subset
<1> QED
  BY <1>2, <1>3, <1>4, <1>6, <1>7

\* What FIFO's choice needs: every frame in use is in the list.
LEMMA NextIn ==
    ASSUME NEW c, FrameList(c.fifo), NEW table, Occupied(table) \subseteq ToSet(c.fifo)
    PROVE  /\ NextInLine(c, table) \in Frames
           /\ Len(c.fifo) # NumFrames => table[NextInLine(c, table)] = None
<1>1. c.fifo \in Seq(Frames) /\ NumFrames \in Nat \ {0}
  BY FramesFacts DEF FrameList
<1>2. CASE Len(c.fifo) = NumFrames
  <2>1. NextInLine(c, table) = Head(c.fifo)
    BY <1>2 DEF NextInLine
  <2>2. c.fifo # << >> /\ Head(c.fifo) \in Frames
    BY <1>1, <1>2
  <2> QED BY <1>2, <2>1, <2>2
<1>3. CASE Len(c.fifo) # NumFrames
  <2> DEFINE Spare == {f \in Frames : table[f] = None}
  <2>1. NextInLine(c, table) = Min(Spare)
    BY <1>3 DEF NextInLine
  <2>2. Spare # {} /\ Spare \subseteq Nat
    <3>1. ToSet(c.fifo) # Frames /\ ToSet(c.fifo) \subseteq Frames
      BY <1>3, ListFull
    <3>2. PICK f \in Frames : f \notin ToSet(c.fifo)
      BY <3>1
    <3>3. f \in Spare
      BY <3>2 DEF Occupied
    <3> QED BY <3>3, FramesFacts
  <2> HIDE DEF Spare
  <2>3. Min(Spare) \in Spare
    BY <2>2, MinIn
  <2> QED BY <2>1, <2>3 DEF Spare
<1> QED
  BY <1>2, <1>3

\* The frame that get_new_frame gives.
LEMMA NewFrameIn ==
    ASSUME NEW pm \in AllPaginators, NEW c \in Control, NEW table,
           pm = "FIFO" => Occupied(table) \subseteq ToSet(c.fifo)
    PROVE  /\ NewFrame(pm, c, table) \in Frames
           /\ pm = "FIFO" => NewFrame(pm, c, table) = NextInLine(c, table)
           /\ pm = "LRU2" => NewFrame(pm, c, table) = LowestFrame(c.matrix)
<1>1. /\ c.next \in [Frames -> 0 .. Never] /\ FrameList(c.fifo)
      /\ c.matrix \in [Frames -> SUBSET Frames] /\ c.timer \in [Frames -> SUBSET Frames]
  BY ControlIs
<1>2. CASE pm = "Optimal"
  <2>1. NewFrame(pm, c, table) = FarthestFrame(c)
    BY <1>2, Zenon DEF NewFrame
  <2> QED BY <1>1, <1>2, <2>1, FarthestIn
<1>3. CASE pm = "FIFO"
  <2>1. NewFrame(pm, c, table) = NextInLine(c, table)
    BY <1>3, Zenon DEF NewFrame
  <2> QED BY <1>1, <1>3, <2>1, NextIn
<1>4. CASE pm = "LRU2"
  <2>1. NewFrame(pm, c, table) = LowestFrame(c.matrix)
    BY <1>4, Zenon DEF NewFrame
  <2> QED BY <1>1, <1>4, <2>1, LowestIn
<1>5. CASE pm = "LRU4"
  <2>1. NewFrame(pm, c, table) = LowestFrame(c.timer)
    BY <1>5, Zenon DEF NewFrame
  <2> QED BY <1>1, <1>5, <2>1, LowestIn
<1> QED
  BY <1>2, <1>3, <1>4, <1>5 DEF AllPaginators

LEMMA EnqueuedIs ==
    ASSUME NEW c, FrameList(c.fifo), NEW frame \in Frames
    PROVE  FrameList(Enqueued(c, frame))
<1> DEFINE kept == IF Len(c.fifo) = NumFrames THEN Tail(c.fifo) ELSE c.fifo
<1>1. c.fifo \in Seq(Frames) /\ Len(c.fifo) <= NumFrames /\ NumFrames \in Nat \ {0}
  BY FramesFacts DEF FrameList
<1>2. kept \in Seq(Frames) /\ Len(kept) < NumFrames
  BY <1>1
<1>3. Enqueued(c, frame) = Append(kept, frame)
  BY DEF Enqueued
<1> HIDE DEF kept
<1> QED
  BY <1>1, <1>2, <1>3 DEF FrameList

\* What each paginator does with its own data.
Touches(pm, c, new, frame, fault) ==
    /\ new \in Control
    /\ pm = "FIFO" => new.fifo = IF fault THEN Enqueued(c, frame) ELSE c.fifo
    /\ pm = "LRU2" => new.matrix = [f \in Frames |-> (IF f = frame THEN Frames ELSE c.matrix[f]) \ {frame}]

LEMMA TouchedIs ==
    ASSUME NEW pm \in AllPaginators, NEW c \in Control, NEW frame \in Frames,
           NEW fault \in BOOLEAN, NEW gap \in 0 .. Never
    PROVE  Touches(pm, c, Touched(pm, c, frame, fault, gap), frame, fault)
<1>1. /\ c = [next |-> c.next, fifo |-> c.fifo, matrix |-> c.matrix, timer |-> c.timer, bit_r |-> c.bit_r]
      /\ c.next \in [Frames -> 0 .. Never] /\ FrameList(c.fifo)
      /\ c.matrix \in [Frames -> SUBSET Frames] /\ c.timer \in [Frames -> SUBSET Frames]
      /\ c.bit_r \in [Frames -> BOOLEAN]
  BY ControlIs
<1> DEFINE new == Touched(pm, c, frame, fault, gap)
<1>2. CASE pm = "Optimal"
  <2>1. new = [c EXCEPT !.next[frame] = gap]
    BY <1>2, Zenon DEF Touched
  <2> HIDE DEF new
  <2>2. /\ new = [next |-> new.next, fifo |-> new.fifo, matrix |-> new.matrix, timer |-> new.timer, bit_r |-> new.bit_r]
        /\ new.next \in [Frames -> 0 .. Never] /\ new.fifo = c.fifo
        /\ new.matrix = c.matrix /\ new.timer = c.timer /\ new.bit_r = c.bit_r
    BY <1>1, <2>1
  <2>3. new \in Control
    BY <1>1, <2>2, ControlIs
  <2> QED BY <1>2, <2>3 DEF Touches, new
<1>3. CASE pm = "FIFO"
  <2>1. new = IF fault THEN [c EXCEPT !.fifo = Enqueued(c, frame)] ELSE c
    BY <1>3, Zenon DEF Touched
  <2> HIDE DEF new
  <2>2. FrameList(Enqueued(c, frame))
    BY <1>1, EnqueuedIs
  <2>3. /\ new = [next |-> new.next, fifo |-> new.fifo, matrix |-> new.matrix, timer |-> new.timer, bit_r |-> new.bit_r]
        /\ new.fifo = (IF fault THEN Enqueued(c, frame) ELSE c.fifo) /\ new.next = c.next
        /\ new.matrix = c.matrix /\ new.timer = c.timer /\ new.bit_r = c.bit_r
    BY <1>1, <2>1
  <2>4. new \in Control
    BY <1>1, <2>2, <2>3, ControlIs
  <2> QED BY <1>3, <2>3, <2>4 DEF Touches, new
<1>4. CASE pm = "LRU2"
  <2> DEFINE rows == [f \in Frames |-> (IF f = frame THEN Frames ELSE c.matrix[f]) \ {frame}]
  <2>1. new = [c EXCEPT !.matrix = [f \in Frames |-> (IF f = frame THEN Frames ELSE @[f]) \ {frame}]]
    BY <1>4, Zenon DEF Touched
  <2>2. new = [c EXCEPT !.matrix = rows]
    BY <2>1
  <2>3. rows \in [Frames -> SUBSET Frames]
    BY <1>1
  <2> HIDE DEF new, rows
  <2>4. /\ new = [next |-> new.next, fifo |-> new.fifo, matrix |-> new.matrix, timer |-> new.timer, bit_r |-> new.bit_r]
        /\ new.fifo = c.fifo /\ new.next = c.next
        /\ new.matrix = rows /\ new.timer = c.timer /\ new.bit_r = c.bit_r
    BY <1>1, <2>2
  <2>5. new \in Control
    BY <1>1, <2>3, <2>4, ControlIs
  <2> QED BY <1>4, <2>4, <2>5 DEF Touches, new, rows
<1>5. CASE pm = "LRU4"
  <2>1. new = [c EXCEPT !.bit_r[frame] = TRUE]
    BY <1>5, Zenon DEF Touched
  <2> HIDE DEF new
  <2>2. /\ new = [next |-> new.next, fifo |-> new.fifo, matrix |-> new.matrix, timer |-> new.timer, bit_r |-> new.bit_r]
        /\ new.bit_r \in [Frames -> BOOLEAN] /\ new.fifo = c.fifo
        /\ new.matrix = c.matrix /\ new.timer = c.timer /\ new.next = c.next
    BY <1>1, <2>1
  <2>3. new \in Control
    BY <1>1, <2>2, ControlIs
  <2> QED BY <1>5, <2>3 DEF Touches, new
<1> QED
  BY <1>2, <1>3, <1>4, <1>5 DEF AllPaginators

\* What keeps a part of a part keeps a part.
LEMMA KeepsAlways ==
    ASSUME NEW r, NEW s, NEW t, Keeps(r, s), Keeps(s, t)
    PROVE  Keeps(r, t)
<1> SUFFICES ASSUME NEW i \in 1 .. Len(r), NEW j \in 1 .. Len(r), i < j
             PROVE  \E k, l \in 1 .. Len(t) : k < l /\ r[i] = t[k] /\ r[j] = t[l]
  BY DEF Keeps
<1>1. PICK k \in 1 .. Len(s), l \in 1 .. Len(s) : k < l /\ r[i] = s[k] /\ r[j] = s[l]
  BY DEF Keeps
<1>2. \E m, n \in 1 .. Len(t) : m < n /\ s[k] = t[m] /\ s[l] = t[n]
  BY <1>1 DEF Keeps
<1> QED
  BY <1>1, <1>2

Deletes(pm, c, new, frame) ==
    /\ new \in Control
    /\ pm = "FIFO" => new.fifo = RemoveFirst(c.fifo, frame)
    /\ pm = "LRU2" => \A f \in Frames \ {frame} : new.matrix[f] = c.matrix[f]

LEMMA DeletedIs ==
    ASSUME NEW pm \in AllPaginators, NEW c \in Control, NEW frame \in Frames
    PROVE  Deletes(pm, c, Deleted(pm, c, frame), frame)
<1>1. /\ c = [next |-> c.next, fifo |-> c.fifo, matrix |-> c.matrix, timer |-> c.timer, bit_r |-> c.bit_r]
      /\ c.next \in [Frames -> 0 .. Never] /\ FrameList(c.fifo)
      /\ c.matrix \in [Frames -> SUBSET Frames] /\ c.timer \in [Frames -> SUBSET Frames]
      /\ c.bit_r \in [Frames -> BOOLEAN]
  BY ControlIs
<1> DEFINE new == Deleted(pm, c, frame)
<1>2. CASE pm = "Optimal"
  <2>1. new = [c EXCEPT !.next[frame] = Never]
    BY <1>2, Zenon DEF Deleted
  <2> HIDE DEF new
  <2>0. Never \in 0 .. Never
    BY FramesFacts DEF Never
  <2>2. /\ new = [next |-> new.next, fifo |-> new.fifo, matrix |-> new.matrix, timer |-> new.timer, bit_r |-> new.bit_r]
        /\ new.next \in [Frames -> 0 .. Never] /\ new.fifo = c.fifo
        /\ new.matrix = c.matrix /\ new.timer = c.timer /\ new.bit_r = c.bit_r
    BY <1>1, <2>0, <2>1
  <2>3. new \in Control
    BY <1>1, <2>2, ControlIs
  <2> QED BY <1>2, <2>3 DEF Deletes, new
<1>3. CASE pm = "FIFO"
  <2> DEFINE left == RemoveFirst(c.fifo, frame)
  <2>1. new = [c EXCEPT !.fifo = RemoveFirst(@, frame)]
    BY <1>3, Zenon DEF Deleted
  <2>2. FrameList(left)
    <3>1. c.fifo \in Seq(Frames) /\ Len(c.fifo) <= NumFrames /\ NumFrames \in Nat /\ Len(c.fifo) \in Nat
      BY <1>1, FramesFacts DEF FrameList
    <3>2. left \in Seq(Frames) /\ Len(left) <= Len(c.fifo)
      BY <3>1, RemoveKeeps
    <3> HIDE DEF left
    <3>3. Len(left) \in Nat
      BY <3>2
    <3> QED BY <3>1, <3>2, <3>3 DEF FrameList
  <2>3. new = [c EXCEPT !.fifo = left]
    BY <2>1
  <2> HIDE DEF new, left
  <2>4. /\ new = [next |-> new.next, fifo |-> new.fifo, matrix |-> new.matrix, timer |-> new.timer, bit_r |-> new.bit_r]
        /\ new.fifo = left /\ new.next = c.next
        /\ new.matrix = c.matrix /\ new.timer = c.timer /\ new.bit_r = c.bit_r
    BY <1>1, <2>3
  <2>5. new \in Control
    BY <1>1, <2>2, <2>4, ControlIs
  <2> QED BY <1>3, <2>4, <2>5 DEF Deletes, new, left
<1>4. CASE pm = "LRU2"
  <2>1. new = [c EXCEPT !.matrix[frame] = {}]
    BY <1>4, Zenon DEF Deleted
  <2> HIDE DEF new
  <2>2. /\ new = [next |-> new.next, fifo |-> new.fifo, matrix |-> new.matrix, timer |-> new.timer, bit_r |-> new.bit_r]
        /\ new.matrix = [c.matrix EXCEPT ![frame] = {}] /\ new.fifo = c.fifo
        /\ new.next = c.next /\ new.timer = c.timer /\ new.bit_r = c.bit_r
    BY <1>1, <2>1
  <2>3. new.matrix \in [Frames -> SUBSET Frames] /\ \A f \in Frames \ {frame} : new.matrix[f] = c.matrix[f]
    BY <1>1, <2>2
  <2>4. new \in Control
    BY <1>1, <2>2, <2>3, ControlIs
  <2> QED BY <1>4, <2>3, <2>4 DEF Deletes, new
<1>5. CASE pm = "LRU4"
  <2>1. new = [c EXCEPT !.timer[frame] = {}]
    BY <1>5, Zenon DEF Deleted
  <2> HIDE DEF new
  <2>2. /\ new = [next |-> new.next, fifo |-> new.fifo, matrix |-> new.matrix, timer |-> new.timer, bit_r |-> new.bit_r]
        /\ new.timer = [c.timer EXCEPT ![frame] = {}] /\ new.fifo = c.fifo
        /\ new.matrix = c.matrix /\ new.bit_r = c.bit_r /\ new.next = c.next
    BY <1>1, <2>1
  <2>3. new.timer \in [Frames -> SUBSET Frames]
    BY <1>1, <2>2
  <2>4. new \in Control
    BY <1>1, <2>2, <2>3, ControlIs
  <2> QED BY <1>5, <2>4 DEF Deletes, new
<1> QED
  BY <1>2, <1>3, <1>4, <1>5 DEF AllPaginators

OtherFrame(f, f1, f2) == IF f = f1 THEN f2 ELSE IF f = f2 THEN f1 ELSE f

Swaps(pm, c, new, f1, f2) ==
    /\ new \in Control
    /\ pm = "FIFO" => /\ Len(new.fifo) = Len(c.fifo)
                      /\ \A i \in 1 .. Len(c.fifo) : new.fifo[i] = OtherFrame(c.fifo[i], f1, f2)

LEMMA SwappedIs ==
    ASSUME NEW pm \in AllPaginators, NEW c \in Control, NEW f1 \in Frames, NEW f2 \in Frames
    PROVE  Swaps(pm, c, Swapped(pm, c, f1, f2), f1, f2)
<1>1. /\ c = [next |-> c.next, fifo |-> c.fifo, matrix |-> c.matrix, timer |-> c.timer, bit_r |-> c.bit_r]
      /\ c.next \in [Frames -> 0 .. Never] /\ FrameList(c.fifo)
      /\ c.matrix \in [Frames -> SUBSET Frames] /\ c.timer \in [Frames -> SUBSET Frames]
      /\ c.bit_r \in [Frames -> BOOLEAN]
  BY ControlIs
<1> DEFINE Other(f) == CASE f = f1 -> f2 [] f = f2 -> f1 [] OTHER -> f
           Exchanged(x) == [f \in Frames |-> x[Other(f)]]
           renamed == [i \in DOMAIN c.fifo |-> Other(c.fifo[i])]
           new == Swapped(pm, c, f1, f2)
<1>2. \A f : Other(f) = OtherFrame(f, f1, f2)
  <2> TAKE f
  <2>1. CASE f = f1
    BY <2>1, Zenon DEF OtherFrame
  <2>2. CASE f # f1 /\ f = f2
    BY <2>2, Zenon DEF OtherFrame
  <2>3. CASE f # f1 /\ f # f2
    BY <2>3, Zenon DEF OtherFrame
  <2> QED BY <2>1, <2>2, <2>3
<1>3. \A f \in Frames : Other(f) \in Frames
  BY <1>2 DEF OtherFrame
<1>4. new = CASE pm = "Optimal" -> [c EXCEPT !.next = Exchanged(@)]
             [] pm = "FIFO"    -> [c EXCEPT !.fifo = [i \in DOMAIN @ |-> Other(@[i])]]
             [] pm = "LRU2"    -> [c EXCEPT !.matrix = Exchanged(@)]
             [] pm = "LRU4"    -> [c EXCEPT !.timer = Exchanged(@)]
  BY Zenon DEF Swapped
<1> HIDE DEF new
<1>5. \A x, S : x \in [Frames -> S] => Exchanged(x) \in [Frames -> S]
  <2> HIDE DEF Other
  <2> QED BY <1>3
<1>6. CASE pm = "Optimal"
  <2> DEFINE nexts == Exchanged(c.next)
  <2>1. new = [c EXCEPT !.next = nexts]
    BY <1>4, <1>6, Zenon
  <2>2. nexts \in [Frames -> 0 .. Never]
    <3> HIDE DEF Exchanged
    <3> QED BY <1>1, <1>5
  <2> HIDE DEF nexts
  <2>3. /\ new = [next |-> new.next, fifo |-> new.fifo, matrix |-> new.matrix, timer |-> new.timer, bit_r |-> new.bit_r]
        /\ new.next = nexts /\ new.fifo = c.fifo
        /\ new.matrix = c.matrix /\ new.timer = c.timer /\ new.bit_r = c.bit_r
    BY <1>1, <2>1
  <2>4. new \in Control
    BY <1>1, <2>2, <2>3, ControlIs
  <2> QED BY <1>6, <2>4 DEF Swaps, new
<1>7. CASE pm = "FIFO"
  <2>1. new = [c EXCEPT !.fifo = renamed]
    BY <1>4, <1>7, Zenon
  <2>2. /\ FrameList(renamed) /\ Len(renamed) = Len(c.fifo)
        /\ \A i \in 1 .. Len(c.fifo) : renamed[i] = OtherFrame(c.fifo[i], f1, f2)
    <3>1. c.fifo \in Seq(Frames) /\ Len(c.fifo) <= NumFrames /\ Len(c.fifo) \in Nat
      BY <1>1 DEF FrameList
    <3>2. DOMAIN c.fifo = 1 .. Len(c.fifo) /\ \A i \in 1 .. Len(c.fifo) : c.fifo[i] \in Frames
      BY <3>1
    <3>3. \A i \in 1 .. Len(c.fifo) : Other(c.fifo[i]) \in Frames
      BY <1>3, <3>2
    <3>4. \A i \in 1 .. Len(c.fifo) : Other(c.fifo[i]) = OtherFrame(c.fifo[i], f1, f2)
      BY <1>2
    <3> HIDE DEF Other
    <3>5. renamed \in Seq(Frames) /\ Len(renamed) = Len(c.fifo)
      BY <3>1, <3>2, <3>3
    <3>6. \A i \in 1 .. Len(c.fifo) : renamed[i] = OtherFrame(c.fifo[i], f1, f2)
      BY <3>2, <3>4
    <3> QED BY <3>1, <3>5, <3>6 DEF FrameList
  <2> HIDE DEF renamed
  <2>3. /\ new = [next |-> new.next, fifo |-> new.fifo, matrix |-> new.matrix, timer |-> new.timer, bit_r |-> new.bit_r]
        /\ new.fifo = renamed /\ new.next = c.next
        /\ new.matrix = c.matrix /\ new.timer = c.timer /\ new.bit_r = c.bit_r
    BY <1>1, <2>1
  <2>4. new \in Control
    BY <1>1, <2>2, <2>3, ControlIs
  <2> QED BY <2>2, <2>3, <2>4 DEF Swaps, new
<1>8. CASE pm = "LRU2"
  <2> DEFINE rows == Exchanged(c.matrix)
  <2>1. new = [c EXCEPT !.matrix = rows]
    BY <1>4, <1>8, Zenon
  <2>2. rows \in [Frames -> SUBSET Frames]
    <3> HIDE DEF Exchanged
    <3> QED BY <1>1, <1>5
  <2> HIDE DEF rows
  <2>3. /\ new = [next |-> new.next, fifo |-> new.fifo, matrix |-> new.matrix, timer |-> new.timer, bit_r |-> new.bit_r]
        /\ new.matrix = rows /\ new.fifo = c.fifo
        /\ new.next = c.next /\ new.timer = c.timer /\ new.bit_r = c.bit_r
    BY <1>1, <2>1
  <2>4. new \in Control
    BY <1>1, <2>2, <2>3, ControlIs
  <2> QED BY <1>8, <2>4 DEF Swaps, new
<1>9. CASE pm = "LRU4"
  <2> DEFINE timers == Exchanged(c.timer)
  <2>1. new = [c EXCEPT !.timer = timers]
    BY <1>4, <1>9, Zenon
  <2>2. timers \in [Frames -> SUBSET Frames]
    <3> HIDE DEF Exchanged
    <3> QED BY <1>1, <1>5
  <2> HIDE DEF timers
  <2>3. /\ new = [next |-> new.next, fifo |-> new.fifo, matrix |-> new.matrix, timer |-> new.timer, bit_r |-> new.bit_r]
        /\ new.timer = timers /\ new.fifo = c.fifo
        /\ new.next = c.next /\ new.matrix = c.matrix /\ new.bit_r = c.bit_r
    BY <1>1, <2>1
  <2>4. new \in Control
    BY <1>1, <2>2, <2>3, ControlIs
  <2> QED BY <1>9, <2>4 DEF Swaps, new
<1> QED
  BY <1>6, <1>7, <1>8, <1>9 DEF AllPaginators

LEMMA UpdatedIs ==
    ASSUME NEW pm \in AllPaginators, NEW c \in Control
    PROVE  Updated(pm, c) \in Control /\ (pm \in {"FIFO", "LRU2"} => Updated(pm, c) = c)
<1>1. /\ c = [next |-> c.next, fifo |-> c.fifo, matrix |-> c.matrix, timer |-> c.timer, bit_r |-> c.bit_r]
      /\ c.next \in [Frames -> 0 .. Never] /\ FrameList(c.fifo)
      /\ c.matrix \in [Frames -> SUBSET Frames] /\ c.timer \in [Frames -> SUBSET Frames]
      /\ c.bit_r \in [Frames -> BOOLEAN]
  BY ControlIs
<1> DEFINE new == Updated(pm, c)
<1>2. CASE pm = "Optimal"
  <2> DEFINE nexts == [f \in Frames |-> Later(c.next[f])]
  <2>1. new = [c EXCEPT !.next = [f \in Frames |-> Later(@[f])]]
    BY <1>2, Zenon DEF Updated
  <2>2. new = [c EXCEPT !.next = nexts]
    BY <2>1
  <2>3. nexts \in [Frames -> 0 .. Never]
    BY <1>1, FramesFacts DEF Later, Never
  <2> HIDE DEF new, nexts
  <2>4. /\ new = [next |-> new.next, fifo |-> new.fifo, matrix |-> new.matrix, timer |-> new.timer, bit_r |-> new.bit_r]
        /\ new.next = nexts /\ new.fifo = c.fifo
        /\ new.matrix = c.matrix /\ new.timer = c.timer /\ new.bit_r = c.bit_r
    BY <1>1, <2>2
  <2>5. new \in Control
    BY <1>1, <2>3, <2>4, ControlIs
  <2> QED BY <1>2, <2>5 DEF new
<1>3. CASE pm = "LRU4"
  <2> DEFINE aged(f) == IF \E g \in Frames : c.bit_r[g] THEN Aged(c.timer[f]) ELSE c.timer[f]
             top(f) == IF c.bit_r[f] THEN {NumFrames - 1} ELSE {}
             timers == [f \in Frames |-> aged(f) \union top(f)]
             bits == [f \in Frames |-> FALSE]
  <2>1. new = [c EXCEPT !.timer = timers, !.bit_r = bits]
    BY <1>3, Zenon DEF Updated
  <2>2. timers \in [Frames -> SUBSET Frames]
    <3>1. ASSUME NEW f \in Frames PROVE aged(f) \union top(f) \subseteq Frames
      <4>1. c.timer[f] \subseteq Frames
        BY <1>1
      <4>2. Aged(c.timer[f]) \subseteq Frames
        <5> SUFFICES ASSUME NEW b \in c.timer[f] \ {0} PROVE b - 1 \in Frames
          BY DEF Aged
        <5>1. b \in 0 .. NumFrames - 1 /\ b # 0
          BY <4>1 DEF Frames
        <5> QED BY <5>1, FramesFacts DEF Frames
      <4>3. top(f) \subseteq Frames
        BY FramesFacts DEF Frames
      <4> QED BY <4>1, <4>2, <4>3
    <3> HIDE DEF aged, top
    <3> QED BY <3>1
  <2>3. bits \in [Frames -> BOOLEAN]
    OBVIOUS
  <2> HIDE DEF new, timers, bits
  <2>4. /\ new = [next |-> new.next, fifo |-> new.fifo, matrix |-> new.matrix, timer |-> new.timer, bit_r |-> new.bit_r]
        /\ new.timer = timers /\ new.bit_r = bits /\ new.next = c.next /\ new.fifo = c.fifo
        /\ new.matrix = c.matrix
    BY <1>1, <2>1
  <2>5. new \in Control
    BY <1>1, <2>2, <2>3, <2>4, ControlIs
  <2> QED BY <1>3, <2>5 DEF new
<1>4. CASE pm \in {"FIFO", "LRU2"}
  <2>1. pm # "Optimal" /\ pm # "LRU4"
    BY <1>4
  <2>2. new = c
    BY <2>1, Zenon DEF Updated
  <2> QED BY <2>2
<1> QED
  BY <1>2, <1>3, <1>4 DEF AllPaginators

-----------------------------------------------------------------------------
(* The inductive invariant. *)

\* Every variable is in its range; for the map and the lists this follows from
\* the next two.
Typed ==
    /\ stage \in {"malloc", "access", "free", "compacted", "over", "no_space", "error"}
                    \X (0 .. NumProcs)
    /\ fspc \in UsedManagers /\ pmem \in UsedPaginators
    /\ size \in [Procs -> 1 .. MaxSize]
    /\ arrived \in 0 .. NumProcs
    /\ base \in [Procs -> Pages \union {None}]
    /\ ptable \in [Pages -> [pid : Procs \union {None}, frame : Frames \union {None}]]
    /\ ftable \in [Frames -> Pages \union {None}]
    /\ ctl \in Control
    /\ due \in [Procs -> 0 .. Never]

\* The map covers the memory, and its used pieces are the active processes.
Mapped ==
    /\ Covers(memmap, 0, NumPages)
    /\ Used(memmap) = {Piece("P", base[p], size[p]) : p \in Active}

\* QuickFit's lists name free pieces of their size; the others keep no lists.
ListsMapped ==
    /\ ListsFresh(memmap, refs) /\ DOMAIN refs \subseteq 1 .. MaxSize
    /\ fspc # "QuickFit" => DOMAIN refs = {}

\* The page table knows the pages of each process.
Owned ==
    /\ \A p \in Procs : p > arrived => base[p] = None
    /\ \A pg \in Pages, p \in Procs :
          ptable[pg].pid = p <=> p \in Active /\ base[p] <= pg /\ pg < base[p] + size[p]

\* f's content goes before g's.
Before(f, g) == <<Content(f), Content(g)>> \in order

\* FIFO's list has all frames in use, without QuickFit no others, each once
\* and in the order they have to be freed in.
Queued ==
    pmem = "FIFO" =>
       /\ Occupied(ftable) \subseteq ToSet(ctl.fifo)
       /\ fspc # "QuickFit" => ToSet(ctl.fifo) = Occupied(ftable) /\ IsInjective(ctl.fifo)
       /\ order # Off => \A i, j \in 1 .. Len(ctl.fifo) : i < j => Before(ctl.fifo[i], ctl.fifo[j])

\* The bits of LRU2's matrix between frames in use are the order.
Ranked ==
    order # Off =>
       /\ pmem = "LRU2" \/ (pmem = "FIFO" /\ fspc # "QuickFit")
       /\ pmem = "LRU2" =>
            /\ \A f, g, h \in Occupied(ftable) : Before(f, g) /\ Before(g, h) => Before(f, h)
            /\ \A f, g \in Occupied(ftable) : f # g => (Before(f, g) <=> ~Before(g, f))
            /\ \A f, g \in Occupied(ftable) : g \in ctl.matrix[f] <=> Before(g, f)
            /\ \A f \in Occupied(ftable) : f \notin ctl.matrix[f]

IInv == Typed /\ Mapped /\ ListsMapped /\ Owned /\ TablesAgree /\ Queued /\ Ranked

-----------------------------------------------------------------------------
LEMMA SizesFacts ==
    /\ NumProcs \in Nat \ {0} /\ NumPages \in Nat \ {0} /\ MaxSize \in Nat \ {0} /\ MaxFrequent \in Nat \ {0}
    /\ Procs \subseteq Nat \ {0} /\ IsFiniteSet(Procs)
    /\ Pages \subseteq Nat /\ 0 \in Pages /\ IsFiniteSet(Pages)
    /\ None \notin Procs /\ None \notin Pages /\ None \notin Frames
<1>1. NumProcs \in Nat \ {0} /\ NumPages \in Nat \ {0} /\ MaxSize \in Nat \ {0} /\ MaxFrequent \in Nat \ {0}
  BY MemoryAssumption
<1>2. Procs \subseteq Nat \ {0} /\ Pages \subseteq Nat /\ 0 \in Pages /\ None \notin Procs /\ None \notin Pages
  BY <1>1 DEF Procs, Pages, None
<1>3. IsFiniteSet(Procs) /\ IsFiniteSet(Pages)
  BY <1>1, FS_Interval DEF Procs, Pages
<1> QED
  BY <1>1, <1>2, <1>3, FramesFacts

LEMMA Kinds ==
    ASSUME Typed
    PROVE  fspc \in Managers /\ pmem \in AllPaginators
BY MemoryAssumption DEF Typed

\* Where the active processes are.
LEMMA Within ==
    ASSUME Typed, Mapped
    PROVE  /\ \A p \in Procs : size[p] \in Nat \ {0} /\ size[p] <= MaxSize
           /\ \A p \in Active : /\ p \in Procs /\ base[p] \in Nat /\ base[p] + size[p] <= NumPages
                                /\ Piece("P", base[p], size[p]) \in Used(memmap)
           /\ \A p \in Active : \A i \in 0 .. size[p] - 1 : base[p] + i \in Pages
<1>1. \A p \in Procs : size[p] \in Nat \ {0} /\ size[p] <= MaxSize
  BY SizesFacts DEF Typed
<1>2. ASSUME NEW p \in Active
      PROVE  /\ p \in Procs /\ base[p] \in Nat /\ base[p] + size[p] <= NumPages
             /\ Piece("P", base[p], size[p]) \in Used(memmap)
  <2>1. p \in Procs /\ base[p] \in Nat
    BY SizesFacts DEF Active, Typed
  <2>2. PICK m \in Used(memmap) : m = Piece("P", base[p], size[p])
    BY <1>2 DEF Mapped
  <2>3. Covers(memmap, 0, NumPages) /\ Chain(memmap)
    BY DEF Mapped, Covers
  <2>4. PICK k \in 1 .. Len(memmap) : m = memmap[k]
    BY <2>2, <2>3, ChainType DEF Used
  <2>5. End(m) <= NumPages
    BY <2>3, <2>4, ChainWithin
  <2>6. End(m) = base[p] + size[p]
    <3>1. base[p] \in Nat /\ size[p] \in Nat \ {0} /\ "P" \in {"L", "P"}
      BY <1>1, <2>1
    <3> QED BY <2>2, <3>1 DEF End, Piece
  <2> QED BY <2>1, <2>2, <2>5, <2>6
<1>3. ASSUME NEW p \in Active, NEW i \in 0 .. size[p] - 1 PROVE base[p] + i \in Pages
  <2>1. base[p] \in Nat /\ size[p] \in Nat /\ base[p] + size[p] <= NumPages /\ NumPages \in Nat
    BY <1>1, <1>2, SizesFacts
  <2>2. i \in Nat /\ base[p] + i \in 0 .. NumPages - 1
    BY <2>1
  <2> QED BY <2>2 DEF Pages
<1> QED
  BY <1>1, <1>2, <1>3

\* What a frame in use holds.
LEMMA ContentIs ==
    ASSUME Typed, Mapped, Owned, TablesAgree
    PROVE  /\ \A f \in Occupied(ftable) :
                /\ f \in Frames /\ ftable[f] \in Pages /\ ptable[ftable[f]].frame = f
                /\ ptable[ftable[f]].pid \in Active
                /\ Content(f) = <<ptable[ftable[f]].pid, ftable[f] - base[ptable[ftable[f]].pid]>>
                /\ Content(f)[1] = ptable[ftable[f]].pid
                /\ Content(f)[2] \in 0 .. size[Content(f)[1]] - 1
                /\ base[Content(f)[1]] + Content(f)[2] = ftable[f]
                /\ Content(f) \in Resident
           /\ \A f, g \in Occupied(ftable) : Content(f) = Content(g) => f = g
<1>1. ASSUME NEW f \in Occupied(ftable)
      PROVE  /\ f \in Frames /\ ftable[f] \in Pages /\ ptable[ftable[f]].frame = f
             /\ ptable[ftable[f]].pid \in Active
             /\ Content(f) = <<ptable[ftable[f]].pid, ftable[f] - base[ptable[ftable[f]].pid]>>
             /\ Content(f)[1] = ptable[ftable[f]].pid
             /\ Content(f)[2] \in 0 .. size[Content(f)[1]] - 1
             /\ base[Content(f)[1]] + Content(f)[2] = ftable[f]
             /\ Content(f) \in Resident
  <2>1. f \in Frames /\ ftable[f] # None
    BY DEF Occupied
  <2>2. PICK pg \in Pages : pg = ftable[f]
    BY <2>1 DEF Typed
  <2>3. ptable[pg].frame = f
    BY <2>1, <2>2 DEF TablesAgree
  <2>4. ptable[pg].pid # None /\ ptable[pg].pid \in Procs
    BY <2>1, <2>3, SizesFacts DEF TablesAgree, Typed
  <2>5. PICK p \in Procs : p = ptable[pg].pid
    BY <2>4
  <2>6. p \in Active /\ base[p] <= pg /\ pg < base[p] + size[p]
    BY <2>5 DEF Owned
  <2>7. PICK i \in Int : i = pg - base[p]
    BY <2>6, Within, SizesFacts
  <2>8. base[p] \in Nat /\ size[p] \in Nat /\ size[p] <= MaxSize /\ pg \in Nat
    BY <2>6, Within, SizesFacts
  <2>9. i \in 0 .. size[p] - 1 /\ i \in 0 .. MaxSize - 1 /\ i < size[p] /\ base[p] + i = pg
    BY <2>6, <2>7, <2>8, SizesFacts
  <2>10. Content(f) = <<p, i>>
    BY <2>2, <2>5, <2>7 DEF Content
  <2>11. <<p, i>> \in Resident
    BY <2>1, <2>3, <2>6, <2>9, SizesFacts DEF Resident
  <2> QED BY <2>1, <2>2, <2>3, <2>5, <2>6, <2>7, <2>9, <2>10, <2>11
<1>2. ASSUME NEW f \in Occupied(ftable), NEW g \in Occupied(ftable), Content(f) = Content(g) PROVE f = g
  <2>1. ftable[f] = ftable[g]
    BY <1>1, <1>2
  <2> QED BY <1>1, <2>1
<1> QED
  BY <1>1, <1>2

-----------------------------------------------------------------------------
(* Steps that leave a part of the state as it is. *)

LEMMA OrderSame ==
    ASSUME pmem' = pmem, fspc' = fspc, ftable' = ftable, order' = order,
           pmem = "FIFO" => ctl'.fifo = ctl.fifo, pmem = "LRU2" => ctl'.matrix = ctl.matrix,
           \A f \in Occupied(ftable) : Content(f)' = Content(f),
           Typed, Queued, Ranked
    PROVE  Queued' /\ Ranked'
<1>1. \A f, g \in Occupied(ftable) : Before(f, g)' <=> Before(f, g)
  BY DEF Before
<1>2. Queued'
  <2> SUFFICES ASSUME pmem = "FIFO" PROVE Queued'
    BY DEF Queued
  <2>1. ctl'.fifo = ctl.fifo /\ Occupied(ftable)' = Occupied(ftable)
    BY DEF Occupied
  <2>2. ASSUME order # Off, NEW i \in 1 .. Len(ctl.fifo), NEW j \in 1 .. Len(ctl.fifo), i < j
        PROVE  Before(ctl.fifo[i], ctl.fifo[j])'
    <3>1. fspc # "QuickFit" /\ ToSet(ctl.fifo) = Occupied(ftable)
      BY <2>2 DEF Queued, Ranked
    <3>2. FrameList(ctl.fifo)
      BY ControlIs DEF Typed
    <3>3. ctl.fifo[i] \in Occupied(ftable) /\ ctl.fifo[j] \in Occupied(ftable)
      BY <3>1, <3>2 DEF ToSet, FrameList
    <3>4. Before(ctl.fifo[i], ctl.fifo[j])
      BY <2>2 DEF Queued
    <3>5. PICK f \in Occupied(ftable) : f = ctl.fifo[i]
      BY <3>3
    <3>6. PICK g \in Occupied(ftable) : g = ctl.fifo[j]
      BY <3>3
    <3>7. Before(f, g)'
      BY <1>1, <3>4, <3>5, <3>6
    <3>8. f' = f /\ g' = g /\ i' = i /\ j' = j
      OBVIOUS
    <3>9. (ctl.fifo[i])' = f /\ (ctl.fifo[j])' = g
      BY <2>1, <3>5, <3>6
    <3> QED BY <3>7, <3>9 DEF Before, Content
  <2> QED BY <2>1, <2>2 DEF Queued
<1>3. Ranked'
  <2>1. Occupied(ftable)' = Occupied(ftable)
    BY DEF Occupied
  <2> QED BY <1>1, <2>1 DEF Ranked
<1> QED
  BY <1>2, <1>3

-----------------------------------------------------------------------------
(* The start, the end of a tick, the arrival of a process. *)

\* The invariant holds at the start.
LEMMA InitHolds == ASSUME Init PROVE IInv
<1> USE DEF Init
<1>1. Typed
  <2>1. NewControl \in Control
    <3> DEFINE none == << >>
    <3>1. none \in Seq(Frames) /\ Len(none) = 0 /\ NewControl.fifo = none
      BY EmptySeq DEF NewControl
    <3>2. FrameList(NewControl.fifo)
      <4> HIDE DEF none
      <4> QED BY <3>1, FramesFacts DEF FrameList
    <3>3. Never \in 0 .. Never
      BY FramesFacts DEF Never
    <3> QED BY <3>2, <3>3, ControlIs DEF NewControl
  <2>2. 0 \in 0 .. NumProcs /\ Never \in 0 .. Never
    BY SizesFacts, FramesFacts DEF Never
  <2> QED BY <2>1, <2>2 DEF Typed, FreePage
<1>2. Active = {}
  BY DEF Active
<1>3. Mapped
  <2>1. /\ Covers(<<Piece("L", 0, NumPages - 0)>>, 0, NumPages)
        /\ ToSet(<<Piece("L", 0, NumPages - 0)>>) = {Piece("L", 0, NumPages - 0)}
    <3>1. 0 \in Nat /\ NumPages \in Nat /\ 0 < NumPages /\ "L" \in {"L", "P"}
      BY SizesFacts
    <3> QED BY <3>1, OnePiece
  <2>2. NumPages - 0 = NumPages
    BY SizesFacts
  <2>3. Covers(memmap, 0, NumPages) /\ ToSet(memmap) = {Piece("L", 0, NumPages)}
    BY <2>1, <2>2
  <2>4. Used(memmap) = {}
    BY <2>3 DEF Used, Piece
  <2> QED BY <1>2, <2>3, <2>4 DEF Mapped
<1>4. ListsMapped
  <2>1. PICK S : /\ S \in (IF fspc = "QuickFit" THEN FrequentSizes ELSE {{}})
                 /\ refs = [s \in S |-> << >>]
    BY DEF Init
  <2>2. S \subseteq 1 .. MaxSize /\ (fspc # "QuickFit" => S = {})
    <3>1. CASE fspc = "QuickFit"
      <4>1. S \in FrequentSizes
        BY <2>1, <3>1
      <4>2. S \subseteq {size[p] : p \in Procs}
        BY <4>1 DEF FrequentSizes
      <4> QED BY <3>1, <4>2
    <3>2. CASE fspc # "QuickFit"
      BY <2>1, <3>2
    <3> QED BY <3>1, <3>2
  <2> DEFINE none == << >>
  <2>3. DOMAIN refs = S /\ \A s \in S : refs[s] = none
    BY <2>1
  <2>4. Fresh(none) /\ ToSet(none) = {}
    <3>1. none \in Seq(Nat) /\ DOMAIN none = {}
      BY EmptySeq
    <3> HIDE DEF none
    <3> QED BY <3>1 DEF Fresh, IsInjective, ToSet
  <2>5. 1 .. MaxSize \subseteq Nat \ {0}
    BY SizesFacts
  <2> HIDE DEF none
  <2> QED BY <2>2, <2>3, <2>4, <2>5 DEF ListsMapped, ListsFresh
<1>5. Owned
  BY <1>2, SizesFacts DEF Owned, FreePage
<1>6. TablesAgree
  BY DEF TablesAgree, FreePage
<1>7. Occupied(ftable) = {}
  BY DEF Occupied
<1>8. Queued
  <2> DEFINE none == << >>
  <2>1. ctl.fifo = none
    BY DEF NewControl
  <2>2. Len(none) = 0 /\ DOMAIN none = {}
    BY EmptySeq
  <2> HIDE DEF none, Init
  <2>3. ToSet(none) = {} /\ IsInjective(none) /\ 1 .. Len(none) = {}
    BY <2>2 DEF ToSet, IsInjective
  <2> QED BY <1>7, <2>1, <2>3 DEF Queued
<1>9. Ranked
  BY <1>7 DEF Ranked
<1> QED
  BY <1>1, <1>3, <1>4, <1>5, <1>6, <1>8, <1>9 DEF IInv

-----------------------------------------------------------------------------
\* The states between two steps in which only the times and the stage change.
LEMMA TickKeeps == ASSUME IInv, Tick PROVE IInv'
<1>0. Typed /\ Mapped /\ ListsMapped /\ Owned /\ TablesAgree /\ Queued /\ Ranked
  BY DEF IInv
<1>1. /\ arrived' = arrived /\ order' = order /\ base' = base /\ memmap' = memmap /\ refs' = refs
      /\ ptable' = ptable /\ ftable' = ftable /\ fspc' = fspc /\ pmem' = pmem /\ size' = size
      /\ ctl' = Updated(pmem, ctl) /\ due' = [p \in Procs |-> Later(due[p])]
      /\ stage' \in {<<"over", 0>>, <<"malloc", 0>>}
  BY DEF Tick, spaceVars, choiceVars
<1>2. Updated(pmem, ctl) \in Control /\ (pmem \in {"FIFO", "LRU2"} => ctl' = ctl)
  <2>1. pmem \in AllPaginators /\ ctl \in Control
    BY <1>0, Kinds DEF Typed
  <2> QED BY <1>1, <2>1, UpdatedIs
<1>3. Typed'
  <2>1. due' \in [Procs -> 0 .. Never]
    <3>1. \A p \in Procs : due[p] \in 0 .. Never
      BY <1>0 DEF Typed
    <3>2. \A t \in 0 .. Never : Later(t) \in 0 .. Never
      BY FramesFacts DEF Later, Never
    <3> QED BY <1>1, <3>1, <3>2
  <2>2. 0 \in 0 .. NumProcs
    BY SizesFacts
  <2> QED BY <1>0, <1>1, <1>2, <2>1, <2>2 DEF Typed
<1>4. Mapped' /\ ListsMapped' /\ Owned' /\ TablesAgree'
  BY <1>0, <1>1 DEF Mapped, ListsMapped, Owned, TablesAgree, Active
<1>5. \A f \in Occupied(ftable) : Content(f)' = Content(f)
  BY <1>1 DEF Content
<1>6. Queued' /\ Ranked'
  BY <1>0, <1>1, <1>2, <1>5, OrderSame
<1> QED
  BY <1>3, <1>4, <1>6 DEF IInv

\* Steps after which the program is about to stop, or has.
LEMMA StopKeeps ==
    ASSUME IInv, stage' \in {<<"no_space", 0>>, <<"error", 0>>, stage}, arrived' \in 0 .. NumProcs,
           arrived <= arrived',
           base' = base, memmap' = memmap, refs' = refs, ptable' = ptable, ftable' = ftable, ctl' = ctl,
           order' = order, due' = due, fspc' = fspc, pmem' = pmem, size' = size
    PROVE  IInv'
<1>0. Typed /\ Mapped /\ ListsMapped /\ Owned /\ TablesAgree /\ Queued /\ Ranked
  BY DEF IInv
<1>3. Typed'
  <2>1. 0 \in 0 .. NumProcs
    BY SizesFacts
  <2> QED BY <1>0, <2>1 DEF Typed
<1>4. Mapped' /\ ListsMapped' /\ TablesAgree'
  BY <1>0 DEF Mapped, ListsMapped, TablesAgree, Active
<1>7. Owned'
  <2>1. \A p \in Procs : p > arrived' => p > arrived
    BY <1>0, SizesFacts DEF Typed
  <2> QED BY <1>0, <2>1 DEF Owned, Active
<1>5. \A f \in Occupied(ftable) : Content(f)' = Content(f)
  BY DEF Content
<1>6. Queued' /\ Ranked'
  BY <1>0, <1>5, OrderSame
<1> QED
  BY <1>3, <1>4, <1>6, <1>7 DEF IInv

\* A process that gets memory: a free place, named by the free-space manager.
LEMMA ArrivePlace ==
    ASSUME IInv, NEW p \in Procs, p = arrived + 1, HasSpace(fspc, memmap, refs, size[p])
    PROVE  /\ Given(memmap, refs, Malloc(fspc, memmap, refs, size[p]), NumPages, size[p])
           /\ p \notin Active
           /\ \A pg \in Pages :
                /\ Malloc(fspc, memmap, refs, size[p]).base <= pg
                /\ pg < Malloc(fspc, memmap, refs, size[p]).base + size[p]
                => ptable[pg].pid = None
<1>0. Typed /\ Mapped /\ ListsMapped /\ Owned
  BY DEF IInv
<1>1. fspc \in Managers /\ Covers(memmap, 0, NumPages) /\ ListsFresh(memmap, refs)
  BY <1>0, Kinds DEF Mapped, ListsMapped
<1>2. size[p] \in Nat \ {0}
  BY <1>0, Within
<1> DEFINE new == Malloc(fspc, memmap, refs, size[p])
<1>3. Given(memmap, refs, new, NumPages, size[p])
  BY <1>1, <1>2, MallocGives
<1> HIDE DEF new
<1>4. p \notin Active
  BY <1>0, SizesFacts DEF Owned, Active, Typed
<1>5. ASSUME NEW pg \in Pages, new.base <= pg, pg < new.base + size[p], ptable[pg].pid # None
      PROVE  FALSE
  <2>1. PICK q \in Procs : q = ptable[pg].pid
    BY <1>0, <1>5 DEF Typed
  <2>2. q \in Active /\ base[q] <= pg /\ pg < base[q] + size[q]
    BY <1>0, <2>1 DEF Owned
  <2>3. base[q] \in Nat /\ size[q] \in Nat \ {0} /\ Piece("P", base[q], size[q]) \in Used(memmap)
    BY <1>0, <2>2, Within
  <2>4. PICK m \in Used(memmap) : m = Piece("P", base[q], size[q])
    BY <2>3
  <2>5. End(m) = base[q] + size[q] /\ m.base = base[q]
    BY <2>3, <2>4 DEF End, Piece
  <2>6. End(m) <= new.base \/ new.base + size[p] <= m.base
    BY <1>3 DEF Given
  <2>7. new.base \in Nat /\ pg \in Nat
    BY <1>3, SizesFacts DEF Given
  <2> QED BY <1>2, <1>5, <2>2, <2>3, <2>5, <2>6, <2>7
<1> QED
  BY <1>3, <1>4, <1>5 DEF new

\* The page table after process p got the pages from b on.
PageTableGiven(p, b) ==
    [pg \in Pages |-> IF pg \in b .. b + size[p] - 1 THEN [ptable[pg] EXCEPT !.pid = p] ELSE ptable[pg]]

LEMMA ArriveKeeps == ASSUME IInv, NEW p \in Procs, Arrive(p) PROVE IInv'
<1>0. Typed /\ Mapped /\ ListsMapped /\ Owned /\ TablesAgree /\ Queued /\ Ranked
  BY DEF IInv
<1>1. /\ p = arrived + 1 /\ arrived' = p
      /\ ftable' = ftable /\ ctl' = ctl /\ order' = order /\ fspc' = fspc /\ pmem' = pmem /\ size' = size
  BY DEF Arrive, choiceVars
<1>2. arrived \in Nat /\ arrived' \in 0 .. NumProcs /\ arrived <= arrived'
  BY <1>0, <1>1, SizesFacts DEF Typed, Procs
<1>3. CASE ~HasSpace(fspc, memmap, refs, size[p])
  <2>1. stage' = <<"no_space", 0>> /\ UNCHANGED <<spaceVars, ptable, due>>
    BY <1>3 DEF Arrive
  <2> QED BY <1>1, <1>2, <2>1, StopKeeps DEF spaceVars
<1>4. CASE HasSpace(fspc, memmap, refs, size[p])
  <2> DEFINE malloc == Malloc(fspc, memmap, refs, size[p])
  <2>1. PICK new : new = malloc
    OBVIOUS
  <2>2. /\ memmap' = malloc.map /\ refs' = malloc.refs /\ base' = [base EXCEPT ![p] = malloc.base]
        /\ ptable' = PageTableGiven(p, malloc.base)
        /\ \E gap \in Gaps(0) : due' = [due EXCEPT ![p] = gap]
        /\ stage' = stage
    BY <1>4 DEF Arrive, PageTableGiven
  <2>3. /\ Given(memmap, refs, malloc, NumPages, size[p]) /\ p \notin Active
        /\ \A pg \in Pages : malloc.base <= pg /\ pg < malloc.base + size[p] => ptable[pg].pid = None
    BY <1>1, <1>4, ArrivePlace
  <2> HIDE DEF malloc
  <2>4. /\ memmap' = new.map /\ refs' = new.refs /\ base' = [base EXCEPT ![p] = new.base]
        /\ ptable' = PageTableGiven(p, new.base) /\ stage' = stage
        /\ Given(memmap, refs, new, NumPages, size[p])
        /\ \A pg \in Pages : new.base <= pg /\ pg < new.base + size[p] => ptable[pg].pid = None
    BY <2>1, <2>2, <2>3
  <2>5. PICK gap \in Gaps(0) : due' = [due EXCEPT ![p] = gap]
    BY <2>2
  <2>6. gap \in 0 .. Never
    BY <2>5, FramesFacts DEF Gaps, Never
  <2>7. size[p] \in Nat \ {0} /\ NumPages \in Nat /\ Procs \subseteq Nat /\ Pages \subseteq Nat
    BY <1>0, Within, SizesFacts
  <2>8. /\ Covers(new.map, 0, NumPages) /\ ListsFresh(new.map, new.refs) /\ DOMAIN new.refs = DOMAIN refs
        /\ new.base \in Nat /\ new.base + size[p] <= NumPages
        /\ Used(new.map) = Used(memmap) \union {Piece("P", new.base, size[p])}
    BY <2>4 DEF Given
  <2>9. new.base \in Pages /\ new.base # None
    BY <2>7, <2>8, SizesFacts DEF Pages
  <2>10. base' \in [Procs -> Pages \union {None}] /\ base'[p] = new.base /\ \A q \in Procs \ {p} : base'[q] = base[q]
    BY <1>0, <2>4, <2>9 DEF Typed
  <2>11. Active' = Active \union {p}
    BY <2>9, <2>10 DEF Active
  <2>12. \A pg \in Pages : ptable'[pg] = IF new.base <= pg /\ pg < new.base + size[p]
                                         THEN [ptable[pg] EXCEPT !.pid = p] ELSE ptable[pg]
    <3>1. \A pg \in Pages : pg \in new.base .. new.base + size[p] - 1 <=> new.base <= pg /\ pg < new.base + size[p]
      BY <2>7, <2>8
    <3> QED BY <2>4, <3>1 DEF PageTableGiven
  <2>13. \A pg \in Pages : ptable'[pg] \in [pid : Procs \union {None}, frame : Frames \union {None}]
    <3> TAKE pg \in Pages
    <3>1. ptable[pg] \in [pid : Procs \union {None}, frame : Frames \union {None}]
      BY <1>0 DEF Typed
    <3> QED BY <2>12, <3>1
  <2>14. \A pg \in Pages : /\ ptable'[pg].frame = ptable[pg].frame
                           /\ ptable'[pg].pid = IF new.base <= pg /\ pg < new.base + size[p]
                                                THEN p ELSE ptable[pg].pid
    <3> TAKE pg \in Pages
    <3>1. ptable[pg] \in [pid : Procs \union {None}, frame : Frames \union {None}]
      BY <1>0 DEF Typed
    <3> QED BY <2>12, <3>1
  <2>15. Typed'
    <3>1. ptable' \in [Pages -> [pid : Procs \union {None}, frame : Frames \union {None}]]
      BY <2>4, <2>13 DEF PageTableGiven
    <3>2. due' \in [Procs -> 0 .. Never]
      BY <1>0, <2>5, <2>6 DEF Typed
    <3> QED BY <1>0, <1>1, <1>2, <2>4, <2>10, <3>1, <3>2 DEF Typed
  <2>16. Mapped'
    <3> DEFINE old == {Piece("P", base[q], size[q]) : q \in Active}
               now == {Piece("P", base'[q], size[q]) : q \in Active \union {p}}
    <3>1. now = old \union {Piece("P", new.base, size[p])}
      <4>1. \A q \in Active : base'[q] = base[q]
        BY <2>3, <2>10 DEF Active
      <4> QED BY <2>10, <4>1
    <3>2. Used(memmap) = old
      BY <1>0 DEF Mapped
    <3>3. Used(memmap') = now
      BY <2>4, <2>8, <3>1, <3>2
    <3>4. Covers(memmap', 0, NumPages)
      BY <2>4, <2>8
    <3>5. {Piece("P", base'[q], size'[q]) : q \in Active'} = now
      BY <1>1, <2>11
    <3> HIDE DEF now, old
    <3>6. Used(memmap') = {Piece("P", base'[q], size'[q]) : q \in Active'}
      BY <3>3, <3>5
    <3> QED BY <3>4, <3>6 DEF Mapped
  <2>17. ListsMapped'
    BY <1>0, <1>1, <2>4, <2>8 DEF ListsMapped
  <2>18. Owned'
    <3>1. \A q \in Procs : q > arrived' => base'[q] = None
      <4> SUFFICES ASSUME NEW q \in Procs, q > arrived' PROVE base'[q] = None
        OBVIOUS
      <4>1. q # p /\ q > arrived
        BY <1>1, <1>2, <2>7
      <4> QED BY <1>0, <2>10, <4>1 DEF Owned
    <3>2. ASSUME NEW pg \in Pages, NEW q \in Procs
          PROVE  ptable'[pg].pid = q <=> q \in Active' /\ base'[q] <= pg /\ pg < base'[q] + size'[q]
      <4>1. ptable[pg].pid = q <=> q \in Active /\ base[q] <= pg /\ pg < base[q] + size[q]
        BY <1>0 DEF Owned
      <4>2. CASE q = p
        BY <1>1, <2>3, <2>10, <2>11, <2>14, <4>1, <4>2
      <4>3. CASE q # p /\ new.base <= pg /\ pg < new.base + size[p]
        <5>1. ptable[pg].pid = None /\ ptable'[pg].pid = p
          BY <2>4, <2>14, <4>3
        <5> QED BY <1>1, <2>10, <2>11, <4>1, <4>3, <5>1, SizesFacts
      <4>4. CASE q # p /\ ~(new.base <= pg /\ pg < new.base + size[p])
        <5>1. ptable'[pg].pid = ptable[pg].pid
          BY <2>14, <4>4
        <5> QED BY <1>1, <2>10, <2>11, <4>1, <4>4, <5>1
      <4> QED BY <4>2, <4>3, <4>4
    <3> QED BY <3>1, <3>2 DEF Owned
  <2>19. TablesAgree'
    <3>1. ASSUME NEW pg \in Pages, ptable'[pg].frame # None
          PROVE  ptable'[pg].pid # None /\ ftable'[ptable'[pg].frame] = pg
      <4>1. ptable[pg].pid # None /\ ftable[ptable[pg].frame] = pg /\ ptable'[pg].frame = ptable[pg].frame
        BY <1>0, <2>14, <3>1 DEF TablesAgree
      <4> QED BY <1>1, <2>14, <4>1, SizesFacts
    <3>2. \A f \in Frames : ftable'[f] # None => ptable'[ftable'[f]].frame = f
      BY <1>0, <1>1, <2>14 DEF TablesAgree, Typed
    <3> QED BY <3>1, <3>2 DEF TablesAgree
  <2>20. \A f \in Occupied(ftable) : Content(f)' = Content(f)
    <3> TAKE f \in Occupied(ftable)
    <3>1. /\ ftable[f] \in Pages /\ ptable[ftable[f]].pid \in Active
      BY <1>0, ContentIs
    <3>2. ptable'[ftable[f]].pid = ptable[ftable[f]].pid
      BY <2>4, <2>14, <3>1, SizesFacts DEF Active
    <3>3. base'[ptable[ftable[f]].pid] = base[ptable[ftable[f]].pid]
      BY <2>3, <2>10, <3>1 DEF Active
    <3> QED BY <1>1, <3>2, <3>3 DEF Content
  <2>21. Queued' /\ Ranked'
    BY <1>0, <1>1, <2>20, OrderSame
  <2> QED BY <2>15, <2>16, <2>17, <2>18, <2>19, <2>21 DEF IInv
<1> QED
  BY <1>3, <1>4

-----------------------------------------------------------------------------
(* An access. *)

\* FIFO's list after a page fault: the frames in use in their order, the new
\* one behind them.
Queues(c, frame, kept) ==
    /\ Enqueued(c, frame) = Append(kept, frame)
    /\ kept \in Seq(Frames) /\ Keeps(kept, c.fifo)
    /\ ToSet(kept) \subseteq ToSet(c.fifo) /\ ToSet(c.fifo) \subseteq ToSet(kept) \union {frame}
    /\ IsInjective(c.fifo) /\ (Len(c.fifo) # NumFrames => frame \notin ToSet(c.fifo))
          => IsInjective(kept) /\ frame \notin ToSet(kept)

LEMMA EnqueuedKeeps ==
    ASSUME NEW c, FrameList(c.fifo), NEW frame \in Frames,
           Len(c.fifo) = NumFrames => frame = Head(c.fifo)
    PROVE  \E kept : Queues(c, frame, kept)
<1>1. c.fifo \in Seq(Frames) /\ Len(c.fifo) \in Nat /\ NumFrames \in Nat \ {0}
  BY FramesFacts DEF FrameList
<1>2. CASE Len(c.fifo) = NumFrames
  <2> DEFINE kept == Tail(c.fifo)
  <2>1. Enqueued(c, frame) = Append(kept, frame)
    BY <1>2 DEF Enqueued
  <2>2. c.fifo # << >>
    BY <1>1, <1>2
  <2>3. /\ kept \in Seq(Frames) /\ ToSet(c.fifo) = ToSet(kept) \union {frame}
        /\ IsInjective(c.fifo) => IsInjective(kept) /\ frame \notin ToSet(kept)
    BY <1>1, <1>2, <2>2, TailQueue
  <2>4. Len(kept) = Len(c.fifo) - 1 /\ \A k \in 1 .. Len(kept) : kept[k] = c.fifo[k + 1]
    BY <1>1, <2>2, HeadTailProperties
  <2> HIDE DEF kept
  <2>5. \A k \in 1 .. Len(kept) : k + 1 \in 1 .. Len(c.fifo)
    BY <1>1, <2>4
  <2>6. Keeps(kept, c.fifo)
    <3> SUFFICES ASSUME NEW k \in 1 .. Len(kept), NEW l \in 1 .. Len(kept), k < l
                 PROVE  \E m, n \in 1 .. Len(c.fifo) : m < n /\ kept[k] = c.fifo[m] /\ kept[l] = c.fifo[n]
      BY DEF Keeps
    <3>1. k + 1 \in 1 .. Len(c.fifo) /\ l + 1 \in 1 .. Len(c.fifo) /\ k + 1 < l + 1
      BY <2>5
    <3> QED BY <2>4, <3>1
  <2> QED BY <1>2, <2>1, <2>3, <2>6 DEF Queues
<1>3. CASE Len(c.fifo) # NumFrames
  <2>1. Enqueued(c, frame) = Append(c.fifo, frame)
    BY <1>3 DEF Enqueued
  <2>2. Keeps(c.fifo, c.fifo)
    BY DEF Keeps
  <2>3. Queues(c, frame, c.fifo)
    BY <1>1, <1>3, <2>1, <2>2 DEF Queues
  <2> QED BY <2>3
<1> QED
  BY <1>2, <1>3

\* The order after an access to page, in frame, before which out has gone.
OrderAfter(page, out) ==
    {x \in order : {page, out} \intersect {x[1], x[2]} = {}}
       \union {<<x, page>> : x \in Resident \ {page, out}}

LEMMA OrderedIs ==
    ASSUME NEW page, NEW out, NEW frame, order' = OrderAfter(page, out),
           Content(frame)' = page,
           NEW S, \A f \in S : Content(f)' = Content(f) /\ Content(f) \in Resident \ {page, out}
    PROVE  /\ \A f \in S : Before(f, frame)' /\ ~Before(frame, f)'
           /\ ~Before(frame, frame)'
           /\ \A f, g \in S : Before(f, g)' <=> Before(f, g)
<1> DEFINE old == {x \in order : {page, out} \intersect {x[1], x[2]} = {}}
           now == {<<x, page>> : x \in Resident \ {page, out}}
<1>1. \A a, b : <<a, b>> \in old <=> <<a, b>> \in order /\ a \notin {page, out} /\ b \notin {page, out}
  <2> TAKE a, b
  <2>1. <<a, b>>[1] = a /\ <<a, b>>[2] = b
    OBVIOUS
  <2> QED BY <2>1
<1>2. \A a, b : <<a, b>> \in now <=> a \in Resident \ {page, out} /\ b = page
  OBVIOUS
<1>3. order' = old \union now
  BY DEF OrderAfter
<1> HIDE DEF old, now
<1>4. ASSUME NEW f \in S PROVE Before(f, frame)' /\ ~Before(frame, f)'
  <2>1. <<Content(f), page>> \in order' /\ <<page, Content(f)>> \notin order'
    BY <1>1, <1>2, <1>3
  <2> QED BY <2>1 DEF Before
<1>5. ~Before(frame, frame)'
  <2>1. <<page, page>> \notin order'
    BY <1>1, <1>2, <1>3
  <2> QED BY <2>1 DEF Before
<1>6. ASSUME NEW f \in S, NEW g \in S PROVE Before(f, g)' <=> Before(f, g)
  <2>1. <<Content(f), Content(g)>> \in order' <=> <<Content(f), Content(g)>> \in order
    BY <1>1, <1>2, <1>3
  <2> QED BY <2>1 DEF Before
<1> QED
  BY <1>4, <1>5, <1>6

\* What an access leaves: one frame has the page, the others are as before.
Accessed(frame) ==
    /\ frame \in Frames
    /\ Occupied(ftable') = Occupied(ftable) \union {frame}
    /\ \A f \in Occupied(ftable) \ {frame} : Content(f)' = Content(f)

Later1(frame) ==
    /\ \A f \in Occupied(ftable) \ {frame} : Before(f, frame)' /\ ~Before(frame, f)'
    /\ ~Before(frame, frame)'
    /\ \A f, g \in Occupied(ftable) \ {frame} : Before(f, g)' <=> Before(f, g)

LEMMA RankedAfter ==
    ASSUME NEW frame, Accessed(frame), Later1(frame), Typed, Ranked,
           pmem' = pmem, fspc' = fspc, order' # Off => order # Off,
           NEW fault, Touches(pmem, ctl, ctl', frame, fault)
    PROVE  Ranked'
<1> SUFFICES ASSUME order # Off, pmem = "LRU2"
             PROVE  /\ \A f, g, h \in Occupied(ftable') : Before(f, g)' /\ Before(g, h)' => Before(f, h)'
                    /\ \A f, g \in Occupied(ftable') : f # g => (Before(f, g)' <=> ~Before(g, f)')
                    /\ \A f, g \in Occupied(ftable') : g \in ctl'.matrix[f] <=> Before(g, f)'
                    /\ \A f \in Occupied(ftable') : f \notin ctl'.matrix[f]
  BY DEF Ranked, Occupied
<1> DEFINE S == Occupied(ftable) \ {frame}
<1>1. /\ \A f, g, h \in S : Before(f, g) /\ Before(g, h) => Before(f, h)
      /\ \A f, g \in S : f # g => (Before(f, g) <=> ~Before(g, f))
      /\ \A f, g \in S : g \in ctl.matrix[f] <=> Before(g, f)
      /\ \A f \in S : f \notin ctl.matrix[f]
  BY DEF Ranked
<1>2. /\ Occupied(ftable') = S \union {frame} /\ frame \notin S /\ S \subseteq Frames /\ frame \in Frames
  BY DEF Accessed, Occupied
<1>3. /\ \A f \in S : Before(f, frame)' /\ ~Before(frame, f)'
      /\ ~Before(frame, frame)'
      /\ \A f, g \in S : Before(f, g)' <=> Before(f, g)
  BY DEF Later1
<1>4. /\ ctl'.matrix[frame] = Frames \ {frame}
      /\ \A f \in S : ctl'.matrix[f] = ctl.matrix[f] \ {frame}
  BY <1>2 DEF Touches
<1> HIDE DEF S
<1>5. ASSUME NEW f \in S \union {frame}, NEW g \in S \union {frame}, NEW h \in S \union {frame},
             Before(f, g)', Before(g, h)'
      PROVE  Before(f, h)'
  <2>1. f \in S /\ g \in S
    BY <1>3, <1>5
  <2>2. CASE h = frame
    BY <1>3, <2>1, <2>2
  <2>3. CASE h \in S
    BY <1>1, <1>3, <1>5, <2>1, <2>3
  <2> QED BY <2>2, <2>3
<1>6. ASSUME NEW f \in S \union {frame}, NEW g \in S \union {frame}, f # g PROVE Before(f, g)' <=> ~Before(g, f)'
  BY <1>1, <1>3, <1>6
<1>7. ASSUME NEW f \in S \union {frame}, NEW g \in S \union {frame} PROVE g \in ctl'.matrix[f] <=> Before(g, f)'
  BY <1>1, <1>2, <1>3, <1>4
<1>8. \A f \in S \union {frame} : f \notin ctl'.matrix[f]
  BY <1>1, <1>4
<1> QED
  BY <1>2, <1>5, <1>6, <1>7, <1>8

LEMMA QueuedAfter ==
    ASSUME NEW frame, Accessed(frame), order # Off => Later1(frame), Typed, Queued, Ranked,
           pmem' = pmem, fspc' = fspc, order' # Off => order # Off,
           pmem = "FIFO" => /\ ctl'.fifo = Enqueued(ctl, frame)
                            /\ frame = NextInLine(ctl, ftable)
    PROVE  Queued'
<1> SUFFICES ASSUME pmem = "FIFO"
             PROVE  /\ Occupied(ftable') \subseteq ToSet(ctl'.fifo)
                    /\ fspc # "QuickFit" => ToSet(ctl'.fifo) = Occupied(ftable') /\ IsInjective(ctl'.fifo)
                    /\ order # Off => \A i, j \in 1 .. Len(ctl'.fifo) : i < j =>
                          \A f, g : f = ctl'.fifo[i] /\ g = ctl'.fifo[j] => Before(f, g)'
  BY DEF Queued, Occupied, Before, Content
<1>1. /\ FrameList(ctl.fifo) /\ Occupied(ftable) \subseteq ToSet(ctl.fifo)
      /\ fspc # "QuickFit" => ToSet(ctl.fifo) = Occupied(ftable) /\ IsInjective(ctl.fifo)
      /\ order # Off => \A i, j \in 1 .. Len(ctl.fifo) : i < j => Before(ctl.fifo[i], ctl.fifo[j])
      /\ order # Off => fspc # "QuickFit"
  BY ControlIs DEF Queued, Ranked, Typed
<1>2. frame \in Frames /\ Occupied(ftable') = Occupied(ftable) \union {frame}
  BY DEF Accessed
<1>3. /\ Len(ctl.fifo) = NumFrames => frame = Head(ctl.fifo)
      /\ Len(ctl.fifo) # NumFrames => frame \notin Occupied(ftable)
  <2>1. Len(ctl.fifo) # NumFrames => ftable[frame] = None
    BY <1>1, NextIn
  <2> QED BY <2>1 DEF NextInLine, Occupied
<1>4. PICK kept : Queues(ctl, frame, kept)
  BY <1>1, <1>2, <1>3, EnqueuedKeeps
<1>5. /\ ctl'.fifo = Append(kept, frame) /\ kept \in Seq(Frames) /\ Keeps(kept, ctl.fifo)
      /\ ToSet(kept) \subseteq ToSet(ctl.fifo) /\ ToSet(ctl.fifo) \subseteq ToSet(kept) \union {frame}
      /\ fspc # "QuickFit" => IsInjective(kept) /\ frame \notin ToSet(kept)
  BY <1>1, <1>3, <1>4 DEF Queues
<1>6. /\ ToSet(ctl'.fifo) = ToSet(kept) \union {frame}
      /\ IsInjective(kept) /\ frame \notin ToSet(kept) => IsInjective(ctl'.fifo)
  BY <1>2, <1>5, AppendQueue
<1>7. /\ Len(kept) \in Nat /\ Len(ctl'.fifo) = Len(kept) + 1 /\ ctl'.fifo[Len(kept) + 1] = frame
      /\ \A i \in 1 .. Len(kept) : ctl'.fifo[i] = kept[i] /\ kept[i] \in ToSet(kept)
  <2>1. \A i \in 1 .. Len(kept) : kept[i] \in ToSet(kept)
    BY <1>5 DEF ToSet
  <2> QED BY <1>2, <1>5, <2>1, AppendProperties
<1>8. ASSUME order # Off, NEW i \in 1 .. Len(ctl'.fifo), NEW j \in 1 .. Len(ctl'.fifo), i < j,
             NEW f, NEW g, f = ctl'.fifo[i], g = ctl'.fifo[j]
      PROVE  Before(f, g)'
  <2>1. fspc # "QuickFit" /\ Later1(frame) /\ ToSet(kept) \subseteq Occupied(ftable) \ {frame}
    BY <1>1, <1>5, <1>8
  <2>2. i \in 1 .. Len(kept)
    BY <1>7, <1>8
  <2>3. f \in ToSet(kept) /\ f = kept[i]
    BY <1>7, <1>8, <2>2
  <2>4. CASE j = Len(kept) + 1
    <3>1. Before(f, frame)'
      BY <2>1, <2>3 DEF Later1
    <3>2. g = frame
      BY <1>7, <1>8, <2>4
    <3> QED BY <3>1, <3>2
  <2>5. CASE j # Len(kept) + 1
    <3>1. j \in 1 .. Len(kept)
      BY <1>7, <2>5
    <3>2. g \in ToSet(kept) /\ g = kept[j]
      BY <1>7, <1>8, <3>1
    <3>3. \E k, l \in 1 .. Len(ctl.fifo) : k < l /\ kept[i] = ctl.fifo[k] /\ kept[j] = ctl.fifo[l]
      BY <1>5, <1>8, <2>2, <3>1 DEF Keeps
    <3>4. Before(f, g)
      BY <1>1, <1>8, <2>3, <3>2, <3>3
    <3>5. Before(f, g)'
      BY <2>1, <2>3, <3>2, <3>4 DEF Later1
    <3> QED BY <3>5
  <2> QED BY <2>4, <2>5
<1>9. Occupied(ftable') \subseteq ToSet(ctl'.fifo)
  BY <1>1, <1>2, <1>5, <1>6
<1>10. fspc # "QuickFit" => ToSet(ctl'.fifo) = Occupied(ftable') /\ IsInjective(ctl'.fifo)
  <2> SUFFICES ASSUME fspc # "QuickFit" PROVE ToSet(ctl'.fifo) = Occupied(ftable') /\ IsInjective(ctl'.fifo)
    OBVIOUS
  <2>1. ToSet(ctl.fifo) = Occupied(ftable) /\ IsInjective(kept) /\ frame \notin ToSet(kept)
    BY <1>1, <1>5
  <2> QED BY <1>2, <1>5, <1>6, <2>1
<1> QED
  BY <1>8, <1>9, <1>10

\* The page table after page pg was brought into a frame.
LEMMA BroughtInIs ==
    ASSUME Typed, NEW pg \in Pages, NEW frame \in Frames
    PROVE  /\ BroughtIn(pg, frame) \in [Pages -> [pid : Procs \union {None}, frame : Frames \union {None}]]
           /\ \A x \in Pages :
                /\ BroughtIn(pg, frame)[x].pid = ptable[x].pid
                /\ BroughtIn(pg, frame)[x].frame = IF x = pg THEN frame
                                                   ELSE IF x = ftable[frame] THEN None ELSE ptable[x].frame
<1> DEFINE new(x) == IF x = pg THEN [ptable[x] EXCEPT !.frame = frame]
                     ELSE IF x = ftable[frame] THEN [ptable[x] EXCEPT !.frame = None]
                     ELSE ptable[x]
<1>1. ASSUME NEW x \in Pages
      PROVE  /\ new(x) \in [pid : Procs \union {None}, frame : Frames \union {None}]
             /\ new(x).pid = ptable[x].pid
             /\ new(x).frame = IF x = pg THEN frame ELSE IF x = ftable[frame] THEN None ELSE ptable[x].frame
  <2>1. ptable[x] \in [pid : Procs \union {None}, frame : Frames \union {None}]
    BY DEF Typed
  <2> QED BY <2>1
<1>2. BroughtIn(pg, frame) = [x \in Pages |-> new(x)]
  BY DEF BroughtIn
<1> HIDE DEF new
<1> QED
  BY <1>1, <1>2

\* What an access does, as far as the tables are concerned.
Accesses(pg, page, fault, frame, out) ==
    /\ pg \in Pages /\ fault \in BOOLEAN
    /\ fault <=> ptable[pg].frame = None
    /\ frame = IF fault THEN NewFrame(pmem, ctl, ftable) ELSE ptable[pg].frame
    /\ out = IF fault /\ ftable[frame] # None THEN Content(frame) ELSE <<None, None>>
    /\ \E gap \in 0 .. Never : /\ due' \in [Procs -> 0 .. Never]
                               /\ ctl' = Touched(pmem, ctl, frame, fault, gap)
    /\ ptable' = IF fault THEN BroughtIn(pg, frame) ELSE ptable
    /\ ftable' = IF fault THEN [ftable EXCEPT ![frame] = pg] ELSE ftable
    /\ order' = Ordered(page, out, fault)

LEMMA AccessIs ==
    ASSUME Typed, Mapped, NEW p \in Procs, NEW i \in 0 .. MaxSize - 1, Access(p, i)
    PROVE  /\ p \in Active /\ i \in 0 .. size[p] - 1
           /\ \E fault, frame, out : Accesses(base[p] + i, <<p, i>>, fault, frame, out)
           /\ stage' = <<"access", p>> /\ arrived' = arrived
           /\ base' = base /\ memmap' = memmap /\ refs' = refs
           /\ fspc' = fspc /\ pmem' = pmem /\ size' = size
<1>1. p \in Active /\ i < size[p]
  BY DEF Access
<1>2. i \in 0 .. size[p] - 1 /\ base[p] + i \in Pages
  <2>1. size[p] \in Nat /\ i \in Nat
    BY Within, SizesFacts
  <2>2. i \in 0 .. size[p] - 1
    BY <1>1, <2>1
  <2> QED BY <1>1, <2>2, Within
<1> DEFINE pg == base[p] + i
           fault == ptable[pg].frame = None
           frame == IF fault THEN NewFrame(pmem, ctl, ftable) ELSE ptable[pg].frame
           out == IF fault /\ ftable[frame] # None THEN Content(frame) ELSE <<None, None>>
<1>3. /\ \E gap \in Gaps(1) :
           /\ due' = [due EXCEPT ![p] = gap]
           /\ ctl' = Touched(pmem, ctl, frame, fault, gap)
      /\ ptable' = IF fault THEN BroughtIn(pg, frame) ELSE ptable
      /\ ftable' = IF fault THEN [ftable EXCEPT ![frame] = pg] ELSE ftable
      /\ order' = Ordered(<<p, i>>, out, fault)
  BY DEF Access
<1>4. pg \in Pages /\ fault \in BOOLEAN /\ (fault <=> ptable[pg].frame = None)
  BY <1>2
<1>5. /\ frame = IF fault THEN NewFrame(pmem, ctl, ftable) ELSE ptable[pg].frame
      /\ out = IF fault /\ ftable[frame] # None THEN Content(frame) ELSE <<None, None>>
  OBVIOUS
<1> HIDE DEF pg, fault, frame, out
<1>6. PICK gap \in Gaps(1) : due' = [due EXCEPT ![p] = gap] /\ ctl' = Touched(pmem, ctl, frame, fault, gap)
  BY <1>3
<1>7. gap \in 0 .. Never
  BY <1>6, FramesFacts DEF Gaps, Never
<1>8. due' \in [Procs -> 0 .. Never]
  BY <1>6, <1>7 DEF Typed
<1>9. Accesses(pg, <<p, i>>, fault, frame, out)
  BY <1>3, <1>4, <1>5, <1>6, <1>7, <1>8 DEF Accesses
<1>10. \E fl, fr, o : Accesses(base[p] + i, <<p, i>>, fl, fr, o)
  BY <1>9 DEF pg
<1>11. /\ stage' = <<"access", p>> /\ arrived' = arrived
       /\ base' = base /\ memmap' = memmap /\ refs' = refs
       /\ fspc' = fspc /\ pmem' = pmem /\ size' = size
  BY DEF Access, spaceVars, choiceVars
<1> QED
  BY <1>1, <1>2, <1>10, <1>11

\* The tables after it; the page that was accessed is Content(frame)' now.
LEMMA AccessTables ==
    ASSUME Typed, Mapped, Owned, TablesAgree, Queued,
           NEW p \in Active, NEW i \in 0 .. size[p] - 1,
           NEW fault, NEW frame, NEW out, Accesses(base[p] + i, <<p, i>>, fault, frame, out),
           base' = base
    PROVE  /\ ptable' \in [Pages -> [pid : Procs \union {None}, frame : Frames \union {None}]]
           /\ \A x \in Pages : ptable'[x].pid = ptable[x].pid
           /\ ftable' \in [Frames -> Pages \union {None}]
           /\ Accessed(frame) /\ Content(frame)' = <<p, i>>
           /\ TablesAgree'
           /\ \A f \in Occupied(ftable) \ {frame} : Content(f) \in Resident \ {<<p, i>>, out}
<1>1. PICK pg \in Pages : pg = base[p] + i
  BY DEF Accesses
<1>2. /\ fault \in BOOLEAN /\ (fault <=> ptable[pg].frame = None)
      /\ frame = (IF fault THEN NewFrame(pmem, ctl, ftable) ELSE ptable[pg].frame)
      /\ out = (IF fault /\ ftable[frame] # None THEN Content(frame) ELSE <<None, None>>)
      /\ ptable' = (IF fault THEN BroughtIn(pg, frame) ELSE ptable)
      /\ ftable' = (IF fault THEN [ftable EXCEPT ![frame] = pg] ELSE ftable)
  BY <1>1 DEF Accesses
<1>3. frame \in Frames
  <2>1. CASE fault
    <3>1. NewFrame(pmem, ctl, ftable) \in Frames
      <4>1. pmem \in AllPaginators /\ ctl \in Control
        BY Kinds DEF Typed
      <4>2. pmem = "FIFO" => Occupied(ftable) \subseteq ToSet(ctl.fifo)
        BY DEF Queued
      <4> QED BY <4>1, <4>2, NewFrameIn
    <3> QED BY <1>2, <2>1, <3>1
  <2>2. CASE ~fault
    BY <1>2, <2>2 DEF Typed
  <2> QED BY <2>1, <2>2, <1>2
<1>4. p \in Procs /\ base[p] \in Nat /\ size[p] \in Nat /\ pg \in Nat /\ ptable[pg].pid = p
  <2>1. p \in Procs /\ base[p] \in Nat /\ size[p] \in Nat /\ pg \in Nat
    BY Within, SizesFacts
  <2>2. base[p] <= pg /\ pg < base[p] + size[p]
    BY <1>1, <2>1
  <2> QED BY <2>1, <2>2 DEF Owned
<1>5. /\ ptable' \in [Pages -> [pid : Procs \union {None}, frame : Frames \union {None}]]
      /\ \A x \in Pages :
           /\ ptable'[x].pid = ptable[x].pid
           /\ ptable'[x].frame = IF x = pg THEN frame
                                 ELSE IF fault /\ x = ftable[frame] THEN None ELSE ptable[x].frame
  <2>1. CASE fault
    BY <1>2, <1>3, <2>1, BroughtInIs
  <2>2. CASE ~fault
    BY <1>2, <2>2 DEF Typed
  <2> QED BY <1>2, <2>1, <2>2
<1>6. ~fault => ftable[frame] = pg
  BY <1>2 DEF TablesAgree
<1>7. /\ ftable' \in [Frames -> Pages \union {None}]
      /\ ftable'[frame] = pg /\ \A f \in Frames \ {frame} : ftable'[f] = ftable[f]
  <2>1. CASE fault
    BY <1>2, <1>3, <2>1 DEF Typed
  <2>2. CASE ~fault
    BY <1>2, <1>6, <2>2 DEF Typed
  <2> QED BY <1>2, <2>1, <2>2
<1>8. Occupied(ftable') = Occupied(ftable) \union {frame}
  BY <1>3, <1>7, SizesFacts DEF Occupied
<1>9. Content(frame)' = <<p, i>>
  <2>1. ptable'[pg].pid = p /\ pg - base[p] = i
    BY <1>1, <1>4, <1>5
  <2> QED BY <1>7, <2>1 DEF Content
<1>10. ASSUME NEW f \in Occupied(ftable) \ {frame} PROVE Content(f)' = Content(f)
  <2>1. f \in Frames /\ ftable[f] \in Pages
    BY <1>10, ContentIs
  <2> QED BY <1>5, <1>7, <2>1 DEF Content
<1>11. ASSUME NEW f \in Occupied(ftable) \ {frame} PROVE Content(f) \in Resident \ {<<p, i>>, out}
  <2>1. /\ f \in Frames /\ ftable[f] \in Pages /\ ptable[ftable[f]].frame = f
        /\ base[Content(f)[1]] + Content(f)[2] = ftable[f] /\ Content(f) \in Resident
        /\ Content(f)[1] \in Procs
    BY <1>11, ContentIs DEF Active
  <2>2. Content(f) # <<p, i>>
    <3>1. SUFFICES ASSUME Content(f) = <<p, i>> PROVE FALSE
      OBVIOUS
    <3>2. ftable[f] = pg
      BY <1>1, <2>1, <3>1
    <3> QED BY <1>2, <1>3, <1>11, <2>1, <3>2, SizesFacts
  <2>3. Content(f) # out
    <3>1. CASE fault /\ ftable[frame] # None
      BY <1>2, <1>3, <1>11, <3>1, ContentIs DEF Occupied
    <3>2. CASE ~(fault /\ ftable[frame] # None)
      <4>1. out = <<None, None>>
        BY <1>2, <3>2
      <4>2. out[1] = None
        BY <4>1
      <4> QED BY <2>1, <4>2, SizesFacts
    <3> QED BY <3>1, <3>2
  <2> QED BY <2>1, <2>2, <2>3
<1>12. TablesAgree'
  <2>1. ASSUME NEW x \in Pages, ptable'[x].frame # None
        PROVE  ptable'[x].pid # None /\ ftable'[ptable'[x].frame] = x
    <3>1. CASE x = pg
      BY <1>4, <1>5, <1>7, <3>1, SizesFacts
    <3>2. CASE x # pg
      <4>1. /\ ptable'[x].frame = ptable[x].frame /\ ~(fault /\ x = ftable[frame])
        BY <1>5, <2>1, <3>2
      <4>2. ptable[x].pid # None /\ ftable[ptable[x].frame] = x /\ ptable[x].frame \in Frames
        BY <2>1, <4>1 DEF TablesAgree, Typed
      <4>3. ptable[x].frame # frame
        BY <1>2, <1>6, <3>2, <4>1, <4>2
      <4> QED BY <1>5, <1>7, <4>1, <4>2, <4>3
    <3> QED BY <3>1, <3>2
  <2>2. ASSUME NEW f \in Frames, ftable'[f] # None PROVE ptable'[ftable'[f]].frame = f
    <3>1. CASE f = frame
      BY <1>5, <1>7, <3>1
    <3>2. CASE f # frame
      <4>1. ftable'[f] = ftable[f] /\ ftable[f] \in Pages /\ ptable[ftable[f]].frame = f
        BY <1>7, <2>2, <3>2 DEF TablesAgree, Typed
      <4>2. ftable[f] # pg
        BY <1>2, <1>3, <3>2, <4>1, SizesFacts
      <4>3. ~(fault /\ ftable[f] = ftable[frame])
        <5>1. SUFFICES ASSUME fault, ftable[f] = ftable[frame] PROVE FALSE
          OBVIOUS
        <5>2. ftable[frame] # None
          BY <4>1, <5>1, SizesFacts
        <5>3. ptable[ftable[frame]].frame = frame
          BY <1>3, <5>2 DEF TablesAgree
        <5> QED BY <3>2, <4>1, <5>1, <5>3
      <4> QED BY <1>5, <4>1, <4>2, <4>3
    <3> QED BY <3>1, <3>2
  <2> QED BY <2>1, <2>2 DEF TablesAgree
<1> QED
  BY <1>3, <1>5, <1>7, <1>8, <1>9, <1>10, <1>11, <1>12 DEF Accessed

LEMMA AccessKeeps ==
    ASSUME IInv, NEW p \in Procs, NEW i \in 0 .. MaxSize - 1, Access(p, i) PROVE IInv'
<1>0. Typed /\ Mapped /\ ListsMapped /\ Owned /\ TablesAgree /\ Queued /\ Ranked
  BY DEF IInv
<1>1. /\ p \in Active /\ i \in 0 .. size[p] - 1
      /\ \E fault, frame, out : Accesses(base[p] + i, <<p, i>>, fault, frame, out)
      /\ stage' = <<"access", p>> /\ arrived' = arrived
      /\ base' = base /\ memmap' = memmap /\ refs' = refs
      /\ fspc' = fspc /\ pmem' = pmem /\ size' = size
  BY <1>0, AccessIs
<1>2. PICK fault, frame, out : Accesses(base[p] + i, <<p, i>>, fault, frame, out)
  BY <1>1
<1>3. /\ ptable' \in [Pages -> [pid : Procs \union {None}, frame : Frames \union {None}]]
      /\ \A x \in Pages : ptable'[x].pid = ptable[x].pid
      /\ ftable' \in [Frames -> Pages \union {None}]
      /\ Accessed(frame) /\ Content(frame)' = <<p, i>>
      /\ TablesAgree'
      /\ \A f \in Occupied(ftable) \ {frame} : Content(f) \in Resident \ {<<p, i>>, out}
  BY <1>0, <1>1, <1>2, AccessTables
<1>4. /\ fault \in BOOLEAN /\ order' = Ordered(<<p, i>>, out, fault)
      /\ \E gap \in 0 .. Never : /\ due' \in [Procs -> 0 .. Never]
                                 /\ ctl' = Touched(pmem, ctl, frame, fault, gap)
      /\ fault => frame = NewFrame(pmem, ctl, ftable)
      /\ ~fault => ftable' = ftable /\ ptable' = ptable
  BY <1>2 DEF Accesses
<1>5. due' \in [Procs -> 0 .. Never] /\ Touches(pmem, ctl, ctl', frame, fault)
  <2>1. PICK gap \in 0 .. Never : due' \in [Procs -> 0 .. Never] /\ ctl' = Touched(pmem, ctl, frame, fault, gap)
    BY <1>4
  <2>2. pmem \in AllPaginators /\ ctl \in Control /\ frame \in Frames
    BY <1>0, <1>3, Kinds DEF Typed, Accessed
  <2> QED BY <1>4, <2>1, <2>2, TouchedIs
<1>6. Typed'
  <2>1. p \in 0 .. NumProcs
    BY SizesFacts DEF Procs
  <2>2. stage' \in {"malloc", "access", "free", "compacted", "over", "no_space", "error"} \X (0 .. NumProcs)
    BY <1>1, <2>1
  <2>3. ctl' \in Control
    BY <1>5 DEF Touches
  <2> QED BY <1>0, <1>1, <1>3, <1>5, <2>2, <2>3 DEF Typed
<1>7. Mapped' /\ ListsMapped'
  BY <1>0, <1>1 DEF Mapped, ListsMapped, Active
<1>8. Owned'
  BY <1>0, <1>1, <1>3 DEF Owned, Active
<1>9. order' # Off => order # Off
  BY <1>4 DEF Ordered
<1>10. CASE order # Off /\ ~(pmem = "FIFO" /\ ~fault)
  <2>1. order' = OrderAfter(<<p, i>>, out)
    BY <1>4, <1>10 DEF Ordered, OrderAfter
  <2>2. \A f \in Occupied(ftable) \ {frame} : Content(f)' = Content(f) /\ Content(f) \in Resident \ {<<p, i>>, out}
    BY <1>3 DEF Accessed
  <2>3. Later1(frame)
    <3>1. PICK page : page = <<p, i>>
      OBVIOUS
    <3>2. PICK S : S = Occupied(ftable) \ {frame}
      OBVIOUS
    <3>3. \A f \in S : Content(f)' = Content(f) /\ Content(f) \in Resident \ {page, out}
      BY <2>2, <3>1, <3>2
    <3>4. order' = OrderAfter(page, out)
      BY <2>1, <3>1
    <3>5. Content(frame)' = page
      BY <1>3, <3>1
    <3>6. /\ \A f \in S : Before(f, frame)' /\ ~Before(frame, f)'
          /\ ~Before(frame, frame)'
          /\ \A f, g \in S : Before(f, g)' <=> Before(f, g)
      BY <3>3, <3>4, <3>5, OrderedIs
    <3> QED BY <3>2, <3>6 DEF Later1
  <2>4. Ranked'
    BY <1>0, <1>1, <1>3, <1>5, <1>9, <2>3, RankedAfter
  <2>5. pmem = "FIFO" => ctl'.fifo = Enqueued(ctl, frame) /\ frame = NextInLine(ctl, ftable)
    <3> SUFFICES ASSUME pmem = "FIFO" PROVE ctl'.fifo = Enqueued(ctl, frame) /\ frame = NextInLine(ctl, ftable)
      OBVIOUS
    <3>1. fault /\ frame = NewFrame(pmem, ctl, ftable)
      BY <1>4, <1>10
    <3>2. pmem \in AllPaginators /\ ctl \in Control /\ Occupied(ftable) \subseteq ToSet(ctl.fifo)
      BY <1>0, Kinds DEF Typed, Queued
    <3>3. frame = NextInLine(ctl, ftable)
      BY <3>1, <3>2, NewFrameIn
    <3> QED BY <1>5, <3>1, <3>3 DEF Touches
  <2>6. Queued'
    BY <1>0, <1>1, <1>3, <1>9, <2>3, <2>5, QueuedAfter
  <2> QED BY <1>3, <1>6, <1>7, <1>8, <2>4, <2>6 DEF IInv
<1>11. CASE order = Off \/ (pmem = "FIFO" /\ ~fault)
  <2>1. order' = order
    BY <1>4, <1>11 DEF Ordered
  <2>2. Ranked'
    BY <1>0, <1>1, <1>11, <2>1 DEF Ranked
  <2>3. CASE pmem = "FIFO" /\ ~fault
    <3>1. ctl'.fifo = ctl.fifo /\ ftable' = ftable /\ ptable' = ptable
      BY <1>4, <1>5, <2>3 DEF Touches
    <3>2. \A f \in Occupied(ftable) : Content(f)' = Content(f)
      BY <1>1, <3>1 DEF Content
    <3>3. Queued'
      BY <1>0, <1>1, <2>1, <2>3, <3>1, <3>2, OrderSame
    <3> QED BY <1>3, <1>6, <1>7, <1>8, <2>2, <3>3 DEF IInv
  <2>4. CASE pmem # "FIFO"
    <3>1. Queued'
      BY <1>1, <2>4 DEF Queued
    <3> QED BY <1>3, <1>6, <1>7, <1>8, <2>2, <3>1 DEF IInv
  <2>5. CASE pmem = "FIFO" /\ fault
    <3>1. ctl'.fifo = Enqueued(ctl, frame) /\ frame = NextInLine(ctl, ftable)
      <4>2. pmem \in AllPaginators /\ ctl \in Control /\ Occupied(ftable) \subseteq ToSet(ctl.fifo)
        BY <1>0, <2>5, Kinds DEF Typed, Queued
      <4>3. frame = NextInLine(ctl, ftable)
        BY <1>4, <2>5, <4>2, NewFrameIn
      <4> QED BY <1>5, <2>5, <4>3 DEF Touches
    <3>2. Queued'
      BY <1>0, <1>1, <1>3, <1>9, <1>11, <2>5, <3>1, QueuedAfter
    <3> QED BY <1>3, <1>6, <1>7, <1>8, <2>2, <3>2 DEF IInv
  <2> QED BY <1>4, <2>3, <2>4, <2>5
<1> QED
  BY <1>4, <1>10, <1>11

-----------------------------------------------------------------------------
(* The end of a process. *)

\* The frames of the n pages from first on.
Gone(first, n) == {f \in Frames : \E pg \in first .. first + n - 1 : ptable[pg].frame = f}

DeleteTurn(first, k, c) ==
    LET f == ptable[first + k - 1].frame
    IN  IF f = None THEN c ELSE Deleted(pmem, c, f)

DeleteLoop(first, n, deleted) ==
    deleted = [k \in 0 .. n |-> IF k = 0 THEN ctl ELSE DeleteTurn(first, k, deleted[k - 1])]

LEMMA DeletedIsLoop ==
    \A first, n : DeletedPages(first, n) = (CHOOSE deleted : DeleteLoop(first, n, deleted))[n]
BY DEF DeletedPages, DeleteLoop, DeleteTurn

\* The control data after the frames of k pages were deleted.
Deleting(first, k) ==
    {c \in Control :
       /\ pmem = "FIFO" => /\ IsInjective(c.fifo) /\ Keeps(c.fifo, ctl.fifo)
                           /\ ToSet(c.fifo) = ToSet(ctl.fifo) \ Gone(first, k)
       /\ pmem = "LRU2" => \A f \in Frames \ Gone(first, k) : c.matrix[f] = ctl.matrix[f]}

LEMMA DeleteTurnKeeps ==
    ASSUME Typed, NEW first \in Nat, NEW k \in Nat \ {0}, first + k - 1 \in Pages,
           NEW c \in Deleting(first, k - 1)
    PROVE  DeleteTurn(first, k, c) \in Deleting(first, k)
<1>1. PICK pg \in Pages : pg = first + k - 1
  OBVIOUS
<1>2. ptable[pg].frame \in Frames \union {None} /\ None \notin Frames
  BY SizesFacts DEF Typed
<1>3. first .. first + k - 1 = (first .. first + (k - 1) - 1) \union {pg}
  BY <1>1
<1>4. Gone(first, k) = Gone(first, k - 1) \union (IF ptable[pg].frame = None THEN {} ELSE {ptable[pg].frame})
  BY <1>2, <1>3 DEF Gone
<1>5. /\ c \in Control
      /\ pmem = "FIFO" => /\ IsInjective(c.fifo) /\ Keeps(c.fifo, ctl.fifo)
                          /\ ToSet(c.fifo) = ToSet(ctl.fifo) \ Gone(first, k - 1)
      /\ pmem = "LRU2" => \A f \in Frames \ Gone(first, k - 1) : c.matrix[f] = ctl.matrix[f]
  BY DEF Deleting
<1>6. CASE ptable[pg].frame = None
  <2>1. DeleteTurn(first, k, c) = c
    BY <1>1, <1>6 DEF DeleteTurn
  <2> QED BY <1>4, <1>5, <1>6, <2>1 DEF Deleting
<1>7. CASE ptable[pg].frame # None
  <2>1. PICK f \in Frames : f = ptable[pg].frame
    BY <1>2, <1>7
  <2>2. PICK new : new = Deleted(pmem, c, f)
    OBVIOUS
  <2>3. DeleteTurn(first, k, c) = new
    BY <1>1, <1>7, <2>1, <2>2 DEF DeleteTurn
  <2>4. /\ new \in Control
        /\ pmem = "FIFO" => new.fifo = RemoveFirst(c.fifo, f)
        /\ pmem = "LRU2" => \A g \in Frames \ {f} : new.matrix[g] = c.matrix[g]
    <3>1. pmem \in AllPaginators
      BY Kinds
    <3>2. Deletes(pmem, c, new, f)
      BY <1>5, <2>2, <3>1, DeletedIs
    <3> QED BY <3>2 DEF Deletes
  <2>5. Gone(first, k) = Gone(first, k - 1) \union {f}
    BY <1>4, <1>7, <2>1
  <2>6. ASSUME pmem = "FIFO"
        PROVE  /\ IsInjective(new.fifo) /\ Keeps(new.fifo, ctl.fifo)
               /\ ToSet(new.fifo) = ToSet(ctl.fifo) \ Gone(first, k)
    <3>1. PICK list : list = c.fifo
      OBVIOUS
    <3>2. list \in Seq(Frames)
      BY <1>5, <3>1, ControlIs DEF FrameList
    <3>3. /\ IsInjective(RemoveFirst(list, f)) /\ ToSet(RemoveFirst(list, f)) = ToSet(list) \ {f}
          /\ Keeps(RemoveFirst(list, f), list)
      BY <1>5, <2>6, <3>1, <3>2, RemoveKeeps
    <3>4. PICK rest : rest = RemoveFirst(list, f)
      OBVIOUS
    <3>5. Keeps(rest, ctl.fifo)
      BY <1>5, <2>6, <3>1, <3>3, <3>4, KeepsAlways
    <3> QED BY <1>5, <2>4, <2>5, <2>6, <3>1, <3>3, <3>4, <3>5
  <2> QED BY <1>5, <2>3, <2>4, <2>5, <2>6 DEF Deleting
<1> QED
  BY <1>6, <1>7

LEMMA DeletedPagesIn ==
    ASSUME Typed, pmem = "FIFO" => IsInjective(ctl.fifo),
           NEW first \in Nat, NEW n \in Nat, first + n <= NumPages
    PROVE  DeletedPages(first, n) \in Deleting(first, n)
<1> DEFINE S == [k \in 0 .. n |-> Deleting(first, k)]
           e == CHOOSE deleted : DeleteLoop(first, n, deleted)
<1>1. ctl \in S[0]
  <2>1. first .. first + 0 - 1 = {}
    OBVIOUS
  <2>2. Gone(first, 0) = {}
    BY <2>1 DEF Gone
  <2>3. Keeps(ctl.fifo, ctl.fifo)
    BY DEF Keeps
  <2>4. ctl \in Deleting(first, 0)
    BY <2>2, <2>3 DEF Deleting, Typed
  <2> QED BY <2>4
<1>2. ASSUME NEW k \in 1 .. n, NEW c \in Deleting(first, k - 1)
      PROVE  DeleteTurn(first, k, c) \in Deleting(first, k)
  <2>1. first + k - 1 \in Pages
    BY SizesFacts DEF Pages
  <2> QED BY <2>1, DeleteTurnKeeps
<1>3. DeleteLoop(first, n, e)
  <2> DEFINE turn == [k \in 1 .. n |-> [c \in Deleting(first, k - 1) |-> DeleteTurn(first, k, c)]]
  <2>1. \A k \in 1 .. n : \A c \in S[k - 1] :
           turn[k][c] = DeleteTurn(first, k, c) /\ turn[k][c] \in S[k]
    <3> TAKE k \in 1 .. n
    <3>1. k - 1 \in 0 .. n /\ k \in 0 .. n
      OBVIOUS
    <3> TAKE c \in S[k - 1]
    <3>2. c \in Deleting(first, k - 1)
      BY <3>1
    <3> QED BY <1>2, <3>1, <3>2
  <2> HIDE DEF S, turn
  <2>2. PICK f : Staged(n, S, ctl, turn, f)
    BY <1>1, <2>1, StagedLoop
  <2>3. /\ f[0] = ctl /\ f = [k \in 0 .. n |-> f[k]]
        /\ \A k \in 1 .. n : f[k] = turn[k][f[k - 1]]
        /\ \A k \in 0 .. n : f[k] \in S[k]
    BY <2>2 DEF Staged
  <2>4. \A k \in 1 .. n : f[k] = DeleteTurn(first, k, f[k - 1])
    <3> TAKE k \in 1 .. n
    <3>1. f[k - 1] \in S[k - 1]
      BY <2>3
    <3> QED BY <2>1, <2>3, <3>1
  <2>5. f = [k \in 0 .. n |-> IF k = 0 THEN ctl ELSE DeleteTurn(first, k, f[k - 1])]
    <3>1. \A k \in 0 .. n : f[k] = IF k = 0 THEN ctl ELSE DeleteTurn(first, k, f[k - 1])
      <4> TAKE k \in 0 .. n
      <4>1. CASE k = 0
        BY <2>3, <4>1
      <4>2. CASE k # 0
        <5>1. k \in 1 .. n
          BY <4>2
        <5> QED BY <2>4, <4>2, <5>1
      <4> QED BY <4>1, <4>2
    <3> QED BY <2>3, <3>1
  <2>6. DeleteLoop(first, n, f)
    BY <2>5 DEF DeleteLoop
  <2> QED BY <2>6
<1> HIDE DEF e
<1>4. e[0] = ctl /\ \A k \in 1 .. n : e[k] = DeleteTurn(first, k, e[k - 1])
  BY <1>3 DEF DeleteLoop
<1>5. e[n] \in S[n]
  <2>1. ASSUME NEW k \in 1 .. n, e[k - 1] \in S[k - 1] PROVE e[k] \in S[k]
    <3>1. k - 1 \in 0 .. n /\ k \in 0 .. n
      OBVIOUS
    <3>2. e[k - 1] \in Deleting(first, k - 1)
      BY <2>1, <3>1
    <3>3. e[k] \in Deleting(first, k)
      BY <1>2, <1>4, <3>2
    <3> QED BY <3>1, <3>3
  <2>2. e[0] \in S[0]
    BY <1>1, <1>4
  <2> HIDE DEF S
  <2>3. \A k \in 0 .. n : e[k] \in S[k]
    BY <2>1, <2>2, LoopInvariant
  <2> QED BY <2>3
<1>6. DeletedPages(first, n) = e[n]
  BY DeletedIsLoop DEF e
<1> QED
  BY <1>5, <1>6

\* What the end of process p does to the tables.
Finished(p) ==
    /\ p \in Active
    /\ base' = [base EXCEPT ![p] = None]
    /\ ftable' = [f \in Frames |-> IF f \in Gone(base[p], size[p]) THEN None ELSE ftable[f]]
    /\ ptable' = [pg \in Pages |-> IF base[p] <= pg /\ pg < base[p] + size[p] THEN FreePage ELSE ptable[pg]]
    /\ ctl' = IF fspc = "QuickFit" THEN ctl ELSE DeletedPages(base[p], size[p])
    /\ order' = IF order = Off THEN Off ELSE {x \in order : x[1][1] # p /\ x[2][1] # p}
    /\ size' = size /\ fspc' = fspc /\ pmem' = pmem /\ arrived' = arrived

LEMMA FinishIs ==
    ASSUME Typed, Mapped, NEW p \in Procs, Finish(p)
    PROVE  /\ Finished(p) /\ stage' = <<"free", p>> /\ due' = due
           /\ memmap' = Free(memmap, refs, base[p]).map /\ refs' = Free(memmap, refs, base[p]).refs
<1>1. p \in Active
  BY DEF Finish
<1>2. base[p] \in Nat /\ size[p] \in Nat /\ Pages \subseteq Nat
  BY <1>1, Within, SizesFacts
<1>3. \A pg \in Pages : pg \in base[p] .. base[p] + size[p] - 1 <=> base[p] <= pg /\ pg < base[p] + size[p]
  <2>1. PICK b \in Nat : b = base[p]
    BY <1>2
  <2>2. PICK n \in Nat : n = size[p]
    BY <1>2
  <2>3. \A pg \in Nat : pg \in b .. b + n - 1 <=> b <= pg /\ pg < b + n
    OBVIOUS
  <2> QED BY <1>2, <2>1, <2>2, <2>3
<1>4. /\ memmap' = Free(memmap, refs, base[p]).map /\ refs' = Free(memmap, refs, base[p]).refs
      /\ ftable' = [f \in Frames |-> IF f \in Gone(base[p], size[p]) THEN None ELSE ftable[f]]
      /\ ctl' = (IF fspc = "QuickFit" THEN ctl ELSE DeletedPages(base[p], size[p]))
      /\ ptable' = [pg \in Pages |-> IF pg \in base[p] .. base[p] + size[p] - 1 THEN FreePage ELSE ptable[pg]]
  BY DEF Finish, Gone
<1>5. /\ base' = [base EXCEPT ![p] = None]
      /\ order' = IF order = Off THEN Off ELSE {x \in order : x[1][1] # p /\ x[2][1] # p}
      /\ stage' = <<"free", p>> /\ due' = due
      /\ size' = size /\ fspc' = fspc /\ pmem' = pmem /\ arrived' = arrived
  BY DEF Finish, choiceVars
<1>6. ptable' = [pg \in Pages |-> IF base[p] <= pg /\ pg < base[p] + size[p] THEN FreePage ELSE ptable[pg]]
  BY <1>3, <1>4
<1> QED
  BY <1>1, <1>4, <1>5, <1>6 DEF Finished

\* The tables afterwards: the process's pages and frames are free, the others
\* as before.
LEMMA FinishTables ==
    ASSUME Typed, Mapped, Owned, TablesAgree, NEW p \in Procs, Finished(p)
    PROVE  /\ Active' = Active \ {p} /\ base' \in [Procs -> Pages \union {None}]
           /\ \A q \in Procs \ {p} : base'[q] = base[q]
           /\ ptable' \in [Pages -> [pid : Procs \union {None}, frame : Frames \union {None}]]
           /\ ftable' \in [Frames -> Pages \union {None}]
           /\ Occupied(ftable') = Occupied(ftable) \ Gone(base[p], size[p])
           /\ \A f \in Occupied(ftable') : Content(f)' = Content(f) /\ Content(f)[1] # p
           /\ Owned' /\ TablesAgree'
<1> DEFINE gone == Gone(base[p], size[p])
<1>1. /\ p \in Active /\ base[p] \in Nat /\ size[p] \in Nat \ {0} /\ Pages \subseteq Nat /\ None \notin Frames
  BY Within, SizesFacts DEF Finished
<1>2. /\ base' \in [Procs -> Pages \union {None}] /\ base'[p] = None
      /\ \A q \in Procs \ {p} : base'[q] = base[q]
  BY DEF Finished, Typed
<1>3. Active' = Active \ {p}
  BY <1>2 DEF Active
<1>4. /\ ptable' \in [Pages -> [pid : Procs \union {None}, frame : Frames \union {None}]]
      /\ \A pg \in Pages : ptable'[pg] = IF base[p] <= pg /\ pg < base[p] + size[p] THEN FreePage ELSE ptable[pg]
  <2>1. \A pg \in Pages : ptable'[pg] = IF base[p] <= pg /\ pg < base[p] + size[p] THEN FreePage ELSE ptable[pg]
    BY DEF Finished
  <2>2. FreePage \in [pid : Procs \union {None}, frame : Frames \union {None}]
    BY DEF FreePage
  <2>3. \A pg \in Pages : ptable'[pg] \in [pid : Procs \union {None}, frame : Frames \union {None}]
    BY <2>1, <2>2 DEF Typed
  <2> QED BY <2>1, <2>3 DEF Finished
<1>5. \A pg \in Pages : ptable[pg].pid = p <=> base[p] <= pg /\ pg < base[p] + size[p]
  BY <1>1 DEF Owned
<1>6. gone = {f \in Frames : \E pg \in Pages : ptable[pg].pid = p /\ ptable[pg].frame = f}
  <2>1. \A pg \in Pages : pg \in base[p] .. base[p] + size[p] - 1 <=> base[p] <= pg /\ pg < base[p] + size[p]
    <3>1. PICK b \in Nat : b = base[p]
      BY <1>1
    <3>2. PICK n \in Nat : n = size[p]
      BY <1>1
    <3>3. \A pg \in Nat : pg \in b .. b + n - 1 <=> b <= pg /\ pg < b + n
      OBVIOUS
    <3> QED BY <1>1, <3>1, <3>2, <3>3
  <2>2. base[p] .. base[p] + size[p] - 1 \subseteq Pages
    <3>1. base[p] + size[p] <= NumPages
      BY <1>1, Within
    <3> QED BY <1>1, <3>1, SizesFacts DEF Pages
  <2> QED BY <1>5, <2>1, <2>2 DEF Gone
<1> HIDE DEF gone
<1>7. /\ ftable' \in [Frames -> Pages \union {None}]
      /\ \A f \in Frames : ftable'[f] = IF f \in gone THEN None ELSE ftable[f]
  BY DEF Finished, Typed, gone
<1>8. Occupied(ftable') = Occupied(ftable) \ gone
  BY <1>7 DEF Occupied
<1>9. \A f \in Frames \ gone : ftable[f] # None =>
           ftable[f] \in Pages /\ ptable[ftable[f]].frame = f /\ ptable[ftable[f]].pid # p
  BY <1>6 DEF TablesAgree, Typed
<1>10. ASSUME NEW f \in Occupied(ftable') PROVE Content(f)' = Content(f) /\ Content(f)[1] # p
  <2>1. /\ f \in Frames \ gone /\ ftable[f] # None /\ ftable'[f] = ftable[f] /\ f \in Occupied(ftable)
    BY <1>7, <1>8 DEF Occupied
  <2>2. ftable[f] \in Pages /\ ptable[ftable[f]].pid # p
    BY <1>9, <2>1
  <2>3. ptable'[ftable[f]] = ptable[ftable[f]]
    BY <1>4, <1>5, <2>2
  <2>4. ptable[ftable[f]].pid \in Procs /\ Content(f)[1] = ptable[ftable[f]].pid
    BY <2>1, ContentIs DEF Active
  <2>5. base'[ptable[ftable[f]].pid] = base[ptable[ftable[f]].pid]
    BY <1>2, <2>2, <2>4
  <2> QED BY <2>1, <2>2, <2>3, <2>4, <2>5 DEF Content
<1>11. TablesAgree'
  <2>1. ASSUME NEW pg \in Pages, ptable'[pg].frame # None
        PROVE  ptable'[pg].pid # None /\ ftable'[ptable'[pg].frame] = pg
    <3>1. ptable'[pg] = ptable[pg] /\ ptable[pg].pid # p
      BY <1>4, <1>5, <2>1 DEF FreePage
    <3>2. ptable[pg].pid # None /\ ftable[ptable[pg].frame] = pg /\ ptable[pg].frame \in Frames
      BY <2>1, <3>1 DEF TablesAgree, Typed
    <3>3. ptable[pg].frame \notin gone
      <4>1. SUFFICES ASSUME NEW x \in Pages, ptable[x].pid = p, ptable[x].frame = ptable[pg].frame PROVE FALSE
        BY <1>6
      <4>2. ftable[ptable[x].frame] = x
        BY <3>2, <4>1, <1>1 DEF TablesAgree
      <4> QED BY <3>1, <3>2, <4>1, <4>2
    <3> QED BY <1>7, <3>1, <3>2, <3>3
  <2>2. ASSUME NEW f \in Frames, ftable'[f] # None PROVE ptable'[ftable'[f]].frame = f
    <3>1. ftable'[f] = ftable[f] /\ f \notin gone /\ ftable[f] # None
      BY <1>7, <2>2
    <3>2. ftable[f] \in Pages /\ ptable[ftable[f]].frame = f /\ ptable[ftable[f]].pid # p
      BY <1>9, <3>1
    <3> QED BY <1>4, <1>5, <3>1, <3>2
  <2> QED BY <2>1, <2>2 DEF TablesAgree
<1>12. Owned'
  <2>1. \A q \in Procs : q > arrived' => base'[q] = None
    BY <1>2 DEF Owned, Finished
  <2>2. ASSUME NEW pg \in Pages, NEW q \in Procs
        PROVE  ptable'[pg].pid = q <=> q \in Active' /\ base'[q] <= pg /\ pg < base'[q] + size'[q]
    <3>1. size' = size
      BY DEF Finished
    <3>2. ptable[pg].pid = q <=> q \in Active /\ base[q] <= pg /\ pg < base[q] + size[q]
      BY DEF Owned
    <3>3. CASE q = p
      BY <1>3, <1>4, <1>5, <3>3, SizesFacts DEF FreePage
    <3>4. CASE q # p /\ ptable[pg].pid = p
      BY <1>2, <1>3, <1>4, <1>5, <3>1, <3>2, <3>4, SizesFacts DEF FreePage
    <3>5. CASE q # p /\ ptable[pg].pid # p
      <4>1. ptable'[pg] = ptable[pg]
        BY <1>4, <1>5, <3>5
      <4> QED BY <1>2, <1>3, <3>1, <3>2, <3>5, <4>1
    <3> QED BY <3>3, <3>4, <3>5
  <2> QED BY <2>1, <2>2 DEF Owned
<1> QED
  BY <1>2, <1>3, <1>4, <1>7, <1>8, <1>10, <1>11, <1>12 DEF gone

\* Different processes have different pieces.
LEMMA Apart ==
    ASSUME Typed, Mapped, Owned
    PROVE  \A p, q \in Active : base[p] = base[q] => p = q
<1> SUFFICES ASSUME NEW p \in Active, NEW q \in Active, base[p] = base[q] PROVE p = q
  OBVIOUS
<1>1. /\ p \in Procs /\ q \in Procs /\ base[p] \in Nat /\ base[q] \in Nat
      /\ size[p] \in Nat \ {0} /\ size[q] \in Nat \ {0} /\ base[p] + size[p] <= NumPages /\ NumPages \in Nat
  BY Within, SizesFacts
<1>2. PICK pg \in Pages : pg = base[p]
  BY <1>1 DEF Pages
<1>3. ptable[pg].pid = p
  BY <1>1, <1>2 DEF Owned
<1>4. ptable[pg].pid = q
  BY <1>1, <1>2 DEF Owned
<1> QED
  BY <1>3, <1>4

\* And to the map and the lists.
LEMMA FinishMap ==
    ASSUME Typed, Mapped, ListsMapped, Owned, NEW p \in Active,
           memmap' = Free(memmap, refs, base[p]).map, refs' = Free(memmap, refs, base[p]).refs,
           Active' = Active \ {p}, \A q \in Procs \ {p} : base'[q] = base[q], size' = size, fspc' = fspc
    PROVE  Mapped' /\ ListsMapped'
<1>1. p \in Procs /\ Piece("P", base[p], size[p]) \in Used(memmap)
  BY Within
<1>2. PICK m \in Used(memmap) : m = Piece("P", base[p], size[p])
  BY <1>1
<1>3. m.base = base[p]
  BY <1>2 DEF Piece
<1>4. Covers(memmap, 0, NumPages) /\ ListsFresh(memmap, refs)
  BY DEF Mapped, ListsMapped
<1>5. Taken(memmap, refs, Free(memmap, refs, m.base), NumPages, m)
  BY <1>4, FreeTakes
<1>6. PICK new : new = Free(memmap, refs, base[p])
  OBVIOUS
<1>7. memmap' = new.map /\ refs' = new.refs /\ Taken(memmap, refs, new, NumPages, m)
  BY <1>3, <1>5, <1>6
<1>8. /\ Covers(memmap', 0, NumPages) /\ ListsFresh(memmap', refs')
      /\ DOMAIN refs' = DOMAIN refs
      /\ Used(memmap') = Used(memmap) \ {m}
  BY <1>7 DEF Taken
<1>9. {Piece("P", base'[q], size'[q]) : q \in Active'} = Used(memmap) \ {m}
  <2>1. Used(memmap) = {Piece("P", base[q], size[q]) : q \in Active}
    BY DEF Mapped
  <2>2. \A q \in Active' : q \in Active /\ q # p /\ Piece("P", base'[q], size'[q]) = Piece("P", base[q], size[q])
    BY DEF Active
  <2>3. \A q \in Active : q # p => Piece("P", base[q], size[q]) # m
    <3> SUFFICES ASSUME NEW q \in Active, q # p, Piece("P", base[q], size[q]) = m PROVE FALSE
      OBVIOUS
    <3>1. base[q] = base[p]
      BY <1>2 DEF Piece
    <3> QED BY <3>1, Apart
  <2> DEFINE now == {Piece("P", base'[q], size'[q]) : q \in Active'}
  <2>4. ASSUME NEW x \in now PROVE x \in Used(memmap) \ {m}
    BY <2>1, <2>2, <2>3
  <2>5. ASSUME NEW x \in Used(memmap) \ {m} PROVE x \in now
    <3>1. PICK q \in Active : x = Piece("P", base[q], size[q])
      BY <2>1
    <3>2. q \in Active'
      BY <1>2, <2>5, <3>1
    <3> QED BY <2>2, <3>1, <3>2
  <2> HIDE DEF now
  <2>6. now = Used(memmap) \ {m}
    BY <2>4, <2>5
  <2> QED BY <2>6 DEF now
<1>10. Mapped'
  BY <1>8, <1>9 DEF Mapped
<1> QED
  BY <1>8, <1>10 DEF ListsMapped

LEMMA FinishKeeps == ASSUME IInv, NEW p \in Procs, Finish(p) PROVE IInv'
<1>0. Typed /\ Mapped /\ ListsMapped /\ Owned /\ TablesAgree /\ Queued /\ Ranked
  BY DEF IInv
<1>1. /\ Finished(p) /\ stage' = <<"free", p>> /\ due' = due
      /\ memmap' = Free(memmap, refs, base[p]).map /\ refs' = Free(memmap, refs, base[p]).refs
  BY <1>0, FinishIs
<1>2. /\ p \in Active
      /\ ctl' = IF fspc = "QuickFit" THEN ctl ELSE DeletedPages(base[p], size[p])
      /\ order' = IF order = Off THEN Off ELSE {x \in order : x[1][1] # p /\ x[2][1] # p}
      /\ size' = size /\ fspc' = fspc /\ pmem' = pmem /\ arrived' = arrived
  BY <1>1 DEF Finished
<1>3. /\ Active' = Active \ {p} /\ base' \in [Procs -> Pages \union {None}]
      /\ \A q \in Procs \ {p} : base'[q] = base[q]
      /\ ptable' \in [Pages -> [pid : Procs \union {None}, frame : Frames \union {None}]]
      /\ ftable' \in [Frames -> Pages \union {None}]
      /\ Occupied(ftable') = Occupied(ftable) \ Gone(base[p], size[p])
      /\ \A f \in Occupied(ftable') : Content(f)' = Content(f) /\ Content(f)[1] # p
      /\ Owned' /\ TablesAgree'
  BY <1>0, <1>1, FinishTables
<1>4. Mapped' /\ ListsMapped'
  BY <1>0, <1>1, <1>2, <1>3, FinishMap
<1> DEFINE gone == Gone(base[p], size[p])
<1>5. /\ ctl' \in Control
      /\ pmem = "FIFO" /\ fspc # "QuickFit" =>
            /\ IsInjective(ctl'.fifo) /\ Keeps(ctl'.fifo, ctl.fifo)
            /\ ToSet(ctl'.fifo) = ToSet(ctl.fifo) \ gone
      /\ pmem = "FIFO" /\ fspc = "QuickFit" => ctl' = ctl
      /\ pmem = "LRU2" => \A f \in Frames \ gone : ctl'.matrix[f] = ctl.matrix[f]
  <2>1. CASE fspc = "QuickFit"
    BY <1>0, <1>2, <2>1 DEF Typed
  <2>2. CASE fspc # "QuickFit"
    <3>1. base[p] \in Nat /\ size[p] \in Nat /\ base[p] + size[p] <= NumPages
      BY <1>0, <1>2, Within
    <3>2. pmem = "FIFO" => IsInjective(ctl.fifo)
      BY <1>0, <2>2 DEF Queued
    <3>3. DeletedPages(base[p], size[p]) \in Deleting(base[p], size[p])
      BY <1>0, <3>1, <3>2, DeletedPagesIn
    <3>4. ctl' \in Deleting(base[p], size[p])
      BY <1>2, <2>2, <3>3
    <3> QED BY <2>2, <3>4 DEF Deleting
  <2> QED BY <2>1, <2>2
<1>6. Typed'
  <2>1. p \in 0 .. NumProcs
    BY SizesFacts DEF Procs
  <2>2. stage' \in {"malloc", "access", "free", "compacted", "over", "no_space", "error"} \X (0 .. NumProcs)
    BY <1>1, <2>1
  <2> QED BY <1>0, <1>1, <1>2, <1>3, <1>5, <2>2 DEF Typed
<1>7. order # Off => \A f, g \in Occupied(ftable') : Before(f, g)' <=> Before(f, g)
  <2> SUFFICES ASSUME order # Off, NEW f \in Occupied(ftable'), NEW g \in Occupied(ftable')
               PROVE  Before(f, g)' <=> Before(f, g)
    OBVIOUS
  <2>1. /\ Content(f)' = Content(f) /\ Content(f)[1] # p
        /\ Content(g)' = Content(g) /\ Content(g)[1] # p
    BY <1>3
  <2>2. PICK x : x = <<Content(f), Content(g)>>
    OBVIOUS
  <2>3. x[1] = Content(f) /\ x[2] = Content(g)
    BY <2>2
  <2>4. x \in order' <=> x \in order
    BY <1>2, <2>1, <2>3
  <2> QED BY <2>1, <2>2, <2>4 DEF Before
<1>8. order' # Off => order # Off
  BY <1>2
<1>11. pmem' = pmem /\ fspc' = fspc
  BY <1>2
<1>9. Queued'
  <2> SUFFICES ASSUME pmem = "FIFO"
               PROVE  /\ Occupied(ftable') \subseteq ToSet(ctl'.fifo)
                      /\ fspc # "QuickFit" => ToSet(ctl'.fifo) = Occupied(ftable') /\ IsInjective(ctl'.fifo)
                      /\ order # Off => \A i, j \in 1 .. Len(ctl'.fifo) : i < j =>
                            \A f, g : f = ctl'.fifo[i] /\ g = ctl'.fifo[j] => Before(f, g)'
    BY <1>8, <1>11 DEF Queued, Occupied, Before, Content
  <2>1. /\ Occupied(ftable) \subseteq ToSet(ctl.fifo)
        /\ fspc # "QuickFit" => ToSet(ctl.fifo) = Occupied(ftable) /\ IsInjective(ctl.fifo)
        /\ order # Off => fspc # "QuickFit"
        /\ order # Off => \A i, j \in 1 .. Len(ctl.fifo) : i < j => Before(ctl.fifo[i], ctl.fifo[j])
    BY <1>0 DEF Queued, Ranked
  <2>2. CASE fspc = "QuickFit"
    BY <1>3, <1>5, <2>1, <2>2
  <2>3. CASE fspc # "QuickFit"
    <3>1. /\ IsInjective(ctl'.fifo) /\ Keeps(ctl'.fifo, ctl.fifo)
          /\ ToSet(ctl'.fifo) = Occupied(ftable')
      BY <1>3, <1>5, <2>1, <2>3
    <3>2. ASSUME order # Off, NEW i \in 1 .. Len(ctl'.fifo), NEW j \in 1 .. Len(ctl'.fifo), i < j,
                 NEW f, NEW g, f = ctl'.fifo[i], g = ctl'.fifo[j]
          PROVE  Before(f, g)'
      <4>1. FrameList(ctl'.fifo)
        BY <1>5, ControlIs
      <4>2. f \in Occupied(ftable') /\ g \in Occupied(ftable')
        BY <3>1, <3>2, <4>1 DEF ToSet, FrameList
      <4>3. PICK k \in 1 .. Len(ctl.fifo), l \in 1 .. Len(ctl.fifo) :
               k < l /\ ctl'.fifo[i] = ctl.fifo[k] /\ ctl'.fifo[j] = ctl.fifo[l]
        BY <3>1, <3>2 DEF Keeps
      <4>4. Before(f, g)
        BY <2>1, <3>2, <4>3
      <4> QED BY <1>7, <3>2, <4>2, <4>4
    <3> QED BY <3>1, <3>2
  <2> QED BY <2>2, <2>3
<1>10. Ranked'
  <2> SUFFICES ASSUME order # Off, pmem = "LRU2"
               PROVE  /\ \A f, g, h \in Occupied(ftable') : Before(f, g)' /\ Before(g, h)' => Before(f, h)'
                      /\ \A f, g \in Occupied(ftable') : f # g => (Before(f, g)' <=> ~Before(g, f)')
                      /\ \A f, g \in Occupied(ftable') : g \in ctl'.matrix[f] <=> Before(g, f)'
                      /\ \A f \in Occupied(ftable') : f \notin ctl'.matrix[f]
    BY <1>0, <1>2, <1>8 DEF Ranked, Occupied
  <2>1. \A f \in Occupied(ftable') : f \in Occupied(ftable) /\ ctl'.matrix[f] = ctl.matrix[f]
    BY <1>3, <1>5 DEF Occupied
  <2>2. /\ \A f, g, h \in Occupied(ftable') : Before(f, g) /\ Before(g, h) => Before(f, h)
        /\ \A f, g \in Occupied(ftable') : f # g => (Before(f, g) <=> ~Before(g, f))
        /\ \A f, g \in Occupied(ftable') : g \in ctl.matrix[f] <=> Before(g, f)
        /\ \A f \in Occupied(ftable') : f \notin ctl.matrix[f]
    BY <1>0, <2>1 DEF Ranked
  <2> QED BY <1>7, <2>1, <2>2
<1> QED
  BY <1>3, <1>4, <1>6, <1>9, <1>10 DEF IInv

-----------------------------------------------------------------------------
(* Compaction: how many are below. *)

\* The members of S are ranked by their keys.
Rank(S, key) == [x \in S |-> Cardinality({y \in S : key[y] < key[x]})]

Numbered(S, key, rank) ==
    /\ \A x \in S : rank[x] \in 0 .. Cardinality(S) - 1
    /\ \A x, y \in S : key[x] < key[y] <=> rank[x] < rank[y]
    /\ \A x, y \in S : rank[x] = rank[y] => x = y
    /\ \A k \in 0 .. Cardinality(S) - 1 : \E x \in S : rank[x] = k

\* The ranks have no gaps.
LEMMA RankIs ==
    ASSUME NEW S, IsFiniteSet(S), NEW key \in [S -> Int], \A x, y \in S : key[x] = key[y] => x = y
    PROVE  Numbered(S, key, Rank(S, key))
<1> DEFINE rank == Rank(S, key)
<1> DEFINE Lower(x) == {y \in S : key[y] < key[x]}
<1>1. \A x \in S : Lower(x) \in SUBSET S /\ x \notin Lower(x) /\ rank[x] = Cardinality(Lower(x))
  BY DEF Rank
<1>2. \A x, y \in S : key[x] < key[y] => Lower(x) \in SUBSET Lower(y) /\ x \in Lower(y)
  OBVIOUS
<1> HIDE DEF Lower, rank
<1>3. Cardinality(S) \in Nat
  BY FS_CardinalityType
<1>4. \A x \in S : IsFiniteSet(Lower(x)) /\ rank[x] \in Nat /\ rank[x] < Cardinality(S)
  <2> TAKE x \in S
  <2>1. IsFiniteSet(Lower(x)) /\ Cardinality(Lower(x)) <= Cardinality(S)
        /\ (Cardinality(S) = Cardinality(Lower(x)) => S = Lower(x))
    BY <1>1, FS_Subset
  <2>2. Cardinality(Lower(x)) \in Nat
    BY <2>1, FS_CardinalityType
  <2> QED BY <1>1, <1>3, <2>1, <2>2
<1>5. ASSUME NEW x \in S, NEW y \in S, key[x] < key[y] PROVE rank[x] < rank[y]
  <2>1. Cardinality(Lower(x)) <= Cardinality(Lower(y))
        /\ (Cardinality(Lower(y)) = Cardinality(Lower(x)) => Lower(y) = Lower(x))
    BY <1>2, <1>4, <1>5, FS_Subset
  <2>2. Lower(x) # Lower(y)
    BY <1>1, <1>2, <1>5
  <2> QED BY <1>1, <1>4, <2>1, <2>2
<1>6. \A x, y \in S : key[x] \in Int /\ key[y] \in Int
  OBVIOUS
<1>7. \A x, y \in S : rank[x] = rank[y] => x = y
  <2> TAKE x, y \in S
  <2> HAVE rank[x] = rank[y]
  <2>1. rank[x] \in Nat /\ rank[y] \in Nat /\ key[x] \in Int /\ key[y] \in Int
    BY <1>4, <1>6
  <2>2. ~(key[x] < key[y])
    BY <1>5, <2>1
  <2>3. ~(key[y] < key[x])
    BY <1>5, <2>1
  <2>4. key[x] = key[y]
    BY <2>1, <2>2, <2>3
  <2> QED BY <2>4
<1>8. \A x, y \in S : key[x] < key[y] <=> rank[x] < rank[y]
  <2> TAKE x, y \in S
  <2>1. CASE key[x] < key[y]
    BY <1>5, <2>1
  <2>2. CASE key[y] < key[x]
    <3>1. rank[y] < rank[x]
      BY <1>5, <2>2
    <3>2. rank[x] \in Nat /\ rank[y] \in Nat /\ key[x] \in Int /\ key[y] \in Int
      BY <1>4, <1>6
    <3> QED BY <2>2, <3>1, <3>2
  <2>3. CASE key[x] = key[y]
    BY <1>4, <2>3
  <2> QED BY <1>6, <2>1, <2>2, <2>3
<1>9. \A x \in S : rank[x] \in 0 .. Cardinality(S) - 1
  BY <1>3, <1>4
<1>10. ASSUME NEW k \in 0 .. Cardinality(S) - 1 PROVE \E x \in S : rank[x] = k
  <2> DEFINE T == 0 .. Cardinality(S) - 1
  <2>1. IsFiniteSet(T) /\ Cardinality(T) = Cardinality(S)
    <3>1. 0 \in Int /\ Cardinality(S) - 1 \in Int /\ ~(0 > Cardinality(S) - 1)
      BY <1>3
    <3>2. IsFiniteSet(T) /\ Cardinality(T) = IF 0 > Cardinality(S) - 1 THEN 0 ELSE (Cardinality(S) - 1) - 0 + 1
      BY <3>1, FS_Interval
    <3> QED BY <1>3, <3>1, <3>2
  <2>2. rank \in [S -> T]
    BY <1>9 DEF rank, Rank
  <2> HIDE DEF T
  <2>3. rank \in Injection(S, T)
    BY <1>7, <2>2 DEF Injection, IsInjective
  <2>4. rank \in Surjection(S, T)
    BY <2>1, <2>3, FS_Injection
  <2>5. k \in T
    BY DEF T
  <2> QED BY <2>4, <2>5 DEF Surjection
<1> QED
  BY <1>7, <1>8, <1>9, <1>10 DEF Numbered, rank

\* The pages that belong to processes.
UsedPages == UsedBelow(NumPages)

\* The numbers that the used pages get.
LEMMA PackedIs ==
    ASSUME Typed
    PROVE  /\ UsedPages = {pg \in Pages : ptable[pg].pid # None}
           /\ Top \in Nat /\ Top <= NumPages /\ Top = Packed(NumPages)
           /\ \A pg \in UsedPages : Packed(pg) \in 0 .. Top - 1 /\ Packed(pg) \in Pages
           /\ \A x, y \in UsedPages : x < y <=> Packed(x) < Packed(y)
           /\ \A x, y \in UsedPages : Packed(x) = Packed(y) => x = y
           /\ \A k \in 0 .. Top - 1 : \E pg \in UsedPages : Packed(pg) = k
<1>1. UsedPages = {pg \in Pages : ptable[pg].pid # None} /\ UsedPages \in SUBSET Pages
  BY SizesFacts DEF UsedPages, UsedBelow, Pages
<1>2. IsFiniteSet(UsedPages) /\ Cardinality(UsedPages) <= Cardinality(Pages)
  BY <1>1, SizesFacts, FS_Subset
<1>3. Cardinality(Pages) = NumPages
  <2>1. 0 \in Int /\ NumPages - 1 \in Int /\ ~(0 > NumPages - 1)
    BY SizesFacts
  <2>2. Cardinality(0 .. NumPages - 1) = IF 0 > NumPages - 1 THEN 0 ELSE (NumPages - 1) - 0 + 1
    BY <2>1, FS_Interval
  <2> QED BY <2>1, <2>2, SizesFacts DEF Pages
<1>4. Top = Cardinality(UsedPages) /\ Top = Packed(NumPages)
  BY DEF Top, UsedPages, Packed
<1>5. Top \in Nat /\ Top <= NumPages
  BY <1>2, <1>3, <1>4, FS_CardinalityType
<1>15. UsedPages \subseteq Int
  <2>1. Pages \subseteq Int
    BY SizesFacts
  <2> QED BY <1>1, <2>1
<1> DEFINE key == [x \in UsedPages |-> x]
           rank == Rank(UsedPages, key)
<1>6. \A x \in UsedPages : rank[x] = Packed(x)
  <2>1. \A x \in UsedPages : UsedBelow(x) = {y \in UsedPages : key[y] < key[x]}
    BY <1>1 DEF UsedBelow
  <2> QED BY <2>1 DEF Packed, Rank
<1>7. key \in [UsedPages -> Int] /\ \A x \in UsedPages : key[x] = x
  BY <1>15
<1> HIDE DEF key
<1>8. Numbered(UsedPages, key, rank)
  BY <1>2, <1>7, RankIs
<1> HIDE DEF rank
<1>9. /\ \A x \in UsedPages : rank[x] \in 0 .. Cardinality(UsedPages) - 1
      /\ \A x, y \in UsedPages : key[x] < key[y] <=> rank[x] < rank[y]
      /\ \A x, y \in UsedPages : rank[x] = rank[y] => x = y
      /\ \A k \in 0 .. Cardinality(UsedPages) - 1 : \E x \in UsedPages : rank[x] = k
  BY <1>8 DEF Numbered
<1>11. \A pg \in UsedPages : Packed(pg) \in 0 .. Top - 1 /\ Packed(pg) \in Pages
  <2>1. \A pg \in UsedPages : Packed(pg) \in 0 .. Top - 1
    BY <1>4, <1>6, <1>9
  <2>2. 0 .. Top - 1 \subseteq Pages
    BY <1>5, SizesFacts DEF Pages
  <2> QED BY <2>1, <2>2
<1>12. \A x, y \in UsedPages : x < y <=> Packed(x) < Packed(y)
  BY <1>6, <1>7, <1>9
<1>13. \A x, y \in UsedPages : Packed(x) = Packed(y) => x = y
  BY <1>6, <1>9
<1>14. \A k \in 0 .. Top - 1 : \E pg \in UsedPages : Packed(pg) = k
  BY <1>4, <1>6, <1>9
<1> QED
  BY <1>1, <1>4, <1>5, <1>11, <1>12, <1>13, <1>14

\* A used page is counted for the pages behind it.
LEMMA PackedStep ==
    ASSUME Typed, NEW pg \in Pages, ptable[pg].pid # None
    PROVE  Packed(pg) \in Nat /\ Packed(pg + 1) = Packed(pg) + 1
<1>1. Pages \subseteq Nat /\ IsFiniteSet(Pages)
  BY SizesFacts
<1>2. UsedBelow(pg + 1) = UsedBelow(pg) \union {pg} /\ pg \notin UsedBelow(pg)
  <2>1. \A q \in Pages : q < pg + 1 <=> q < pg \/ q = pg
    <3> TAKE q \in Pages
    <3>1. q \in Nat /\ pg \in Nat
      BY <1>1
    <3> QED BY <3>1
  <2>2. ~(pg < pg)
    BY <1>1
  <2> QED BY <2>1, <2>2 DEF UsedBelow
<1>3. IsFiniteSet(UsedBelow(pg))
  <2>1. UsedBelow(pg) \in SUBSET Pages
    BY DEF UsedBelow
  <2> QED BY <1>1, <2>1, FS_Subset
<1>4. Cardinality(UsedBelow(pg) \union {pg}) = Cardinality(UsedBelow(pg)) + 1
  BY <1>2, <1>3, FS_AddElement
<1>5. Cardinality(UsedBelow(pg)) \in Nat
  BY <1>3, FS_CardinalityType
<1> QED
  BY <1>2, <1>4, <1>5 DEF Packed

\* The pages of a process stay together.
LEMMA PackedProcess ==
    ASSUME Typed, Mapped, Owned, NEW p \in Active
    PROVE  /\ Packed(base[p]) \in Nat /\ base[p] \in UsedPages
           /\ \A i \in 0 .. size[p] : Packed(base[p] + i) = Packed(base[p]) + i
           /\ \A i \in 0 .. size[p] - 1 : base[p] + i \in UsedPages /\ ptable[base[p] + i].pid = p
<1>1. p \in Procs /\ base[p] \in Nat /\ size[p] \in Nat \ {0}
  BY Within
<1>2. \A i \in 0 .. size[p] - 1 : base[p] + i \in Pages /\ ptable[base[p] + i].pid = p
  <2> TAKE i \in 0 .. size[p] - 1
  <2>1. PICK pg \in Pages : pg = base[p] + i
    BY Within
  <2>2. base[p] <= pg /\ pg < base[p] + size[p]
    BY <1>1, <2>1
  <2>3. ptable[pg].pid = p
    BY <1>1, <2>2 DEF Owned
  <2> QED BY <2>1, <2>3
<1>3. \A i \in 0 .. size[p] - 1 : base[p] + i \in UsedPages /\ ptable[base[p] + i].pid = p
  BY <1>1, <1>2, PackedIs, SizesFacts
<1>4. 0 \in 0 .. size[p] - 1 /\ base[p] + 0 = base[p]
  BY <1>1
<1>5. Packed(base[p]) \in Nat /\ base[p] \in UsedPages
  BY <1>3, <1>4, PackedIs
<1> DEFINE G == {i \in Nat : i <= size[p] => Packed(base[p] + i) = Packed(base[p]) + i}
<1>6. 0 \in G
  BY <1>4, <1>5
<1>7. ASSUME NEW i \in Nat, i \in G PROVE i + 1 \in G
  <2> SUFFICES ASSUME i + 1 <= size[p] PROVE Packed(base[p] + (i + 1)) = Packed(base[p]) + (i + 1)
    OBVIOUS
  <2>1. Packed(base[p] + i) = Packed(base[p]) + i /\ i \in 0 .. size[p] - 1
    BY <1>1, <1>7
  <2>2. PICK pg \in Pages : pg = base[p] + i
    BY <1>2, <2>1
  <2>3. Packed(pg + 1) = Packed(pg) + 1
    BY <1>1, <1>2, <2>1, <2>2, PackedStep, SizesFacts
  <2>4. base[p] + (i + 1) = pg + 1
    BY <1>1, <2>2
  <2> QED BY <1>5, <2>1, <2>2, <2>3, <2>4
<1>8. \A i \in Nat : i \in G
  <2> HIDE DEF G
  <2> QED BY <1>6, <1>7, NaturalInduction
<1>9. \A i \in 0 .. size[p] : i \in Nat /\ i <= size[p]
  BY <1>1
<1> QED
  BY <1>3, <1>5, <1>8, <1>9

\* The page table afterwards.
LEMMA PackedTableIs ==
    ASSUME Typed
    PROVE  /\ PackedTable \in [Pages -> [pid : Procs \union {None}, frame : Frames \union {None}]]
           /\ \A pg \in UsedPages : PackedTable[Packed(pg)] = ptable[pg]
           /\ \A x \in Pages : x >= Top => PackedTable[x] = FreePage
           /\ \A x \in Pages : x < Top => \E pg \in UsedPages : Packed(pg) = x /\ PackedTable[x] = ptable[pg]
<1>1. /\ UsedPages = {pg \in Pages : ptable[pg].pid # None}
      /\ Top \in Nat /\ Top <= NumPages
      /\ \A pg \in UsedPages : Packed(pg) \in 0 .. Top - 1 /\ Packed(pg) \in Pages
      /\ \A x, y \in UsedPages : Packed(x) = Packed(y) => x = y
      /\ \A k \in 0 .. Top - 1 : \E pg \in UsedPages : Packed(pg) = k
  BY PackedIs
<1> DEFINE of(x) == CHOOSE pg \in UsedPages : Packed(pg) = x
<1>2. PackedTable = [x \in Pages |-> IF x < Top THEN ptable[of(x)] ELSE FreePage]
  BY DEF PackedTable, UsedPages
<1>3. ASSUME NEW x \in Pages, x < Top
      PROVE  of(x) \in UsedPages /\ Packed(of(x)) = x /\ PackedTable[x] = ptable[of(x)]
  <2>1. x \in 0 .. Top - 1
    BY <1>1, <1>3, SizesFacts
  <2>2. \E pg \in UsedPages : Packed(pg) = x
    BY <1>1, <2>1
  <2> QED BY <1>2, <1>3, <2>2
<1> HIDE DEF of
<1>4. \A x \in Pages : x >= Top => PackedTable[x] = FreePage
  <2> TAKE x \in Pages
  <2>1. x \in Nat
    BY SizesFacts
  <2> QED BY <1>1, <1>2, <2>1
<1>5. ASSUME NEW pg \in UsedPages PROVE PackedTable[Packed(pg)] = ptable[pg]
  <2>1. Packed(pg) \in Pages /\ Packed(pg) < Top
    BY <1>1
  <2>2. of(Packed(pg)) = pg
    BY <1>1, <1>3, <2>1
  <2> QED BY <1>3, <2>1, <2>2
<1>6. PackedTable \in [Pages -> [pid : Procs \union {None}, frame : Frames \union {None}]]
  <2>1. FreePage \in [pid : Procs \union {None}, frame : Frames \union {None}]
    BY DEF FreePage
  <2>2. \A x \in Pages : PackedTable[x] \in [pid : Procs \union {None}, frame : Frames \union {None}]
    <3> TAKE x \in Pages
    <3>1. CASE x < Top
      BY <1>1, <1>3, <3>1 DEF Typed
    <3>2. CASE ~(x < Top)
      BY <1>2, <2>1, <3>2
    <3> QED BY <3>1, <3>2
  <2> QED BY <1>2, <2>2
<1> QED
  BY <1>3, <1>4, <1>5, <1>6

\* The processes in the order of their bases.
LEMMA NthIs ==
    ASSUME Typed, Mapped, Owned
    PROVE  /\ IsFiniteSet(Active) /\ Cardinality(Active) \in Nat
           /\ \A k \in 0 .. Cardinality(Active) - 1 : Nth(k) \in Active
           /\ \A p \in Active : \E k \in 0 .. Cardinality(Active) - 1 : Nth(k) = p
           /\ \A k, l \in 0 .. Cardinality(Active) - 1 : k < l <=> base[Nth(k)] < base[Nth(l)]
<1>1. IsFiniteSet(Active) /\ Cardinality(Active) \in Nat
  <2>1. Active \in SUBSET Procs
    BY DEF Active
  <2> QED BY <2>1, SizesFacts, FS_Subset, FS_CardinalityType
<1>2. \A p \in Active : base[p] \in Int
  BY Within
<1> DEFINE key == [p \in Active |-> base[p]]
           rank == Rank(Active, key)
<1>3. \A p \in Active : rank[p] = Cardinality({q \in Active : base[q] < base[p]})
  <2>1. \A p \in Active : {q \in Active : key[q] < key[p]} = {q \in Active : base[q] < base[p]}
    OBVIOUS
  <2> QED BY <2>1 DEF Rank
<1>4. key \in [Active -> Int] /\ \A p \in Active : key[p] = base[p]
  BY <1>2
<1> HIDE DEF key
<1>5. Numbered(Active, key, rank)
  BY <1>1, <1>4, Apart, RankIs
<1> HIDE DEF rank
<1>6. /\ \A p \in Active : rank[p] \in 0 .. Cardinality(Active) - 1
      /\ \A p, q \in Active : base[p] < base[q] <=> rank[p] < rank[q]
      /\ \A p, q \in Active : rank[p] = rank[q] => p = q
      /\ \A k \in 0 .. Cardinality(Active) - 1 : \E p \in Active : rank[p] = k
  BY <1>4, <1>5 DEF Numbered
<1>7. \A k \in 0 .. Cardinality(Active) - 1 : Nth(k) \in Active /\ rank[Nth(k)] = k
  <2> TAKE k \in 0 .. Cardinality(Active) - 1
  <2>1. \E p \in Active : Cardinality({q \in Active : base[q] < base[p]}) = k
    <3>1. PICK p \in Active : rank[p] = k
      BY <1>6
    <3>2. Cardinality({q \in Active : base[q] < base[p]}) = k
      BY <1>3, <3>1
    <3> QED BY <3>2
  <2>2. Nth(k) \in Active /\ Cardinality({q \in Active : base[q] < base[Nth(k)]}) = k
    BY <2>1 DEF Nth
  <2> QED BY <1>3, <2>2
<1>8. \A p \in Active : rank[p] \in 0 .. Cardinality(Active) - 1 /\ Nth(rank[p]) = p
  BY <1>6, <1>7
<1>9. \A k, l \in 0 .. Cardinality(Active) - 1 : k < l <=> base[Nth(k)] < base[Nth(l)]
  BY <1>6, <1>7
<1> QED
  BY <1>1, <1>7, <1>8, <1>9

\* The pieces of the processes do not overlap.
LEMMA Disjoint ==
    ASSUME Typed, Mapped, Owned, NEW p \in Active, NEW q \in Active, base[p] < base[q]
    PROVE  base[p] + size[p] <= base[q]
<1>1. /\ p \in Procs /\ q \in Procs /\ base[p] \in Nat /\ base[q] \in Nat
      /\ size[p] \in Nat \ {0} /\ size[q] \in Nat \ {0} /\ base[q] + size[q] <= NumPages /\ NumPages \in Nat
  BY Within, SizesFacts
<1> SUFFICES ASSUME base[q] < base[p] + size[p] PROVE FALSE
  BY <1>1
<1>2. PICK pg \in Pages : pg = base[q]
  BY <1>1 DEF Pages
<1>3. ptable[pg].pid = q
  BY <1>1, <1>2 DEF Owned
<1>4. ptable[pg].pid = p
  BY <1>1, <1>2 DEF Owned
<1> QED
  BY <1>1, <1>3, <1>4

\* Where no process is, no used pages are counted.
LEMMA NoneBetween ==
    ASSUME Typed, Mapped, Owned, NEW a \in Nat, NEW b \in Nat, a <= b,
           \A r \in Active : base[r] + size[r] <= a \/ b <= base[r]
    PROVE  Packed(a) = Packed(b)
<1>1. \A q \in Pages : ptable[q].pid # None => (q < a <=> q < b)
  <2> TAKE q \in Pages
  <2> HAVE ptable[q].pid # None
  <2>1. PICK r \in Procs : r = ptable[q].pid
    BY DEF Typed
  <2>2. r \in Active /\ base[r] <= q /\ q < base[r] + size[r]
    BY <2>1 DEF Owned
  <2>3. base[r] \in Nat /\ size[r] \in Nat /\ q \in Nat
    BY <2>2, Within, SizesFacts
  <2>4. base[r] + size[r] <= a \/ b <= base[r]
    BY <2>2
  <2> QED BY <2>2, <2>3, <2>4
<1> QED
  BY <1>1 DEF Packed, UsedBelow

\* The k-th piece begins where the last one ended.
PieceStart(k) == IF k < Cardinality(Active) THEN Packed(base[Nth(k)]) ELSE Top

LEMMA StartsIs ==
    ASSUME Typed, Mapped, Owned
    PROVE  /\ PieceStart(0) = 0
           /\ \A k \in 0 .. Cardinality(Active) - 1 :
                PieceStart(k) \in Nat /\ PieceStart(k + 1) = PieceStart(k) + size[Nth(k)]
<1> DEFINE count == Cardinality(Active)
           place(k) == IF k < count THEN base[Nth(k)] ELSE NumPages
<1>1. /\ count \in Nat
      /\ \A k \in 0 .. count - 1 : Nth(k) \in Active
      /\ \A p \in Active : \E k \in 0 .. count - 1 : Nth(k) = p
      /\ \A k, l \in 0 .. count - 1 : k < l <=> base[Nth(k)] < base[Nth(l)]
  BY NthIs
<1> HIDE DEF count
<1>2. \A k \in 0 .. count - 1 : /\ base[Nth(k)] \in Nat /\ size[Nth(k)] \in Nat \ {0} /\ NumPages \in Nat
                                /\ base[Nth(k)] + size[Nth(k)] <= NumPages
  BY <1>1, Within, SizesFacts
<1>3. \A k \in 0 .. count : place(k) \in Nat /\ PieceStart(k) = Packed(place(k))
  <2> TAKE k \in 0 .. count
  <2>1. CASE k < count
    BY <1>1, <1>2, <2>1 DEF PieceStart, count
  <2>2. CASE ~(k < count)
    BY <2>2, PackedIs, SizesFacts DEF PieceStart, count
  <2> QED BY <2>1, <2>2
<1>4. \A k, l \in 0 .. count - 1 : k < l => base[Nth(k)] + size[Nth(k)] <= base[Nth(l)]
  BY <1>1, Disjoint
<1>5. PieceStart(0) = 0
  <2>1. Packed(0) = 0
    <3>1. UsedBelow(0) = {}
      <4>1. \A q \in Pages : ~(q < 0)
        BY SizesFacts
      <4> QED BY <4>1 DEF UsedBelow
    <3> QED BY <3>1, FS_EmptySet DEF Packed
  <2>2. \A r \in Active : base[r] + size[r] <= 0 \/ place(0) <= base[r]
    <3> TAKE r \in Active
    <3>1. PICK l \in 0 .. count - 1 : Nth(l) = r
      BY <1>1
    <3>2. 0 < count /\ 0 \in 0 .. count - 1 /\ place(0) = base[Nth(0)]
      BY <1>1
    <3>3. place(0) <= base[r]
      <4>1. CASE l = 0
        BY <1>2, <3>1, <3>2, <4>1
      <4>2. CASE 0 < l
        BY <1>1, <1>2, <3>1, <3>2, <4>2
      <4> QED BY <1>1, <4>1, <4>2
    <3> QED BY <3>3
  <2>3. 0 \in 0 .. count /\ 0 \in Nat /\ place(0) \in Nat /\ 0 <= place(0)
    BY <1>1, <1>3
  <2> HIDE DEF place
  <2>4. Packed(0) = Packed(place(0))
    BY <2>2, <2>3, NoneBetween
  <2> QED BY <1>3, <2>1, <2>3, <2>4
<1>6. ASSUME NEW k \in 0 .. count - 1
      PROVE  PieceStart(k) \in Nat /\ PieceStart(k + 1) = PieceStart(k) + size[Nth(k)]
  <2>1. PICK p \in Active : p = Nth(k)
    BY <1>1
  <2>2. /\ Packed(base[p]) \in Nat
        /\ \A i \in 0 .. size[p] : Packed(base[p] + i) = Packed(base[p]) + i
    BY PackedProcess
  <2>3. base[p] \in Nat /\ size[p] \in Nat \ {0} /\ base[p] + size[p] \in Nat /\ base[p] + size[p] <= NumPages
    BY <1>2, <2>1
  <2>4. Packed(base[p] + size[p]) = Packed(base[p]) + size[p]
    BY <2>2, <2>3
  <2>5. k \in 0 .. count /\ k + 1 \in 0 .. count /\ place(k) = base[p]
    BY <1>1, <2>1
  <2>6. base[p] + size[p] <= place(k + 1)
    <3>1. CASE k + 1 < count
      <4>1. k + 1 \in 0 .. count - 1 /\ k < k + 1
        BY <1>1, <3>1
      <4> QED BY <1>4, <2>1, <3>1, <4>1
    <3>2. CASE ~(k + 1 < count)
      BY <2>3, <3>2
    <3> QED BY <3>1, <3>2
  <2>7. \A r \in Active : base[r] + size[r] <= base[p] + size[p] \/ place(k + 1) <= base[r]
    <3> TAKE r \in Active
    <3>1. PICK l \in 0 .. count - 1 : Nth(l) = r
      BY <1>1
    <3>2. base[r] \in Nat /\ size[r] \in Nat
      BY <1>2, <3>1
    <3>3. CASE l = k
      BY <2>1, <2>3, <3>1, <3>3
    <3>4. CASE l < k
      <4>1. base[r] + size[r] <= base[p]
        BY <1>4, <2>1, <3>1, <3>4
      <4> QED BY <2>3, <3>2, <4>1
    <3>5. CASE l = k + 1
      <4>1. k + 1 < count /\ place(k + 1) = base[r]
        BY <1>1, <3>1, <3>5
      <4> QED BY <3>2, <4>1
    <3>6. CASE k + 1 < l
      <4>1. k + 1 < count /\ k + 1 \in 0 .. count - 1 /\ place(k + 1) = base[Nth(k + 1)]
        BY <1>1, <3>6
      <4>2. base[Nth(k + 1)] < base[r]
        BY <1>1, <3>1, <3>6, <4>1
      <4> QED BY <1>2, <3>2, <4>1, <4>2
    <3> QED BY <1>1, <3>3, <3>4, <3>5, <3>6
  <2>8. place(k + 1) \in Nat
    BY <1>3, <2>5
  <2>9. PieceStart(k) = Packed(base[p]) /\ PieceStart(k + 1) = Packed(place(k + 1))
    BY <1>3, <2>5
  <2> HIDE DEF place
  <2>10. Packed(base[p] + size[p]) = Packed(place(k + 1))
    BY <2>3, <2>6, <2>7, <2>8, NoneBetween
  <2> QED BY <2>1, <2>2, <2>4, <2>9, <2>10
<1> QED
  BY <1>5, <1>6 DEF count

\* The pieces of the processes after a compaction.
PackedPieces == {Piece("P", Packed(base[p]), size[p]) : p \in Active}

\* The new map: the processes close together, then what is left.
LEMMA PackedMapIs ==
    ASSUME Typed, Mapped, Owned, Top # NumPages
    PROVE  /\ Covers(PackedMap, 0, NumPages) /\ Used(PackedMap) = PackedPieces
           /\ ~(PackedMap[Len(PackedMap)].status = "P")
<1> DEFINE count == Cardinality(Active)
           piece(k) == Piece("P", PieceStart(k), size[Nth(k)])
           rest == Piece("L", Top, NumPages - Top)
<1>1. /\ count \in Nat
      /\ \A k \in 0 .. count - 1 : Nth(k) \in Active
      /\ \A p \in Active : \E k \in 0 .. count - 1 : Nth(k) = p
  BY NthIs
<1>2. /\ PieceStart(0) = 0 /\ PieceStart(count) = Top
      /\ \A k \in 0 .. count - 1 : /\ PieceStart(k) \in Nat /\ PieceStart(k + 1) = PieceStart(k) + size[Nth(k)]
                                   /\ PieceStart(k) = Packed(base[Nth(k)])
  BY <1>1, StartsIs DEF PieceStart
<1>3. \A k \in 0 .. count - 1 : size[Nth(k)] \in Nat \ {0}
  BY <1>1, Within
<1> HIDE DEF count
<1>4. \A k \in 0 .. count - 1 :
         piece(k) \in Pieces /\ piece(k).status = "P" /\ piece(k).base = PieceStart(k) /\ End(piece(k)) = PieceStart(k + 1)
  <2> TAKE k \in 0 .. count - 1
  <2>1. PieceStart(k) \in Nat /\ size[Nth(k)] \in Nat \ {0} /\ "P" \in {"L", "P"}
    BY <1>2, <1>3
  <2>2. PICK b \in Nat : b = PieceStart(k)
    BY <2>1
  <2>3. PICK n \in Nat \ {0} : n = size[Nth(k)]
    BY <2>1
  <2>4. PICK m : m = Piece("P", b, n)
    OBVIOUS
  <2>5. m \in Pieces /\ m.status = "P" /\ m.base = b /\ End(m) = b + n
    BY <2>4 DEF Piece, Pieces, End
  <2>6. piece(k) = m
    BY <2>2, <2>3, <2>4
  <2> HIDE DEF piece
  <2> QED BY <1>2, <2>2, <2>3, <2>5, <2>6
<1>5. rest \in Pieces /\ rest.status = "L" /\ rest.base = Top /\ End(rest) = NumPages
  <2>1. Top \in Nat /\ NumPages - Top \in Nat \ {0} /\ "L" \in {"L", "P"} /\ Top + (NumPages - Top) = NumPages
    BY PackedIs, SizesFacts
  <2>2. PICK b \in Nat : b = Top
    BY <2>1
  <2>3. PICK n \in Nat \ {0} : n = NumPages - Top
    BY <2>1
  <2>4. PICK m : m = Piece("L", b, n)
    OBVIOUS
  <2>5. m \in Pieces /\ m.status = "L" /\ m.base = b /\ End(m) = b + n
    BY <2>4 DEF Piece, Pieces, End
  <2>6. rest = m
    BY <2>2, <2>3, <2>4
  <2> HIDE DEF rest
  <2> QED BY <2>1, <2>2, <2>3, <2>5, <2>6
<1>6. /\ DOMAIN PackedMap = 1 .. count + 1 /\ PackedMap = [i \in 1 .. count + 1 |-> PackedMap[i]]
      /\ \A i \in 1 .. count : PackedMap[i] = piece(i - 1)
      /\ PackedMap[count + 1] = rest
  <2>1. PackedMap = [i \in 1 .. count + 1 |->
                       IF i <= count THEN Piece("P", Packed(base[Nth(i - 1)]), size[Nth(i - 1)]) ELSE rest]
    BY DEF PackedMap, count
  <2>2. \A i \in 1 .. count : i \in 1 .. count + 1 /\ i <= count /\ i - 1 \in 0 .. count - 1
    BY <1>1
  <2>3. count + 1 \in 1 .. count + 1 /\ ~(count + 1 <= count)
    BY <1>1
  <2>4. \A i \in 1 .. count : PackedMap[i] = piece(i - 1)
    BY <1>2, <2>1, <2>2
  <2>5. PackedMap[count + 1] = rest
    BY <2>1, <2>3
  <2>6. DOMAIN PackedMap = 1 .. count + 1 /\ PackedMap = [i \in 1 .. count + 1 |-> PackedMap[i]]
    BY <2>1
  <2> QED BY <2>4, <2>5, <2>6
<1> HIDE DEF piece, rest
<1>7. \A i \in 1 .. count + 1 : PackedMap[i] \in Pieces
  <2> TAKE i \in 1 .. count + 1
  <2>1. CASE i = count + 1
    BY <1>5, <1>6, <2>1
  <2>2. CASE i # count + 1
    <3>1. i \in 1 .. count /\ i - 1 \in 0 .. count - 1
      BY <1>1, <2>2
    <3> QED BY <1>4, <1>6, <3>1
  <2> QED BY <2>1, <2>2
<1>8. PackedMap \in Seq(Pieces) /\ Len(PackedMap) = count + 1
  <2>1. count + 1 \in Nat
    BY <1>1
  <2>2. PackedMap \in [1 .. count + 1 -> Pieces]
    BY <1>6, <1>7
  <2> HIDE DEF count
  <2> QED BY <2>1, <2>2
<1>9. \A k \in 1 .. count + 1 : PackedMap[k].base = PieceStart(k - 1)
  <2> TAKE k \in 1 .. count + 1
  <2>1. CASE k = count + 1
    <3>1. k - 1 = count
      BY <1>1, <2>1
    <3> QED BY <1>2, <1>5, <1>6, <2>1, <3>1
  <2>2. CASE k # count + 1
    <3>1. k \in 1 .. count /\ k - 1 \in 0 .. count - 1
      BY <1>1, <2>2
    <3> QED BY <1>4, <1>6, <3>1
  <2> QED BY <2>1, <2>2
<1>10. \A k \in 1 .. count : End(PackedMap[k]) = PackedMap[k + 1].base
  <2> TAKE k \in 1 .. count
  <2>1. k - 1 \in 0 .. count - 1 /\ (k - 1) + 1 = k /\ k + 1 \in 1 .. count + 1 /\ (k + 1) - 1 = k
    BY <1>1
  <2> QED BY <1>4, <1>6, <1>9, <2>1
<1>11. Covers(PackedMap, 0, NumPages)
  <2>1. Len(PackedMap) - 1 = count /\ 1 \in 1 .. count + 1 /\ 1 - 1 = 0
    BY <1>1, <1>8
  <2>2. PackedMap # << >>
    BY <1>1, <1>8
  <2> QED BY <1>2, <1>5, <1>6, <1>8, <1>9, <1>10, <2>1, <2>2 DEF Covers, Chain
<1>12. ~(PackedMap[Len(PackedMap)].status = "P")
  BY <1>5, <1>6, <1>8
<1>13. Used(PackedMap) = PackedPieces
  <2>1. ASSUME NEW m \in Used(PackedMap) PROVE m \in PackedPieces
    <3>1. PICK i \in 1 .. count + 1 : m = PackedMap[i] /\ m.status = "P"
      BY <1>6 DEF Used, ToSet
    <3>2. i # count + 1
      BY <1>5, <1>6, <3>1
    <3>3. i \in 1 .. count /\ i - 1 \in 0 .. count - 1
      BY <1>1, <3>2
    <3>4. PICK p \in Active : p = Nth(i - 1)
      BY <1>1, <3>3
    <3>5. m = Piece("P", Packed(base[p]), size[p])
      BY <1>2, <1>6, <3>1, <3>3, <3>4 DEF piece
    <3> QED BY <3>5 DEF PackedPieces
  <2>2. ASSUME NEW m \in PackedPieces PROVE m \in Used(PackedMap)
    <3>1. PICK p \in Active : m = Piece("P", Packed(base[p]), size[p])
      BY <2>2 DEF PackedPieces
    <3>2. PICK k \in 0 .. count - 1 : Nth(k) = p
      BY <1>1
    <3>3. k + 1 \in 1 .. count /\ k + 1 \in 1 .. count + 1 /\ (k + 1) - 1 = k
      BY <1>1
    <3>4. m = piece(k)
      BY <1>2, <3>1, <3>2 DEF piece
    <3>5. m = PackedMap[k + 1] /\ m.status = "P"
      BY <1>4, <1>6, <3>3, <3>4
    <3> QED BY <1>6, <3>3, <3>5 DEF Used, ToSet
  <2> QED BY <2>1, <2>2
<1> QED
  BY <1>11, <1>12, <1>13

\* What a compaction does to the map, the lists and the bases.
CompactedMap ==
    LET new == IF fspc = "QuickFit" THEN ReorderReferences(PackedMap, refs, MaxSize)
               ELSE [map |-> PackedMap, refs |-> refs]
    IN  memmap' = new.map /\ refs' = new.refs

LEMMA CompactMapKeeps ==
    ASSUME Typed, Mapped, ListsMapped, Owned, Top # NumPages,
           CompactedMap, base' = PackedBase, size' = size, fspc' = fspc
    PROVE  /\ Mapped' /\ ListsMapped' /\ Active' = Active /\ base' \in [Procs -> Pages \union {None}]
           /\ \A p \in Active : base'[p] = Packed(base[p])
           /\ \A p \in Procs \ Active : base'[p] = None
<1>1. /\ \A p \in Active : p \in Procs /\ base'[p] = Packed(base[p]) /\ Packed(base[p]) \in Pages
      /\ \A p \in Procs \ Active : base'[p] = None
  <2>1. \A p \in Active : p \in Procs /\ Packed(base[p]) \in Pages
    BY PackedProcess, PackedIs, Within
  <2> QED BY <2>1 DEF PackedBase
<1>2. Active' = Active
  <2>1. \A p \in Procs : p \in Active <=> base'[p] # None
    BY <1>1, SizesFacts
  <2>2. Active' = {p \in Procs : base'[p] # None} /\ Active \subseteq Procs
    BY DEF Active
  <2> QED BY <2>1, <2>2
<1>3. base' \in [Procs -> Pages \union {None}]
  <2>1. \A p \in Procs : base'[p] \in Pages \union {None}
    BY <1>1
  <2>2. base' = [p \in Procs |-> base'[p]]
    BY DEF PackedBase
  <2> QED BY <2>1, <2>2
<1>4. /\ Covers(PackedMap, 0, NumPages) /\ Used(PackedMap) = PackedPieces
      /\ ~(PackedMap[Len(PackedMap)].status = "P")
  BY PackedMapIs
<1>5. /\ DOMAIN refs \subseteq 1 .. MaxSize /\ DOMAIN refs \subseteq Nat \ {0}
      /\ \A s \in DOMAIN refs : refs[s] \in Seq(Nat)
      /\ fspc # "QuickFit" => DOMAIN refs = {}
  BY DEF ListsMapped, ListsFresh, Fresh
<1>6. /\ Covers(memmap', 0, NumPages) /\ Used(memmap') = PackedPieces
      /\ ListsFresh(memmap', refs') /\ DOMAIN refs' = DOMAIN refs
  <2>1. CASE fspc = "QuickFit"
    <3>1. MaxSize \in Nat /\ \A t \in DOMAIN refs : t <= MaxSize
      BY <1>5, SizesFacts
    <3>2. PICK new : new = ReorderReferences(PackedMap, refs, MaxSize)
      OBVIOUS
    <3>3. /\ Covers(new.map, 0, NumPages) /\ ListsFresh(new.map, new.refs)
          /\ DOMAIN new.refs = DOMAIN refs /\ Used(new.map) = Used(PackedMap)
      BY <1>4, <1>5, <3>1, <3>2, ReorderGives
    <3>4. memmap' = new.map /\ refs' = new.refs
      BY <2>1, <3>2 DEF CompactedMap
    <3> QED BY <1>4, <3>3, <3>4
  <2>2. CASE fspc # "QuickFit"
    <3>1. memmap' = PackedMap /\ refs' = refs
      BY <2>2 DEF CompactedMap
    <3>2. ListsFresh(PackedMap, refs)
      BY <1>5, <2>2 DEF ListsFresh
    <3> QED BY <1>4, <3>1, <3>2
  <2> QED BY <2>1, <2>2
<1>7. PackedPieces = {Piece("P", base'[p], size'[p]) : p \in Active'}
  BY <1>1, <1>2 DEF PackedPieces
<1> QED
  BY <1>1, <1>2, <1>3, <1>5, <1>6, <1>7 DEF Mapped, ListsMapped

-----------------------------------------------------------------------------
(* Compaction: the frames. *)

PageEntries == [pid : Procs \union {None}, frame : Frames \union {None}]

\* The states of the loop that looks at the frames.
LookStates == [ptable : [Pages -> PageEntries], ftable : [Frames -> Pages \union {None}], ctl : Control]

\* No page loses or gets a frame.
SameUse(s) ==
    \A x \in Pages : /\ s.ptable[x].pid = PackedTable[x].pid
                     /\ s.ptable[x].frame = None <=> PackedTable[x].frame = None

\* The frames in use are those of the pages, each of one page.
FramesOnce(s) ==
    /\ \A x, y \in Pages : s.ptable[x].frame # None /\ s.ptable[x].frame = s.ptable[y].frame => x = y
    /\ \A f \in Frames : s.ftable[f] # None <=> \E x \in Pages : s.ptable[x].frame = f

\* The first k pages are in their frames, below which no frame is free.
Settled(s, k) ==
    \A x \in Pages : x < k /\ s.ptable[x].frame # None =>
       /\ s.ftable[s.ptable[x].frame] = x
       /\ \A g \in Frames : g < s.ptable[x].frame => s.ftable[g] # None

\* FIFO's list knows the pages that moved.
Renamed(s) ==
    pmem = "FIFO" =>
       /\ Len(s.ctl.fifo) = Len(ctl.fifo)
       /\ \A i \in 1 .. Len(ctl.fifo) : \A x \in Pages : PackedTable[x].frame # None =>
             (ctl.fifo[i] = PackedTable[x].frame <=> s.ctl.fifo[i] = s.ptable[x].frame)

\* Either no page moved, or one is in a frame that was free.
Stayed(s, k) ==
    \/ s.ctl = ctl /\ s.ptable = PackedTable
    \/ \E x \in Pages : x < k /\ s.ptable[x].frame \in Frames /\ ftable[s.ptable[x].frame] = None

\* What holds after the first k pages were looked at.
Packing(k) ==
    {s \in LookStates : SameUse(s) /\ FramesOnce(s) /\ Settled(s, k) /\ Renamed(s) /\ Stayed(s, k)}

\* The first free frame.
Hole(s) == Min({g \in Frames : s.ftable[g] = None} \union {NumFrames})

LEMMA HoleIs ==
    ASSUME NEW s
    PROVE  /\ Hole(s) \in Nat
           /\ Hole(s) < NumFrames => Hole(s) \in Frames /\ s.ftable[Hole(s)] = None
           /\ \A g \in Frames : g < Hole(s) => s.ftable[g] # None
<1> DEFINE S == {g \in Frames : s.ftable[g] = None} \union {NumFrames}
<1>1. S \subseteq Nat /\ S # {}
  BY FramesFacts
<1>2. \A g \in S : g \in Nat /\ (g < NumFrames => g \in Frames /\ s.ftable[g] = None)
  BY FramesFacts
<1>3. \A g \in Frames : s.ftable[g] = None => g \in S
  OBVIOUS
<1>4. Hole(s) = Min(S)
  BY DEF Hole
<1> HIDE DEF S
<1>5. Min(S) \in S /\ \A y \in S : Min(S) <= y
  BY <1>1, MinIn
<1>6. \A g \in Frames : g < Hole(s) => s.ftable[g] # None
  <2> TAKE g \in Frames
  <2>1. g \in Nat /\ Hole(s) \in Nat
    BY <1>2, <1>4, <1>5, FramesFacts
  <2> QED BY <1>3, <1>4, <1>5, <2>1
<1> QED
  BY <1>2, <1>4, <1>5, <1>6

\* A page without a frame.
LEMMA LookNone ==
    ASSUME Typed, NEW pg \in Pages, NEW s \in Packing(pg), s.ptable[pg].frame = None
    PROVE  s \in Packing(pg + 1)
<1>1. s \in LookStates /\ SameUse(s) /\ FramesOnce(s) /\ Settled(s, pg) /\ Renamed(s) /\ Stayed(s, pg)
  BY DEF Packing
<1>2. \A x \in Pages : x < pg + 1 <=> x < pg \/ x = pg
  <2> TAKE x \in Pages
  <2>1. x \in Nat /\ pg \in Nat
    BY SizesFacts
  <2> QED BY <2>1
<1>3. Settled(s, pg + 1)
  BY <1>1, <1>2 DEF Settled
<1>4. Stayed(s, pg + 1)
  BY <1>1, <1>2 DEF Stayed
<1> QED
  BY <1>1, <1>3, <1>4 DEF Packing

\* A page in a frame below the first free one.
LEMMA LookStays ==
    ASSUME Typed, NEW pg \in Pages, NEW s \in Packing(pg), NEW f \in Frames, s.ptable[pg].frame = f,
           ~(f > Hole(s)), NEW t, t = [s EXCEPT !.ftable[f] = pg]
    PROVE  t \in Packing(pg + 1)
<1>1. s \in LookStates /\ SameUse(s) /\ FramesOnce(s) /\ Settled(s, pg) /\ Renamed(s) /\ Stayed(s, pg)
  BY DEF Packing
<1>2. \A x \in Pages : x < pg + 1 <=> x < pg \/ x = pg
  <2> TAKE x \in Pages
  <2>1. x \in Nat /\ pg \in Nat
    BY SizesFacts
  <2> QED BY <2>1
<1>3. f # None /\ pg # None
  BY SizesFacts
<1>4. /\ t \in LookStates /\ t.ptable = s.ptable /\ t.ctl = s.ctl /\ t.ftable = [s.ftable EXCEPT ![f] = pg]
  BY <1>1 DEF LookStates
<1>5. \A g \in Frames : t.ftable[g] = IF g = f THEN pg ELSE s.ftable[g]
  BY <1>1, <1>4 DEF LookStates
<1>6. s.ftable[f] # None
  BY <1>1 DEF FramesOnce
<1>7. \A g \in Frames : g < f => s.ftable[g] # None
  <2> TAKE g \in Frames
  <2>1. g \in Nat /\ f \in Nat /\ Hole(s) \in Nat
    BY HoleIs, FramesFacts
  <2> QED BY <2>1, HoleIs
<1>8. SameUse(t)
  BY <1>1, <1>4 DEF SameUse
<1>9. FramesOnce(t)
  <2>1. \A g \in Frames : t.ftable[g] # None <=> s.ftable[g] # None
    BY <1>3, <1>5, <1>6
  <2> QED BY <1>1, <1>4, <2>1 DEF FramesOnce
<1>10. Settled(t, pg + 1)
  <2> SUFFICES ASSUME NEW x \in Pages, x < pg + 1, s.ptable[x].frame # None
               PROVE  /\ t.ftable[s.ptable[x].frame] = x
                      /\ \A g \in Frames : g < s.ptable[x].frame => t.ftable[g] # None
    BY <1>4 DEF Settled
  <2>1. s.ptable[x].frame \in Frames
    BY <1>1 DEF LookStates, PageEntries
  <2>2. CASE x = pg
    BY <1>3, <1>5, <1>7, <2>2
  <2>3. CASE x < pg
    <3>1. s.ptable[x].frame # f
      <4>1. x # pg
        BY <2>3, SizesFacts
      <4> QED BY <1>1, <4>1 DEF FramesOnce
    <3> QED BY <1>1, <1>3, <1>5, <2>1, <2>3, <3>1 DEF Settled
  <2> QED BY <1>2, <2>2, <2>3
<1>11. Renamed(t)
  BY <1>1, <1>4 DEF Renamed
<1>12. Stayed(t, pg + 1)
  BY <1>1, <1>2, <1>4 DEF Stayed
<1> QED
  BY <1>4, <1>8, <1>9, <1>10, <1>11, <1>12 DEF Packing

\* What the exchange does to a state.
MovedState(s, pg, f, hole) ==
    [ptable |-> [s.ptable EXCEPT ![pg].frame = hole],
     ftable |-> [s.ftable EXCEPT ![hole] = pg, ![f] = None],
     ctl |-> Swapped(pmem, s.ctl, hole, f)]

\* A page above the first free frame.
LEMMA LookMoves ==
    ASSUME Typed, NEW pg \in Pages, NEW s \in Packing(pg), NEW f \in Frames, s.ptable[pg].frame = f,
           NEW hole \in Frames, hole = Hole(s), f > hole, \A x \in Pages : PackedTable[x] \in PageEntries,
           \A g \in Frames : (\E x \in Pages : PackedTable[x].frame = g) <=> ftable[g] # None,
           NEW t, t = MovedState(s, pg, f, hole)
    PROVE  t \in Packing(pg + 1)
<1>1. s \in LookStates /\ SameUse(s) /\ FramesOnce(s) /\ Settled(s, pg) /\ Renamed(s) /\ Stayed(s, pg)
  BY DEF Packing
<1>2. \A x \in Pages : x < pg + 1 <=> x < pg \/ x = pg
  <2> TAKE x \in Pages
  <2>1. x \in Nat /\ pg \in Nat
    BY SizesFacts
  <2> QED BY <2>1
<1>3. /\ f # None /\ hole # None /\ pg # None /\ None \notin Frames
      /\ f \in Nat /\ hole \in Nat /\ hole # f /\ ~(f < hole) /\ Frames \subseteq Nat
  BY SizesFacts, FramesFacts
<1>4. s.ftable[hole] = None /\ \A g \in Frames : g < hole => s.ftable[g] # None
  <2>1. hole < NumFrames
    BY <1>3, FramesFacts DEF Frames
  <2> QED BY <2>1, HoleIs
<1>5. /\ t.ptable = [s.ptable EXCEPT ![pg].frame = hole]
      /\ t.ftable = [s.ftable EXCEPT ![hole] = pg, ![f] = None]
      /\ t.ctl = Swapped(pmem, s.ctl, hole, f)
      /\ t = [ptable |-> t.ptable, ftable |-> t.ftable, ctl |-> t.ctl]
  BY DEF MovedState
<1>6. /\ s.ptable \in [Pages -> PageEntries] /\ s.ftable \in [Frames -> Pages \union {None}] /\ s.ctl \in Control
  BY <1>1 DEF LookStates
<1>7. /\ t.ptable \in [Pages -> PageEntries]
      /\ \A x \in Pages : /\ t.ptable[x].pid = s.ptable[x].pid
                          /\ t.ptable[x].frame = IF x = pg THEN hole ELSE s.ptable[x].frame
  BY <1>5, <1>6 DEF PageEntries
<1>8. /\ t.ftable \in [Frames -> Pages \union {None}]
      /\ \A g \in Frames : t.ftable[g] = IF g = f THEN None ELSE IF g = hole THEN pg ELSE s.ftable[g]
  BY <1>3, <1>5, <1>6
<1>9. Swaps(pmem, s.ctl, t.ctl, hole, f)
  <2>1. PICK c \in Control : c = s.ctl
    BY <1>6
  <2>2. Swaps(pmem, c, Swapped(pmem, c, hole, f), hole, f)
    BY Kinds, SwappedIs
  <2> QED BY <1>5, <2>1, <2>2
<1>10. t \in LookStates
  BY <1>5, <1>7, <1>8, <1>9 DEF LookStates, Swaps
<1>11. SameUse(t)
  BY <1>1, <1>3, <1>7 DEF SameUse
<1>12. \A x \in Pages : x # pg => s.ptable[x].frame # f /\ s.ptable[x].frame # hole
  BY <1>1, <1>3, <1>4 DEF FramesOnce
<1>13. FramesOnce(t)
  <2>1. ASSUME NEW x \in Pages, NEW y \in Pages, t.ptable[x].frame # None, t.ptable[x].frame = t.ptable[y].frame
        PROVE  x = y
    BY <1>1, <1>7, <1>12, <2>1 DEF FramesOnce
  <2>2. ASSUME NEW g \in Frames
        PROVE  t.ftable[g] # None <=> \E x \in Pages : t.ptable[x].frame = g
    <3>1. CASE g = f
      BY <1>3, <1>7, <1>8, <1>12, <3>1
    <3>2. CASE g = hole
      BY <1>3, <1>7, <1>8, <3>2
    <3>3. CASE g # f /\ g # hole
      <4>1. t.ftable[g] = s.ftable[g]
        BY <1>8, <3>3
      <4>2. \A x \in Pages : t.ptable[x].frame = g <=> s.ptable[x].frame = g
        BY <1>7, <3>3
      <4> QED BY <1>1, <4>1, <4>2 DEF FramesOnce
    <3> QED BY <3>1, <3>2, <3>3
  <2> QED BY <2>1, <2>2 DEF FramesOnce
<1>14. Settled(t, pg + 1)
  <2> SUFFICES ASSUME NEW x \in Pages, x < pg + 1, t.ptable[x].frame # None
               PROVE  /\ t.ftable[t.ptable[x].frame] = x
                      /\ \A g \in Frames : g < t.ptable[x].frame => t.ftable[g] # None
    BY DEF Settled
  <2>1. CASE x = pg
    <3>1. t.ptable[x].frame = hole
      BY <1>7, <2>1
    <3> QED BY <1>3, <1>4, <1>8, <2>1, <3>1
  <2>2. CASE x < pg
    <3>1. x # pg
      BY <2>2, SizesFacts
    <3>2. PICK e \in Frames : e = s.ptable[x].frame /\ e = t.ptable[x].frame
      BY <1>6, <1>7, <3>1 DEF PageEntries
    <3>3. e # f /\ e # hole
      BY <1>12, <3>1, <3>2
    <3>4. s.ftable[e] = x /\ \A g \in Frames : g < e => s.ftable[g] # None
      BY <1>1, <1>3, <2>2, <3>2 DEF Settled
    <3>5. e < hole
      <4>1. ~(hole < e)
        BY <1>4, <3>4
      <4>2. e \in Nat
        BY FramesFacts
      <4> QED BY <1>3, <3>3, <4>1, <4>2
    <3>6. \A g \in Frames : g < e => g # f /\ g # hole
      BY <1>3, <3>5
    <3> QED BY <1>8, <3>2, <3>3, <3>4, <3>6
  <2> QED BY <1>2, <2>1, <2>2
<1>15. Renamed(t)
  <2> SUFFICES ASSUME pmem = "FIFO"
               PROVE  /\ Len(t.ctl.fifo) = Len(ctl.fifo)
                      /\ \A i \in 1 .. Len(ctl.fifo) : \A x \in Pages : PackedTable[x].frame # None =>
                            (ctl.fifo[i] = PackedTable[x].frame <=> t.ctl.fifo[i] = t.ptable[x].frame)
    BY DEF Renamed
  <2>1. /\ Len(s.ctl.fifo) = Len(ctl.fifo) /\ Len(t.ctl.fifo) = Len(ctl.fifo)
        /\ \A i \in 1 .. Len(ctl.fifo) : t.ctl.fifo[i] = OtherFrame(s.ctl.fifo[i], hole, f)
    BY <1>1, <1>9 DEF Renamed, Swaps
  <2>2. ASSUME NEW i \in 1 .. Len(ctl.fifo), NEW x \in Pages, PackedTable[x].frame # None
        PROVE  ctl.fifo[i] = PackedTable[x].frame <=> t.ctl.fifo[i] = t.ptable[x].frame
    <3>1. ctl.fifo[i] = PackedTable[x].frame <=> s.ctl.fifo[i] = s.ptable[x].frame
      BY <1>1, <2>2 DEF Renamed
    <3>2. s.ctl.fifo[i] = s.ptable[x].frame <=> t.ctl.fifo[i] = t.ptable[x].frame
      <4>1. CASE x = pg
        BY <1>3, <1>7, <2>1, <4>1 DEF OtherFrame
      <4>2. CASE x # pg
        BY <1>3, <1>7, <1>12, <2>1, <4>2 DEF OtherFrame
      <4> QED BY <4>1, <4>2
    <3> QED BY <3>1, <3>2
  <2> QED BY <2>1, <2>2
<1>16. Stayed(t, pg + 1)
  <2>1. CASE s.ptable = PackedTable
    <3>1. ftable[hole] = None
      BY <1>1, <1>4, <2>1 DEF FramesOnce
    <3> QED BY <1>2, <1>7, <3>1 DEF Stayed
  <2>2. CASE s.ptable # PackedTable
    <3>1. PICK x \in Pages : x < pg /\ s.ptable[x].frame \in Frames /\ ftable[s.ptable[x].frame] = None
      BY <1>1, <2>2 DEF Stayed
    <3>2. x # pg
      BY <3>1, SizesFacts
    <3>3. t.ptable[x].frame = s.ptable[x].frame
      BY <1>7, <3>2
    <3> QED BY <1>2, <3>1, <3>3 DEF Stayed
  <2> QED BY <2>1, <2>2
<1> QED
  BY <1>10, <1>11, <1>13, <1>14, <1>15, <1>16 DEF Packing

\* The frames in use before.
InUse == \A g \in Frames : (\E x \in Pages : PackedTable[x].frame = g) <=> ftable[g] # None

LEMMA LookKeeps ==
    ASSUME Typed, InUse, NEW pg \in Pages, NEW s \in Packing(pg)
    PROVE  Look(s, pg) \in Packing(pg + 1)
<1>1. Look(s, pg) =
         IF s.ptable[pg].frame = None THEN s
         ELSE IF s.ptable[pg].frame > Hole(s) THEN MovedState(s, pg, s.ptable[pg].frame, Hole(s))
         ELSE [s EXCEPT !.ftable[s.ptable[pg].frame] = pg]
  BY DEF Look, Moved, MovedState, Hole
<1>2. CASE s.ptable[pg].frame = None
  BY <1>1, <1>2, LookNone
<1>3. CASE s.ptable[pg].frame # None
  <2>1. PICK f \in Frames : f = s.ptable[pg].frame
    BY <1>3 DEF Packing, LookStates, PageEntries
  <2>2. CASE f > Hole(s)
    <3>1. Hole(s) \in Frames
      <4>1. f \in Nat /\ f < NumFrames /\ Hole(s) \in Nat /\ NumFrames \in Nat
        BY HoleIs, FramesFacts DEF Frames
      <4> QED BY <2>2, <4>1, HoleIs
    <3>2. PICK hole \in Frames : hole = Hole(s)
      BY <3>1
    <3>3. PICK t : t = MovedState(s, pg, f, hole)
      OBVIOUS
    <3>4. \A x \in Pages : PackedTable[x] \in PageEntries
      BY PackedTableIs DEF PageEntries
    <3>5. t \in Packing(pg + 1)
      BY <2>1, <2>2, <3>2, <3>3, <3>4, LookMoves DEF InUse
    <3> QED BY <1>1, <1>3, <2>1, <2>2, <3>2, <3>3, <3>5
  <2>3. CASE ~(f > Hole(s))
    <3>1. PICK t : t = [s EXCEPT !.ftable[f] = pg]
      OBVIOUS
    <3>2. t \in Packing(pg + 1)
      BY <2>1, <2>3, <3>1, LookStays
    <3> QED BY <1>1, <1>3, <2>1, <2>3, <3>1, <3>2
  <2> QED BY <2>2, <2>3
<1> QED
  BY <1>2, <1>3

PackingStart == [ptable |-> PackedTable, ftable |-> ftable, ctl |-> ctl]

LEMMA PackingStarts ==
    ASSUME Typed, Owned, TablesAgree
    PROVE  PackingStart \in Packing(0) /\ InUse
<1>1. /\ PackedTable \in [Pages -> PageEntries]
      /\ \A pg \in UsedPages : PackedTable[Packed(pg)] = ptable[pg] /\ Packed(pg) \in Pages
      /\ \A x \in Pages : x >= Top => PackedTable[x] = FreePage
      /\ \A x \in Pages : x < Top => \E pg \in UsedPages : Packed(pg) = x /\ PackedTable[x] = ptable[pg]
      /\ UsedPages = {pg \in Pages : ptable[pg].pid # None} /\ Top \in Nat
  BY PackedTableIs, PackedIs DEF PageEntries
<1>2. ASSUME NEW x \in Pages, PackedTable[x].frame # None
      PROVE  \E pg \in UsedPages : /\ Packed(pg) = x /\ PackedTable[x] = ptable[pg] /\ pg \in Pages
                                   /\ PackedTable[x].frame \in Frames /\ ftable[PackedTable[x].frame] = pg
  <2>1. x < Top
    <3>1. x \in Nat
      BY SizesFacts
    <3> QED BY <1>1, <1>2, <3>1 DEF FreePage
  <2>2. PICK pg \in UsedPages : Packed(pg) = x /\ PackedTable[x] = ptable[pg]
    BY <1>1, <2>1
  <2>3. pg \in Pages /\ ptable[pg].frame # None
    BY <1>1, <1>2, <2>2
  <2>4. ftable[ptable[pg].frame] = pg /\ ptable[pg].frame \in Frames
    BY <2>3 DEF TablesAgree, Typed
  <2> QED BY <2>2, <2>3, <2>4
<1>3. InUse
  <2> SUFFICES ASSUME NEW g \in Frames
               PROVE  (\E x \in Pages : PackedTable[x].frame = g) <=> ftable[g] # None
    BY DEF InUse
  <2>1. ASSUME NEW x \in Pages, PackedTable[x].frame = g PROVE ftable[g] # None
    <3>1. PackedTable[x].frame # None
      BY <2>1, SizesFacts
    <3>2. ftable[g] \in Pages
      BY <1>2, <2>1, <3>1
    <3> QED BY <3>2, SizesFacts
  <2>2. ASSUME ftable[g] # None PROVE \E x \in Pages : PackedTable[x].frame = g
    <3>1. PICK pg \in Pages : pg = ftable[g]
      BY <2>2 DEF Typed
    <3>2. ptable[pg].frame = g
      BY <2>2, <3>1 DEF TablesAgree
    <3>3. pg \in UsedPages
      BY <1>1, <3>2, SizesFacts DEF TablesAgree
    <3> QED BY <1>1, <3>2, <3>3
  <2> QED BY <2>1, <2>2
<1> DEFINE s == PackingStart
<1>4. s.ptable = PackedTable /\ s.ftable = ftable /\ s.ctl = ctl /\ s \in LookStates
  BY <1>1 DEF PackingStart, LookStates, Typed
<1> HIDE DEF s
<1>5. SameUse(s)
  BY <1>4 DEF SameUse
<1>6. FramesOnce(s)
  <2>1. ASSUME NEW x \in Pages, NEW y \in Pages, PackedTable[x].frame # None, PackedTable[x].frame = PackedTable[y].frame
        PROVE  x = y
    <3>1. PICK p \in UsedPages : Packed(p) = x /\ ftable[PackedTable[x].frame] = p
      BY <1>2, <2>1
    <3>2. PICK q \in UsedPages : Packed(q) = y /\ ftable[PackedTable[y].frame] = q
      BY <1>2, <2>1
    <3> QED BY <2>1, <3>1, <3>2
  <2> QED BY <1>3, <1>4, <2>1 DEF FramesOnce, InUse
<1>7. Settled(s, 0)
  <2>1. \A x \in Pages : ~(x < 0)
    BY SizesFacts
  <2> QED BY <2>1 DEF Settled
<1>8. Renamed(s)
  BY <1>4 DEF Renamed
<1>9. Stayed(s, 0)
  BY <1>4 DEF Stayed
<1>10. s \in Packing(0)
  BY <1>4, <1>5, <1>6, <1>7, <1>8, <1>9 DEF Packing
<1> QED
  BY <1>3, <1>10 DEF s

PackLoop(n, after) ==
    after = [k \in 0 .. n |-> IF k = 0 THEN PackingStart ELSE Look(after[k - 1], k - 1)]

LEMMA PackedFramesIsLoop ==
    \A n : PackedFrames(n) = (CHOOSE after : PackLoop(n, after))[n]
BY DEF PackedFrames, PackLoop, PackingStart

LEMMA PackedFramesIn ==
    ASSUME Typed, Owned, TablesAgree
    PROVE  PackedFrames(Top) \in Packing(Top)
<1>1. PackingStart \in Packing(0) /\ InUse /\ Top \in Nat /\ Top <= NumPages
  BY PackingStarts, PackedIs
<1>2. PICK n \in Nat : n = Top
  BY <1>1
<1> DEFINE S == [k \in 0 .. n |-> Packing(k)]
           e == CHOOSE after : PackLoop(n, after)
<1>3. PackingStart \in S[0]
  BY <1>1
<1>4. ASSUME NEW k \in 1 .. n, NEW s \in Packing(k - 1) PROVE Look(s, k - 1) \in Packing(k)
  <2>1. k - 1 \in Pages /\ (k - 1) + 1 = k
    BY <1>1, <1>2, SizesFacts DEF Pages
  <2>2. PICK pg \in Pages : pg = k - 1
    BY <2>1
  <2>3. Look(s, pg) \in Packing(pg + 1)
    BY <1>1, <2>2, LookKeeps
  <2> QED BY <2>1, <2>2, <2>3
<1>5. PackLoop(n, e)
  <2> DEFINE turn == [k \in 1 .. n |-> [s \in Packing(k - 1) |-> Look(s, k - 1)]]
  <2>1. \A k \in 1 .. n : \A s \in S[k - 1] : turn[k][s] = Look(s, k - 1) /\ turn[k][s] \in S[k]
    <3> TAKE k \in 1 .. n
    <3>1. k - 1 \in 0 .. n /\ k \in 0 .. n
      OBVIOUS
    <3> TAKE s \in S[k - 1]
    <3>2. s \in Packing(k - 1)
      BY <3>1
    <3> QED BY <1>4, <3>1, <3>2
  <2> HIDE DEF S, turn
  <2>2. PICK f : Staged(n, S, PackingStart, turn, f)
    BY <1>3, <2>1, StagedLoop
  <2>3. /\ f[0] = PackingStart /\ f = [k \in 0 .. n |-> f[k]]
        /\ \A k \in 1 .. n : f[k] = turn[k][f[k - 1]]
        /\ \A k \in 0 .. n : f[k] \in S[k]
    BY <2>2 DEF Staged
  <2>4. \A k \in 1 .. n : f[k] = Look(f[k - 1], k - 1)
    <3> TAKE k \in 1 .. n
    <3>1. f[k - 1] \in S[k - 1]
      BY <2>3
    <3> QED BY <2>1, <2>3, <3>1
  <2>5. f = [k \in 0 .. n |-> IF k = 0 THEN PackingStart ELSE Look(f[k - 1], k - 1)]
    <3>1. \A k \in 0 .. n : f[k] = IF k = 0 THEN PackingStart ELSE Look(f[k - 1], k - 1)
      <4> TAKE k \in 0 .. n
      <4>1. CASE k = 0
        BY <2>3, <4>1
      <4>2. CASE k # 0
        <5>1. k \in 1 .. n
          BY <4>2
        <5> QED BY <2>4, <4>2, <5>1
      <4> QED BY <4>1, <4>2
    <3> QED BY <2>3, <3>1
  <2>6. PackLoop(n, f)
    BY <2>5 DEF PackLoop
  <2> QED BY <2>6
<1> HIDE DEF e
<1>6. e[0] = PackingStart /\ \A k \in 1 .. n : e[k] = Look(e[k - 1], k - 1)
  BY <1>5 DEF PackLoop
<1>7. e[n] \in Packing(n)
  <2>1. ASSUME NEW k \in 1 .. n, e[k - 1] \in S[k - 1] PROVE e[k] \in S[k]
    <3>1. k - 1 \in 0 .. n /\ k \in 0 .. n
      OBVIOUS
    <3>2. e[k - 1] \in Packing(k - 1)
      BY <2>1, <3>1
    <3>3. e[k] \in Packing(k)
      BY <1>4, <1>6, <3>2
    <3> QED BY <3>1, <3>3
  <2>2. e[0] \in S[0]
    BY <1>3, <1>6
  <2>3. \A k \in 0 .. n : e[k] \in S[k]
    <3> HIDE DEF S
    <3> QED BY <2>1, <2>2, LoopInvariant
  <2> QED BY <2>3
<1>8. PackedFrames(n) = e[n]
  BY PackedFramesIsLoop DEF e
<1> QED
  BY <1>2, <1>7, <1>8

\* What a compaction does to the tables.
CompactedTo(s) ==
    /\ s \in Packing(Top) /\ ptable' = s.ptable /\ ftable' = s.ftable /\ ctl' = s.ctl
    /\ Active' = Active /\ \A p \in Active : base'[p] = Packed(base[p])
    /\ base' \in [Procs -> Pages \union {None}] /\ \A p \in Procs \ Active : base'[p] = None
    /\ size' = size /\ arrived' = arrived /\ fspc' = fspc /\ pmem' = pmem
    /\ order' = IF pmem = "LRU2" /\ Occupied(ftable') # Occupied(ftable) THEN Off ELSE order

LEMMA CompactedFacts ==
    ASSUME NEW s, CompactedTo(s)
    PROVE  /\ SameUse(s) /\ FramesOnce(s) /\ Settled(s, Top) /\ Renamed(s) /\ Stayed(s, Top)
           /\ ptable' = s.ptable /\ ftable' = s.ftable /\ ctl' = s.ctl
           /\ ptable' \in [Pages -> PageEntries] /\ ftable' \in [Frames -> Pages \union {None}] /\ ctl' \in Control
           /\ Active' = Active /\ \A p \in Active : base'[p] = Packed(base[p])
           /\ base' \in [Procs -> Pages \union {None}] /\ \A p \in Procs \ Active : base'[p] = None
           /\ size' = size /\ arrived' = arrived /\ fspc' = fspc /\ pmem' = pmem
BY DEF CompactedTo, Packing, LookStates

\* Each page after the compaction was one before, of the same process.
LEMMA PagesCome ==
    ASSUME Typed, Mapped, Owned, TablesAgree, NEW s, CompactedTo(s)
    PROVE  /\ \A x \in Pages : ptable'[x].pid = PackedTable[x].pid
           /\ \A x \in Pages : ptable'[x].frame = None <=> PackedTable[x].frame = None
           /\ \A x \in Pages : ptable'[x].pid # None <=> x < Top
           /\ \A x \in Pages : ptable'[x].frame # None => x < Top
           /\ \A x \in Pages : x < Top =>
                \E p \in Active : \E i \in 0 .. size[p] - 1 :
                   /\ base[p] + i \in Pages /\ ptable[base[p] + i].pid = p
                   /\ x = base'[p] + i /\ PackedTable[x] = ptable[base[p] + i] /\ ptable'[x].pid = p
           /\ \A p \in Active : \A i \in 0 .. size[p] - 1 :
                   /\ base[p] + i \in Pages /\ base'[p] + i \in Pages
                   /\ PackedTable[base'[p] + i] = ptable[base[p] + i]
                   /\ ptable'[base'[p] + i].pid = p
<1>1. /\ SameUse(s) /\ ptable' = s.ptable /\ \A p \in Active : base'[p] = Packed(base[p])
  BY CompactedFacts
<1>2. /\ \A x \in Pages : ptable'[x].pid = PackedTable[x].pid
      /\ \A x \in Pages : ptable'[x].frame = None <=> PackedTable[x].frame = None
  BY <1>1 DEF SameUse
<1>3. /\ \A pg \in UsedPages : PackedTable[Packed(pg)] = ptable[pg]
      /\ \A x \in Pages : x >= Top => PackedTable[x] = FreePage
      /\ \A x \in Pages : x < Top => \E pg \in UsedPages : Packed(pg) = x /\ PackedTable[x] = ptable[pg]
  BY PackedTableIs
<1>4. /\ UsedPages = {pg \in Pages : ptable[pg].pid # None} /\ Top \in Nat
      /\ \A pg \in UsedPages : Packed(pg) \in Pages
  BY PackedIs
<1>5. \A p \in Active : /\ p \in Procs /\ base[p] \in Nat /\ size[p] \in Nat \ {0} /\ Packed(base[p]) \in Nat
                        /\ \A i \in 0 .. size[p] : Packed(base[p] + i) = Packed(base[p]) + i
                        /\ \A i \in 0 .. size[p] - 1 : base[p] + i \in UsedPages /\ ptable[base[p] + i].pid = p
  BY Within, PackedProcess
<1>6. ASSUME NEW p \in Active, NEW i \in 0 .. size[p] - 1
      PROVE  /\ base[p] + i \in Pages /\ base'[p] + i \in Pages
             /\ PackedTable[base'[p] + i] = ptable[base[p] + i]
             /\ ptable'[base'[p] + i].pid = p
  <2>1. size[p] \in Nat
    BY <1>5
  <2>2. i \in 0 .. size[p]
    BY <2>1
  <2>3. PICK pg \in UsedPages : pg = base[p] + i /\ ptable[pg].pid = p
    BY <1>5
  <2>4. base'[p] + i = Packed(pg)
    BY <1>1, <1>5, <2>2, <2>3
  <2>5. pg \in Pages
    BY <1>4
  <2>6. PICK x \in Pages : x = Packed(pg) /\ PackedTable[x] = ptable[pg]
    BY <1>3, <1>4
  <2>7. ptable'[x].pid = p
    BY <1>2, <2>3, <2>6
  <2>8. base'[p] + i = x
    BY <2>4, <2>6
  <2> QED BY <2>3, <2>5, <2>6, <2>7, <2>8
<1>7. ASSUME NEW x \in Pages, x < Top
      PROVE  \E p \in Active : \E i \in 0 .. size[p] - 1 :
                /\ base[p] + i \in Pages /\ ptable[base[p] + i].pid = p
                /\ x = base'[p] + i /\ PackedTable[x] = ptable[base[p] + i] /\ ptable'[x].pid = p
  <2>1. PICK pg \in UsedPages : Packed(pg) = x /\ PackedTable[x] = ptable[pg]
    BY <1>3, <1>7
  <2>2. pg \in Pages /\ ptable[pg].pid # None /\ pg \in Nat
    BY <1>4, SizesFacts
  <2>3. PICK p \in Procs : p = ptable[pg].pid
    BY <2>2 DEF Typed
  <2>4. p \in Active /\ base[p] <= pg /\ pg < base[p] + size[p]
    BY <2>2, <2>3 DEF Owned
  <2>5. base[p] \in Nat /\ size[p] \in Nat
    BY <1>5, <2>4
  <2>6. PICK i \in 0 .. size[p] - 1 : pg = base[p] + i
    <3>1. pg - base[p] \in 0 .. size[p] - 1 /\ pg = base[p] + (pg - base[p])
      BY <2>2, <2>4, <2>5
    <3> QED BY <3>1
  <2>7. i \in 0 .. size[p]
    BY <2>5
  <2>8. x = base'[p] + i
    BY <1>1, <1>5, <2>1, <2>4, <2>6, <2>7
  <2>9. ptable'[x].pid = p
    BY <1>2, <2>1, <2>3
  <2> QED BY <2>1, <2>2, <2>3, <2>4, <2>6, <2>8, <2>9
<1>8. \A x \in Pages : x \in Nat /\ (x < Top \/ x >= Top)
  BY <1>4, SizesFacts
<1>9. \A x \in Pages : ptable'[x].pid # None <=> x < Top
  <2> TAKE x \in Pages
  <2>1. CASE x < Top
    <3>1. ptable'[x].pid \in Procs
      BY <1>5, <1>7, <2>1
    <3> QED BY <2>1, <3>1, SizesFacts
  <2>2. CASE ~(x < Top)
    BY <1>2, <1>3, <1>8, <2>2 DEF FreePage
  <2> QED BY <2>1, <2>2
<1>10. \A x \in Pages : ptable'[x].frame # None => x < Top
  BY <1>2, <1>3, <1>8 DEF FreePage
<1> QED
  BY <1>2, <1>6, <1>7, <1>9, <1>10

LEMMA CompactTables ==
    ASSUME Typed, Mapped, Owned, TablesAgree, NEW s, CompactedTo(s)
    PROVE  Owned' /\ TablesAgree'
<1>1. /\ FramesOnce(s) /\ Settled(s, Top) /\ ptable' = s.ptable /\ ftable' = s.ftable
      /\ ptable' \in [Pages -> PageEntries] /\ ftable' \in [Frames -> Pages \union {None}]
      /\ Active' = Active /\ \A p \in Active : base'[p] = Packed(base[p])
      /\ \A p \in Procs \ Active : base'[p] = None
      /\ size' = size /\ arrived' = arrived
  BY CompactedFacts
<1>2. /\ \A x \in Pages : ptable'[x].pid # None <=> x < Top
      /\ \A x \in Pages : ptable'[x].frame # None => x < Top
      /\ \A x \in Pages : x < Top =>
           \E p \in Active : \E i \in 0 .. size[p] - 1 : x = base'[p] + i /\ ptable'[x].pid = p
      /\ \A p \in Active : \A i \in 0 .. size[p] - 1 : base'[p] + i \in Pages /\ ptable'[base'[p] + i].pid = p
  BY PagesCome
<1>3. \A p \in Active : p \in Procs /\ size[p] \in Nat /\ base'[p] \in Nat
  BY <1>1, Within, PackedProcess
<1>4. Owned'
  <2>1. \A p \in Procs : p > arrived' => base'[p] = None
    BY <1>1, SizesFacts DEF Owned, Active
  <2>2. ASSUME NEW x \in Pages, NEW p \in Procs, ptable'[x].pid = p
        PROVE  p \in Active /\ base'[p] <= x /\ x < base'[p] + size[p]
    <3>1. x < Top
      BY <1>2, <2>2, SizesFacts
    <3>2. PICK q \in Active : \E i \in 0 .. size[q] - 1 : x = base'[q] + i /\ ptable'[x].pid = q
      BY <1>2, <3>1
    <3>3. PICK i \in 0 .. size[q] - 1 : x = base'[q] + i /\ ptable'[x].pid = q
      BY <3>2
    <3>4. q = p
      BY <2>2, <3>3
    <3>5. p \in Active /\ i \in 0 .. size[p] - 1 /\ x = base'[p] + i
      BY <3>3, <3>4
    <3> QED BY <1>3, <3>5
  <2>3. ASSUME NEW x \in Pages, NEW p \in Procs, p \in Active, base'[p] <= x, x < base'[p] + size[p]
        PROVE  ptable'[x].pid = p
    <3>1. size[p] \in Nat /\ base'[p] \in Nat /\ x \in Nat
      BY <1>3, <2>3, SizesFacts
    <3>2. x - base'[p] \in 0 .. size[p] - 1 /\ x = base'[p] + (x - base'[p])
      BY <2>3, <3>1
    <3>3. PICK i \in 0 .. size[p] - 1 : x = base'[p] + i
      BY <3>2
    <3> QED BY <1>2, <2>3, <3>3
  <2> QED BY <1>1, <2>1, <2>2, <2>3 DEF Owned
<1>5. TablesAgree'
  <2>1. ASSUME NEW x \in Pages, ptable'[x].frame # None
        PROVE  ptable'[x].pid # None /\ ftable'[ptable'[x].frame] = x
    BY <1>1, <1>2, <2>1 DEF Settled
  <2>2. ASSUME NEW f \in Frames, ftable'[f] # None PROVE ptable'[ftable'[f]].frame = f
    <3>1. PICK x \in Pages : ptable'[x].frame = f
      BY <1>1, <2>2 DEF FramesOnce
    <3>2. ftable'[f] = x
      BY <2>1, <3>1, SizesFacts
    <3> QED BY <3>1, <3>2
  <2> QED BY <2>1, <2>2 DEF TablesAgree
<1> QED
  BY <1>4, <1>5

\* Where the page that is in frame g now will be in frame f.
Came(f, g) == \E x \in Pages : ptable'[x].frame = f /\ PackedTable[x].frame = g

LEMMA ContentsCome ==
    ASSUME Typed, Mapped, Owned, TablesAgree, NEW s, CompactedTo(s)
    PROVE  /\ \A f \in Occupied(ftable') : \E g \in Occupied(ftable) : Came(f, g)
           /\ \A g \in Occupied(ftable) : \E f \in Occupied(ftable') : Came(f, g)
           /\ \A f, g \in Frames : Came(f, g) => Content(f)' = Content(g)
<1>1. /\ FramesOnce(s) /\ ptable' = s.ptable /\ ftable' = s.ftable
      /\ ptable' \in [Pages -> PageEntries] /\ ftable' \in [Frames -> Pages \union {None}]
      /\ \A p \in Active : base'[p] = Packed(base[p])
  BY CompactedFacts
<1>2. PackingStart \in Packing(0) /\ InUse /\ \A x \in Pages : PackedTable[x] \in PageEntries
  BY PackingStarts, PackedTableIs DEF PageEntries
<1>3. /\ \A x \in Pages : ptable'[x].frame = None <=> PackedTable[x].frame = None
      /\ \A x \in Pages : ptable'[x].frame # None => x < Top
      /\ \A x \in Pages : x < Top =>
           \E p \in Active : \E i \in 0 .. size[p] - 1 :
              /\ base[p] + i \in Pages /\ ptable[base[p] + i].pid = p
              /\ x = base'[p] + i /\ PackedTable[x] = ptable[base[p] + i] /\ ptable'[x].pid = p
  BY PagesCome
<1>4. TablesAgree'
  BY CompactTables
<1>5. ASSUME NEW f \in Occupied(ftable') PROVE \E g \in Occupied(ftable) : Came(f, g)
  <2>1. f \in Frames /\ ftable'[f] # None
    BY DEF Occupied
  <2>2. PICK x \in Pages : ptable'[x].frame = f
    BY <1>1, <2>1 DEF FramesOnce
  <2>3. PackedTable[x].frame \in Frames
    BY <1>2, <1>3, <2>1, <2>2, SizesFacts DEF PageEntries
  <2>4. PackedTable[x].frame \in Occupied(ftable)
    BY <1>2, <2>3 DEF InUse, Occupied
  <2> QED BY <2>2, <2>4 DEF Came
<1>6. ASSUME NEW g \in Occupied(ftable) PROVE \E f \in Occupied(ftable') : Came(f, g)
  <2>1. g \in Frames /\ ftable[g] # None
    BY DEF Occupied
  <2>2. PICK x \in Pages : PackedTable[x].frame = g
    BY <1>2, <2>1 DEF InUse
  <2>3. ptable'[x].frame \in Frames
    BY <1>1, <1>3, <2>1, <2>2, SizesFacts DEF PageEntries
  <2>4. ptable'[x].frame \in Occupied(ftable')
    BY <1>1, <2>3 DEF FramesOnce, Occupied
  <2> QED BY <2>2, <2>4 DEF Came
<1>7. ASSUME NEW f \in Frames, NEW g \in Frames, Came(f, g) PROVE Content(f)' = Content(g)
  <2>1. PICK x \in Pages : ptable'[x].frame = f /\ PackedTable[x].frame = g
    BY <1>7 DEF Came
  <2>2. f # None /\ g # None
    BY SizesFacts
  <2>3. x < Top /\ ftable'[f] = x
    BY <1>3, <1>4, <2>1, <2>2 DEF TablesAgree
  <2>4. PICK p \in Active : \E i \in 0 .. size[p] - 1 :
              /\ base[p] + i \in Pages /\ ptable[base[p] + i].pid = p
              /\ x = base'[p] + i /\ PackedTable[x] = ptable[base[p] + i] /\ ptable'[x].pid = p
    BY <1>3, <2>3
  <2>5. PICK i \in 0 .. size[p] - 1 :
              /\ base[p] + i \in Pages /\ ptable[base[p] + i].pid = p
              /\ x = base'[p] + i /\ PackedTable[x] = ptable[base[p] + i] /\ ptable'[x].pid = p
    BY <2>4
  <2>6. ftable[g] = base[p] + i
    BY <2>1, <2>2, <2>5 DEF TablesAgree
  <2>7. Content(g) = <<p, (base[p] + i) - base[p]>>
    BY <2>5, <2>6 DEF Content
  <2>8. Content(f)' = <<p, (base'[p] + i) - base'[p]>>
    BY <2>3, <2>5 DEF Content
  <2>9. (base[p] + i) - base[p] = i /\ (base'[p] + i) - base'[p] = i
    <3>1. base[p] \in Nat /\ base'[p] \in Nat
      BY <1>1, Within, PackedProcess
    <3> QED BY <3>1
  <2> QED BY <2>7, <2>8, <2>9
<1> QED
  BY <1>5, <1>6, <1>7

LEMMA CompactQueued ==
    ASSUME Typed, Mapped, Owned, TablesAgree, Queued, Ranked, NEW s, CompactedTo(s)
    PROVE  Queued'
<1>1. /\ Renamed(s) /\ ctl' = s.ctl /\ ptable' = s.ptable /\ fspc' = fspc /\ pmem' = pmem
  BY CompactedFacts
<1>2. order' # Off => order # Off
  BY DEF CompactedTo
<1>16. pmem' = pmem /\ fspc' = fspc
  BY <1>1
<1>3. pmem = "FIFO" => order' = order
  BY DEF CompactedTo
<1>4. /\ \A f \in Occupied(ftable') : \E g \in Occupied(ftable) : Came(f, g)
      /\ \A g \in Occupied(ftable) : \E f \in Occupied(ftable') : Came(f, g)
      /\ \A f, g \in Frames : Came(f, g) => Content(f)' = Content(g)
  BY ContentsCome
<1> SUFFICES ASSUME pmem = "FIFO"
             PROVE  /\ Occupied(ftable') \subseteq ToSet(ctl'.fifo)
                    /\ fspc # "QuickFit" => ToSet(ctl'.fifo) = Occupied(ftable') /\ IsInjective(ctl'.fifo)
                    /\ order # Off => \A i, j \in 1 .. Len(ctl'.fifo) : i < j =>
                          \A f, g : f = ctl'.fifo[i] /\ g = ctl'.fifo[j] => Before(f, g)'
  BY <1>2, <1>16 DEF Queued, Occupied, Before, Content
<1>5. /\ Occupied(ftable) \subseteq ToSet(ctl.fifo)
      /\ fspc # "QuickFit" => ToSet(ctl.fifo) = Occupied(ftable) /\ IsInjective(ctl.fifo)
      /\ order # Off => fspc # "QuickFit"
      /\ order # Off => \A i, j \in 1 .. Len(ctl.fifo) : i < j => Before(ctl.fifo[i], ctl.fifo[j])
  BY DEF Queued, Ranked
<1>6. FrameList(ctl.fifo) /\ FrameList(ctl'.fifo)
  <2>1. ctl \in Control /\ ctl' \in Control
    BY CompactedFacts DEF Typed
  <2> QED BY <2>1, ControlIs
<1>7. DOMAIN ctl.fifo = 1 .. Len(ctl.fifo) /\ DOMAIN ctl'.fifo = 1 .. Len(ctl.fifo) /\ Len(ctl'.fifo) = Len(ctl.fifo)
  BY <1>1, <1>6 DEF Renamed, FrameList
<1>8. ToSet(ctl.fifo) = {ctl.fifo[i] : i \in 1 .. Len(ctl.fifo)} /\ ToSet(ctl'.fifo) = {ctl'.fifo[i] : i \in 1 .. Len(ctl.fifo)}
  BY <1>7 DEF ToSet
<1>9. \A i \in 1 .. Len(ctl.fifo) : \A f \in Frames : \A g \in Frames :
         Came(f, g) => (ctl.fifo[i] = g <=> ctl'.fifo[i] = f)
  <2> TAKE i \in 1 .. Len(ctl.fifo)
  <2> TAKE f \in Frames
  <2> TAKE g \in Frames
  <2> HAVE Came(f, g)
  <2>1. PICK x \in Pages : ptable'[x].frame = f /\ PackedTable[x].frame = g
    BY DEF Came
  <2> QED BY <1>1, <2>1, SizesFacts DEF Renamed
<1>10. Occupied(ftable) \subseteq Frames /\ Occupied(ftable') \subseteq Frames
  BY DEF Occupied
<1>11. Occupied(ftable') \subseteq ToSet(ctl'.fifo)
  <2> SUFFICES ASSUME NEW f \in Occupied(ftable') PROVE f \in ToSet(ctl'.fifo)
    OBVIOUS
  <2>1. PICK g \in Occupied(ftable) : Came(f, g)
    BY <1>4
  <2>2. PICK i \in 1 .. Len(ctl.fifo) : ctl.fifo[i] = g
    BY <1>5, <1>8
  <2>3. ctl'.fifo[i] = f
    BY <1>9, <1>10, <2>1, <2>2
  <2> QED BY <1>8, <2>3
<1>12. ASSUME fspc # "QuickFit", NEW i \in 1 .. Len(ctl.fifo)
       PROVE  /\ ctl.fifo[i] \in Occupied(ftable) /\ ctl'.fifo[i] \in Occupied(ftable')
              /\ Came(ctl'.fifo[i], ctl.fifo[i])
  <2>1. PICK g \in Occupied(ftable) : g = ctl.fifo[i]
    BY <1>5, <1>8, <1>12
  <2>2. PICK f \in Occupied(ftable') : Came(f, g)
    BY <1>4
  <2>3. ctl'.fifo[i] = f
    BY <1>9, <1>10, <2>1, <2>2
  <2> QED BY <2>1, <2>2, <2>3
<1>13. fspc # "QuickFit" => ToSet(ctl'.fifo) = Occupied(ftable')
  BY <1>8, <1>11, <1>12
<1>14. fspc # "QuickFit" => IsInjective(ctl'.fifo)
  <2> SUFFICES ASSUME fspc # "QuickFit", NEW i \in 1 .. Len(ctl.fifo), NEW j \in 1 .. Len(ctl.fifo),
                      ctl'.fifo[i] = ctl'.fifo[j]
               PROVE  i = j
    BY <1>7 DEF IsInjective
  <2>1. PICK f \in Occupied(ftable') : f = ctl'.fifo[i]
    BY <1>12
  <2>2. PICK g \in Occupied(ftable) : g = ctl.fifo[i] /\ Came(f, g)
    BY <1>12, <2>1
  <2>3. ctl.fifo[j] = g
    BY <1>9, <1>10, <2>1, <2>2
  <2> QED BY <1>5, <1>7, <2>2, <2>3 DEF IsInjective
<1>15. ASSUME order # Off, NEW i \in 1 .. Len(ctl'.fifo), NEW j \in 1 .. Len(ctl'.fifo), i < j,
              NEW f, NEW g, f = ctl'.fifo[i], g = ctl'.fifo[j]
       PROVE  Before(f, g)'
  <2>1. i \in 1 .. Len(ctl.fifo) /\ j \in 1 .. Len(ctl.fifo) /\ fspc # "QuickFit"
    BY <1>5, <1>7, <1>15
  <2>2. PICK k : k = ctl.fifo[i]
    OBVIOUS
  <2>3. PICK l : l = ctl.fifo[j]
    OBVIOUS
  <2>4. Before(k, l)
    BY <1>5, <1>15, <2>1, <2>2, <2>3
  <2>5. f \in Frames /\ k \in Frames /\ Came(f, k) /\ g \in Frames /\ l \in Frames /\ Came(g, l)
    BY <1>10, <1>12, <1>15, <2>1, <2>2, <2>3
  <2>6. Content(f)' = Content(k) /\ Content(g)' = Content(l)
    BY <1>4, <2>5
  <2> QED BY <1>3, <2>4, <2>6 DEF Before
<1> QED
  BY <1>11, <1>13, <1>14, <1>15

LEMMA CompactRanked ==
    ASSUME Typed, Mapped, Owned, TablesAgree, Ranked, NEW s, CompactedTo(s)
    PROVE  Ranked'
<1>1. /\ Stayed(s, Top) /\ FramesOnce(s) /\ ctl' = s.ctl /\ ptable' = s.ptable /\ ftable' = s.ftable
      /\ fspc' = fspc /\ pmem' = pmem /\ ptable' \in [Pages -> PageEntries]
  BY CompactedFacts
<1>2. order' # Off => order # Off /\ order' = order /\ (pmem = "LRU2" => Occupied(ftable') = Occupied(ftable))
  BY DEF CompactedTo
<1>3. \A f, g \in Frames : Came(f, g) => Content(f)' = Content(g)
  BY ContentsCome
<1>4. PackingStart \in Packing(0) /\ InUse
  BY PackingStarts
<1> SUFFICES ASSUME order' # Off, pmem = "LRU2"
             PROVE  /\ \A f, g, h \in Occupied(ftable') : Before(f, g)' /\ Before(g, h)' => Before(f, h)'
                    /\ \A f, g \in Occupied(ftable') : f # g => (Before(f, g)' <=> ~Before(g, f)')
                    /\ \A f, g \in Occupied(ftable') : g \in ctl'.matrix[f] <=> Before(g, f)'
                    /\ \A f \in Occupied(ftable') : f \notin ctl'.matrix[f]
  BY <1>1, <1>2 DEF Ranked, Occupied
<1>5. order # Off /\ order' = order /\ Occupied(ftable') = Occupied(ftable)
  BY <1>2
<1>6. ctl' = ctl /\ ptable' = PackedTable
  <2> SUFFICES ASSUME NEW x \in Pages, ptable'[x].frame \in Frames, ftable[ptable'[x].frame] = None PROVE FALSE
    BY <1>1 DEF Stayed
  <2>1. ptable'[x].frame \in Occupied(ftable')
    BY <1>1 DEF FramesOnce, Occupied
  <2>2. ptable'[x].frame \in Occupied(ftable)
    BY <1>5, <2>1
  <2> QED BY <2>2 DEF Occupied
<1>7. \A f \in Occupied(ftable) : Content(f)' = Content(f)
  <2> TAKE f \in Occupied(ftable)
  <2>1. f \in Frames /\ ftable[f] # None
    BY DEF Occupied
  <2>2. PICK x \in Pages : PackedTable[x].frame = f
    BY <1>4, <2>1 DEF InUse
  <2>3. Came(f, f)
    BY <1>6, <2>2 DEF Came
  <2> QED BY <1>3, <2>1, <2>3
<1>8. \A f, g \in Occupied(ftable) : Before(f, g)' <=> Before(f, g)
  BY <1>5, <1>7 DEF Before
<1>9. /\ \A f, g, h \in Occupied(ftable) : Before(f, g) /\ Before(g, h) => Before(f, h)
      /\ \A f, g \in Occupied(ftable) : f # g => (Before(f, g) <=> ~Before(g, f))
      /\ \A f, g \in Occupied(ftable) : g \in ctl.matrix[f] <=> Before(g, f)
      /\ \A f \in Occupied(ftable) : f \notin ctl.matrix[f]
  BY <1>5 DEF Ranked
<1> QED
  BY <1>5, <1>6, <1>8, <1>9

\* A compaction, with the pages after it.
LEMMA CompactIs ==
    ASSUME Typed, Mapped, ListsMapped, Owned, TablesAgree, Compact, Top # NumPages
    PROVE  /\ CompactedTo(PackedFrames(Top)) /\ Mapped' /\ ListsMapped'
           /\ stage' = <<"compacted", 0>> /\ due' = due
<1>1. /\ base' = PackedBase /\ CompactedMap
      /\ ptable' = PackedFrames(Top).ptable /\ ftable' = PackedFrames(Top).ftable /\ ctl' = PackedFrames(Top).ctl
      /\ order' = IF pmem = "LRU2" /\ Occupied(PackedFrames(Top).ftable) # Occupied(ftable) THEN Off ELSE order
      /\ stage' = <<"compacted", 0>> /\ due' = due /\ arrived' = arrived
      /\ fspc' = fspc /\ pmem' = pmem /\ size' = size
  BY DEF Compact, CompactedMap, choiceVars
<1>2. /\ Mapped' /\ ListsMapped' /\ Active' = Active /\ base' \in [Procs -> Pages \union {None}]
      /\ \A p \in Active : base'[p] = Packed(base[p])
      /\ \A p \in Procs \ Active : base'[p] = None
  BY <1>1, CompactMapKeeps
<1>3. PackedFrames(Top) \in Packing(Top)
  BY PackedFramesIn
<1>4. PICK s : s = PackedFrames(Top)
  OBVIOUS
<1>5. CompactedTo(s)
  BY <1>1, <1>2, <1>3, <1>4 DEF CompactedTo
<1> QED
  BY <1>1, <1>2, <1>4, <1>5

LEMMA CompactKeeps == ASSUME IInv, Compact PROVE IInv'
<1>0. Typed /\ Mapped /\ ListsMapped /\ Owned /\ TablesAgree /\ Queued /\ Ranked
  BY DEF IInv
<1>1. CASE Top = NumPages
  <2>1. /\ stage' = <<"error", 0>> /\ arrived' = arrived /\ base' = base /\ memmap' = memmap /\ refs' = refs
        /\ ptable' = ptable /\ ftable' = ftable /\ ctl' = ctl
        /\ order' = order /\ due' = due /\ fspc' = fspc /\ pmem' = pmem /\ size' = size
    BY <1>1 DEF Compact, spaceVars, tableVars, choiceVars
  <2>2. arrived' \in 0 .. NumProcs /\ arrived <= arrived'
    BY <1>0, <2>1, SizesFacts DEF Typed
  <2> QED BY <2>1, <2>2, StopKeeps
<1>2. CASE Top # NumPages
  <2>1. PICK s : s = PackedFrames(Top)
    OBVIOUS
  <2>2. CompactedTo(s) /\ Mapped' /\ ListsMapped' /\ stage' = <<"compacted", 0>> /\ due' = due
    BY <1>0, <1>2, <2>1, CompactIs
  <2>3. Owned' /\ TablesAgree'
    BY <1>0, <2>2, CompactTables
  <2>4. Queued' /\ Ranked'
    BY <1>0, <2>2, CompactQueued, CompactRanked
  <2>5. Typed'
    <3>1. /\ ptable' \in [Pages -> PageEntries] /\ ftable' \in [Frames -> Pages \union {None}] /\ ctl' \in Control
          /\ base' \in [Procs -> Pages \union {None}]
          /\ size' = size /\ arrived' = arrived /\ fspc' = fspc /\ pmem' = pmem
      BY <2>2, CompactedFacts
    <3>2. 0 \in 0 .. NumProcs
      BY SizesFacts
    <3> QED BY <1>0, <2>2, <3>1, <3>2 DEF Typed, PageEntries
  <2> QED BY <2>2, <2>3, <2>4, <2>5 DEF IInv
<1> QED
  BY <1>1, <1>2

-----------------------------------------------------------------------------
(* The theorems. *)

\* Every step of the simulator keeps the invariant.
LEMMA NextKeeps == ASSUME IInv, [Next]_vars PROVE IInv'
<1>1. ASSUME NEW p \in Procs, Arrive(p) PROVE IInv'
  BY <1>1, ArriveKeeps
<1>2. ASSUME NEW p \in Procs, Finish(p) PROVE IInv'
  BY <1>2, FinishKeeps
<1>3. ASSUME NEW p \in Procs, NEW i \in 0 .. MaxSize - 1, Access(p, i) PROVE IInv'
  BY <1>3, AccessKeeps
<1>4. CASE Compact
  BY <1>4, CompactKeeps
<1>5. CASE Tick
  BY <1>5, TickKeeps
<1>6. CASE UNCHANGED vars
  <2>1. /\ stage' = stage /\ arrived' = arrived /\ base' = base /\ memmap' = memmap /\ refs' = refs
        /\ ptable' = ptable /\ ftable' = ftable /\ ctl' = ctl
        /\ order' = order /\ due' = due /\ fspc' = fspc /\ pmem' = pmem /\ size' = size
    BY <1>6 DEF vars, spaceVars, tableVars, choiceVars
  <2>2. arrived' \in 0 .. NumProcs /\ arrived <= arrived'
    BY <2>1, SizesFacts DEF IInv, Typed
  <2> QED BY <2>1, <2>2, StopKeeps
<1>7. CASE Stopped
  BY <1>6, <1>7 DEF Stopped
<1> QED
  BY <1>1, <1>2, <1>3, <1>4, <1>5, <1>6, <1>7 DEF Next

\* The inductive invariant holds in every state of the simulator.
THEOREM Invariant == Spec => []IInv
<1>1. Init => IInv
  BY InitHolds
<1>2. IInv /\ [Next]_vars => IInv'
  BY NextKeeps
<1> QED
  BY <1>1, <1>2, PTL DEF Spec

\* The page table and the frame table name each other after every arrival,
\* eviction, end of a process and compaction.
THEOREM TablesAlwaysAgree == Spec => []TablesAgree
<1>1. IInv => TablesAgree
  BY DEF IInv
<1> QED
  BY <1>1, Invariant, PTL

-----------------------------------------------------------------------------
\* Every variable is in its range.
LEMMA MapTyped ==
    ASSUME IInv
    PROVE  TypeOK
<1>0. Typed /\ Mapped /\ ListsMapped
  BY DEF IInv
<1> DEFINE P == [status : {"L", "P"}, base : Pages, qtd : 1 .. NumPages]
<1>1. Covers(memmap, 0, NumPages) /\ Chain(memmap)
  BY <1>0 DEF Mapped, Covers
<1>2. /\ DOMAIN memmap = 1 .. Len(memmap) /\ Len(memmap) \in Nat \ {0} /\ memmap \in Seq(Pieces)
      /\ ToSet(memmap) = {memmap[i] : i \in 1 .. Len(memmap)}
  BY <1>1, ChainType
<1>3. \A i \in 1 .. Len(memmap) : memmap[i] \in Pieces /\ 0 <= memmap[i].base /\ End(memmap[i]) <= NumPages
  BY <1>1, <1>2, ChainType, ChainWithin
<1>4. \A m \in Pieces : End(m) <= NumPages => m \in P
  <2> SUFFICES ASSUME NEW m \in Pieces, End(m) <= NumPages PROVE m \in P
    OBVIOUS
  <2>1. /\ m.status \in {"L", "P"} /\ m.base \in Nat /\ m.qtd \in Nat \ {0}
        /\ m.base + m.qtd <= NumPages
    BY DEF Pieces, End
  <2>2. m.base \in Pages /\ m.qtd \in 1 .. NumPages
    BY <2>1, SizesFacts DEF Pages
  <2>3. m = [status |-> m.status, base |-> m.base, qtd |-> m.qtd]
    BY DEF Pieces
  <2> QED BY <2>1, <2>2, <2>3
<1>5. memmap \in Seq(P)
  <2>1. \A i \in 1 .. Len(memmap) : memmap[i] \in P
    BY <1>3, <1>4
  <2> HIDE DEF P
  <2>2. memmap = [i \in 1 .. Len(memmap) |-> memmap[i]]
    BY <1>2
  <2>3. memmap \in [1 .. Len(memmap) -> P]
    BY <2>1, <2>2
  <2> QED BY <1>2, <2>3
<1>6. DOMAIN refs \subseteq 1 .. MaxSize
  BY <1>0 DEF ListsMapped
<1>7. ASSUME NEW s \in DOMAIN refs PROVE refs[s] \in Seq(Pages)
  <2>1. refs[s] \in Seq(Nat) /\ \A b \in ToSet(refs[s]) : Piece("L", b, s) \in ToSet(memmap)
    BY <1>0 DEF ListsMapped, ListsFresh, Fresh
  <2>2. PICK list \in Seq(Nat) : list = refs[s]
    BY <2>1
  <2>3. \A i \in 1 .. Len(list) : list[i] \in Pages
    <3> TAKE i \in 1 .. Len(list)
    <3>1. PICK b : b = list[i]
      OBVIOUS
    <3>2. DOMAIN list = 1 .. Len(list)
      OBVIOUS
    <3>3. b \in ToSet(list)
      BY <3>1, <3>2 DEF ToSet
    <3>4. PICK k \in 1 .. Len(memmap) : memmap[k] = Piece("L", b, s)
      BY <1>2, <2>1, <2>2, <3>3
    <3>5. memmap[k] \in P
      BY <1>3, <1>4
    <3>6. memmap[k].base = b
      BY <3>4 DEF Piece
    <3> QED BY <3>1, <3>5, <3>6
  <2>4. list = [i \in 1 .. Len(list) |-> list[i]] /\ Len(list) \in Nat
    OBVIOUS
  <2>5. list \in [1 .. Len(list) -> Pages]
    BY <2>3, <2>4
  <2>6. list \in Seq(Pages)
    BY <2>4, <2>5
  <2> QED BY <2>2, <2>6
<1> QED
  BY <1>0, <1>5, <1>6, <1>7 DEF TypeOK, Typed

LEMMA MapMatches ==
    ASSUME IInv
    PROVE  MapMatchesTable
<1>0. Typed /\ Mapped /\ ListsMapped /\ Owned
  BY DEF IInv
<1>1. Covers(memmap, 0, NumPages) /\ Chain(memmap) /\ Used(memmap) = {Piece("P", base[p], size[p]) : p \in Active}
  BY <1>0 DEF Mapped, Covers
<1>2. /\ DOMAIN memmap = 1 .. Len(memmap) /\ Len(memmap) \in Nat \ {0}
      /\ \A i \in DOMAIN memmap : memmap[i] \in Pieces
      /\ ToSet(memmap) = {memmap[i] : i \in 1 .. Len(memmap)}
  BY <1>1, ChainType
<1>3. memmap[1].base = 0 /\ End(Last(memmap)) = NumPages
  BY <1>1 DEF Covers, Last
<1>4. \A i \in 1 .. Len(memmap) - 1 : End(memmap[i]) = memmap[i + 1].base
  BY <1>1 DEF Chain
<1> DEFINE used == {j \in DOMAIN memmap : ~IsFree(memmap, j)}
           here == {<<memmap[i].base, memmap[i].qtd>> : i \in used}
           there == {<<base[p], size[p]>> : p \in Active}
<1>5. \A j \in DOMAIN memmap : j \in used <=> memmap[j] \in Used(memmap)
  <2> TAKE j \in DOMAIN memmap
  <2>1. memmap[j].status \in {"L", "P"} /\ memmap[j] \in ToSet(memmap)
    BY <1>2 DEF Pieces
  <2>2. j \in used <=> memmap[j].status = "P"
    BY <2>1 DEF IsFree
  <2> QED BY <2>1, <2>2 DEF Used
<1>6. ASSUME NEW x \in here PROVE x \in there
  <2>1. PICK i \in used : x = <<memmap[i].base, memmap[i].qtd>>
    BY <1>6
  <2>2. PICK p \in Active : memmap[i] = Piece("P", base[p], size[p])
    BY <1>1, <1>5
  <2> QED BY <2>1, <2>2 DEF Piece
<1>7. ASSUME NEW x \in there PROVE x \in here
  <2>1. PICK p \in Active : x = <<base[p], size[p]>>
    BY <1>7
  <2>2. PICK m \in Used(memmap) : m = Piece("P", base[p], size[p])
    BY <1>1
  <2>3. PICK i \in DOMAIN memmap : memmap[i] = m
    BY <1>2 DEF Used
  <2>4. i \in used
    BY <1>5, <2>3
  <2>5. memmap[i].base = base[p] /\ memmap[i].qtd = size[p]
    BY <2>2, <2>3 DEF Piece
  <2> QED BY <2>1, <2>4, <2>5
<1>8. here = there
  <2> HIDE DEF here, there
  <2> QED BY <1>6, <1>7
<1>9. ASSUME NEW p \in Procs
      PROVE  {pg \in Pages : ptable[pg].pid = p} = IF p \in Active THEN base[p] .. base[p] + size[p] - 1 ELSE {}
  <2>1. CASE p \in Active
    <3>1. base[p] \in Nat /\ size[p] \in Nat /\ base[p] + size[p] <= NumPages /\ NumPages \in Nat
      BY <1>0, <2>1, Within, SizesFacts
    <3>2. \A pg \in base[p] .. base[p] + size[p] - 1 : pg \in Pages /\ base[p] <= pg /\ pg < base[p] + size[p]
      BY <3>1 DEF Pages
    <3>3. \A pg \in Pages : base[p] <= pg /\ pg < base[p] + size[p] => pg \in base[p] .. base[p] + size[p] - 1
      BY <3>1, SizesFacts
    <3>4. \A pg \in Pages : ptable[pg].pid = p <=> base[p] <= pg /\ pg < base[p] + size[p]
      BY <1>0, <2>1 DEF Owned
    <3> QED BY <2>1, <3>2, <3>3, <3>4
  <2>2. CASE p \notin Active
    BY <1>0, <2>2 DEF Owned
  <2> QED BY <2>1, <2>2
<1>10. TypeOK
  BY MapTyped
<1> QED
  BY <1>3, <1>4, <1>8, <1>9, <1>10 DEF MapMatchesTable

\* The map, the bases and the page table agree on who has which memory, and
\* the map covers it all: nothing is lost and nothing is given twice.
THEOREM MapAlwaysMatches == Spec => []MapMatchesTable
<1>1. IInv => MapMatchesTable
  BY MapMatches
<1> QED
  BY <1>1, Invariant, PTL

\* QuickFit's lists have only free pieces of the map, each once.
THEOREM QuickListsAlwaysFresh == Spec => []QuickListsFresh
<1>1. IInv => QuickListsFresh
  <2> SUFFICES ASSUME IInv, NEW s \in DOMAIN refs
               PROVE  /\ \A i \in DOMAIN refs[s] : Piece("L", refs[s][i], s) \in ToSet(memmap)
                      /\ \A i, j \in DOMAIN refs[s] : i # j => refs[s][i] # refs[s][j]
    BY DEF QuickListsFresh
  <2>1. Fresh(refs[s]) /\ \A b \in ToSet(refs[s]) : Piece("L", b, s) \in ToSet(memmap)
    BY DEF IInv, ListsMapped, ListsFresh
  <2>2. \A i \in DOMAIN refs[s] : refs[s][i] \in ToSet(refs[s])
    BY DEF ToSet
  <2>3. \A i, j \in DOMAIN refs[s] : i # j => refs[s][i] # refs[s][j]
    BY <2>1 DEF Fresh, IsInjective
  <2> QED BY <2>1, <2>2, <2>3
<1> QED
  BY <1>1, Invariant, PTL

-----------------------------------------------------------------------------
\* A number with fewer bits is lower.
LEMMA FewerBelow ==
    ASSUME NEW a \in SUBSET Frames, NEW b \in SUBSET Frames, a \subseteq b, a # b
    PROVE  Below(a, b)
<1> DEFINE D == SymDiff(a, b)
<1>1. D \subseteq Frames /\ D \subseteq b /\ D # {}
  BY DEF SymDiff
<1> HIDE DEF D
<1>2. D \subseteq Int /\ IsFiniteSet(D)
  <2>1. D \in SUBSET Frames /\ Frames \subseteq Int /\ IsFiniteSet(Frames)
    BY <1>1, FramesFacts
  <2> QED BY <2>1, FS_Subset
<1>3. Max(D) \in D
  BY <1>1, <1>2, MaxIn
<1> QED
  BY <1>1, <1>3 DEF Below, D

LEMMA OldestOut ==
    ASSUME IInv
    PROVE  EvictsOldest
<1>0. Typed /\ Queued /\ Ranked
  BY DEF IInv
<1> SUFFICES ASSUME order # Off, NEW frame, frame = NewFrame(pmem, ctl, ftable)
             PROVE  IF \A f \in Frames : ftable[f] # None
                    THEN \A f \in Frames \ {frame} : Before(frame, f)
                    ELSE pmem = "FIFO" => ftable[frame] = None
  BY DEF EvictsOldest, Before
<1>1. pmem \in AllPaginators /\ ctl \in Control
  BY <1>0, Kinds DEF Typed
<1>2. pmem = "FIFO" => Occupied(ftable) \subseteq ToSet(ctl.fifo)
  BY <1>0 DEF Queued
<1>3. /\ frame \in Frames
      /\ pmem = "FIFO" => frame = NextInLine(ctl, ftable)
      /\ pmem = "LRU2" => frame = LowestFrame(ctl.matrix)
  BY <1>1, <1>2, NewFrameIn
<1>4. pmem = "LRU2" \/ (pmem = "FIFO" /\ fspc # "QuickFit")
  BY <1>0 DEF Ranked
<1>5. /\ FrameList(ctl.fifo) /\ ctl.matrix \in [Frames -> SUBSET Frames]
  BY <1>1, ControlIs
<1>6. ASSUME pmem = "FIFO", \E f \in Frames : ftable[f] = None PROVE ftable[frame] = None
  <2>1. ToSet(ctl.fifo) = Occupied(ftable) /\ IsInjective(ctl.fifo)
    BY <1>0, <1>4, <1>6 DEF Queued
  <2>2. ToSet(ctl.fifo) # Frames
    BY <1>6, <2>1 DEF Occupied
  <2>3. Len(ctl.fifo) # NumFrames
    BY <1>5, <2>1, <2>2, ListFull
  <2> QED BY <1>2, <1>3, <1>5, <1>6, <2>3, NextIn
<1>7. ASSUME pmem = "FIFO", \A f \in Frames : ftable[f] # None, NEW f \in Frames \ {frame} PROVE Before(frame, f)
  <2>1. /\ ToSet(ctl.fifo) = Occupied(ftable) /\ IsInjective(ctl.fifo)
        /\ \A i, j \in 1 .. Len(ctl.fifo) : i < j => Before(ctl.fifo[i], ctl.fifo[j])
    BY <1>0, <1>4, <1>7 DEF Queued
  <2>2. ToSet(ctl.fifo) = Frames
    BY <1>7, <2>1 DEF Occupied
  <2>3. Len(ctl.fifo) = NumFrames /\ NumFrames \in Nat \ {0}
    BY <1>5, <2>1, <2>2, ListFull, FramesFacts
  <2>4. PICK list \in Seq(Frames) : list = ctl.fifo
    BY <1>5 DEF FrameList
  <2>5. frame = list[1] /\ DOMAIN list = 1 .. Len(list)
    <3>1. frame = Head(list)
      BY <1>3, <1>7, <2>3, <2>4 DEF NextInLine
    <3>2. list # << >>
      BY <2>3, <2>4
    <3> QED BY <3>1, <3>2
  <2>6. PICK j \in 1 .. Len(list) : f = list[j]
    BY <2>2, <2>4, <2>5 DEF ToSet
  <2>7. j # 1 /\ 1 \in 1 .. Len(list) /\ 1 < j
    BY <1>7, <2>5, <2>6
  <2> QED BY <2>1, <2>4, <2>5, <2>6, <2>7
<1>8. ASSUME pmem = "LRU2", \A f \in Frames : ftable[f] # None, NEW f \in Frames \ {frame} PROVE Before(frame, f)
  <2>1. Occupied(ftable) = Frames
    BY <1>8 DEF Occupied
  <2>2. /\ \A g, h, k \in Frames : Before(g, h) /\ Before(h, k) => Before(g, k)
        /\ \A g, h \in Frames : g # h => (Before(g, h) <=> ~Before(h, g))
        /\ \A g, h \in Frames : h \in ctl.matrix[g] <=> Before(h, g)
        /\ \A g \in Frames : g \notin ctl.matrix[g]
    BY <1>0, <1>8, <2>1 DEF Ranked
  <2> SUFFICES ASSUME Before(f, frame) PROVE FALSE
    BY <1>3, <2>2
  <2>3. PICK a \in SUBSET Frames : a = ctl.matrix[f]
    BY <1>5
  <2>4. PICK b \in SUBSET Frames : b = ctl.matrix[frame]
    BY <1>3, <1>5
  <2>5. a \subseteq b
    BY <1>3, <2>2, <2>3, <2>4
  <2>6. f \in b /\ f \notin a
    BY <1>3, <2>2, <2>3, <2>4
  <2>7. Below(a, b)
    BY <2>5, <2>6, FewerBelow
  <2>8. ~Below(ctl.matrix[f], ctl.matrix[frame])
    BY <1>3, <1>5, <1>8, LowestIn
  <2> QED BY <2>3, <2>4, <2>7, <2>8
<1> QED
  BY <1>4, <1>6, <1>7, <1>8

\* FIFO and LRU2 give up the page they have to: the first that came, and the
\* one not used for longest.
THEOREM OldestAlwaysOut == Spec => []EvictsOldest
<1>1. IInv => EvictsOldest
  BY OldestOut
<1> QED
  BY <1>1, Invariant, PTL

-----------------------------------------------------------------------------
\* What a compaction keeps.
LEMMA CompactKeepsAll ==
    ASSUME IInv, Compact, Top # NumPages
    PROVE  /\ Resident' = Resident
           /\ Active' = Active
           /\ \A p, q \in Active : base[p] < base[q] <=> base'[p] < base'[q]
           /\ \A pg, x \in Pages : pg < x /\ ptable'[x].pid # None => ptable'[pg].pid # None
           /\ \A f, g \in Frames : f < g /\ ftable'[g] # None => ftable'[f] # None
<1>0. Typed /\ Mapped /\ ListsMapped /\ Owned /\ TablesAgree
  BY DEF IInv
<1>1. PICK s : s = PackedFrames(Top)
  OBVIOUS
<1>2. CompactedTo(s)
  BY <1>0, <1>1, CompactIs
<1>3. /\ FramesOnce(s) /\ Settled(s, Top) /\ ptable' = s.ptable /\ ftable' = s.ftable
      /\ Active' = Active /\ \A p \in Active : base'[p] = Packed(base[p])
      /\ size' = size
  BY <1>2, CompactedFacts
<1>4. /\ \A x \in Pages : ptable'[x].frame = None <=> PackedTable[x].frame = None
      /\ \A x \in Pages : ptable'[x].pid # None <=> x < Top
      /\ \A x \in Pages : ptable'[x].frame # None => x < Top
      /\ \A p \in Active : \A i \in 0 .. size[p] - 1 :
            base'[p] + i \in Pages /\ PackedTable[base'[p] + i] = ptable[base[p] + i]
  BY <1>0, <1>2, PagesCome
<1>5. Resident' = Resident
  <2>1. ASSUME NEW p \in Procs, NEW i \in 0 .. MaxSize - 1
        PROVE  p \in Active' /\ i < size'[p] /\ ptable'[base'[p] + i].frame # None
                 <=> p \in Active /\ i < size[p] /\ ptable[base[p] + i].frame # None
    <3>1. ASSUME p \in Active, i < size[p]
          PROVE  ptable'[base'[p] + i].frame = None <=> ptable[base[p] + i].frame = None
      <4>1. i \in 0 .. size[p] - 1
        BY <1>0, <3>1, Within, SizesFacts
      <4> QED BY <1>4, <3>1, <4>1
    <3> QED BY <1>3, <3>1
  <2>2. \A x \in Procs \X (0 .. MaxSize - 1) :
           x[1] \in Active' /\ x[2] < size'[x[1]] /\ ptable'[base'[x[1]] + x[2]].frame # None
             <=> x[1] \in Active /\ x[2] < size[x[1]] /\ ptable[base[x[1]] + x[2]].frame # None
    <3> TAKE x \in Procs \X (0 .. MaxSize - 1)
    <3>1. x[1] \in Procs /\ x[2] \in 0 .. MaxSize - 1
      OBVIOUS
    <3> QED BY <2>1, <3>1
  <2> QED BY <2>2 DEF Resident
<1>6. \A p, q \in Active : base[p] < base[q] <=> base'[p] < base'[q]
  BY <1>0, <1>3, PackedIs, PackedProcess
<1>7. \A pg, x \in Pages : pg < x /\ ptable'[x].pid # None => ptable'[pg].pid # None
  <2> TAKE pg, x \in Pages
  <2>1. pg \in Nat /\ x \in Nat /\ Top \in Nat
    BY <1>0, PackedIs, SizesFacts
  <2> QED BY <1>4, <2>1
<1>8. \A f, g \in Frames : f < g /\ ftable'[g] # None => ftable'[f] # None
  <2> TAKE f, g \in Frames
  <2> HAVE f < g /\ ftable'[g] # None
  <2>1. PICK x \in Pages : ptable'[x].frame = g
    BY <1>3 DEF FramesOnce
  <2>2. x < Top /\ ptable'[x].frame # None
    BY <1>4, <2>1, SizesFacts
  <2> QED BY <1>3, <2>1, <2>2 DEF Settled
<1> QED
  BY <1>3, <1>5, <1>6, <1>7, <1>8

\* Nothing else ends in this stage.
LEMMA OnlyCompact ==
    ASSUME [Next]_vars, stage'[1] = "compacted", stage[1] # "compacted"
    PROVE  Compact /\ Top # NumPages
<1>1. ASSUME NEW p \in Procs, Arrive(p) PROVE FALSE
  <2>1. stage' = stage \/ stage' = <<"no_space", 0>>
    BY <1>1 DEF Arrive
  <2> QED BY <2>1
<1>2. ASSUME NEW p \in Procs, Finish(p) PROVE FALSE
  <2>1. stage' = <<"free", p>>
    BY <1>2 DEF Finish
  <2> QED BY <2>1
<1>3. ASSUME NEW p \in Procs, NEW i \in 0 .. MaxSize - 1, Access(p, i) PROVE FALSE
  <2>1. stage' = <<"access", p>>
    BY <1>3 DEF Access
  <2> QED BY <2>1
<1>4. CASE Tick
  <2>1. stage' = <<"over", 0>> \/ stage' = <<"malloc", 0>>
    BY <1>4 DEF Tick
  <2> QED BY <2>1
<1>5. CASE UNCHANGED vars
  BY <1>5 DEF vars
<1>6. CASE Stopped
  BY <1>5, <1>6 DEF Stopped
<1>7. CASE Compact
  <2> SUFFICES ASSUME Top = NumPages PROVE FALSE
    BY <1>7
  <2>1. stage' = <<"error", 0>>
    BY <1>7 DEF Compact
  <2> QED BY <2>1
<1> QED
  BY <1>1, <1>2, <1>3, <1>4, <1>5, <1>6, <1>7 DEF Next

\* A compaction loses no page that is in a frame, moves the processes without
\* changing their order, and leaves no hole in either memory.
THEOREM CompactionAlwaysKeeps == Spec => CompactionKeeps
<1> DEFINE Step ==
             stage'[1] = "compacted" /\ stage[1] # "compacted" =>
               /\ Resident' = Resident
               /\ Active' = Active
               /\ \A p, q \in Active : base[p] < base[q] <=> base'[p] < base'[q]
               /\ \A pg, x \in Pages : pg < x /\ ptable'[x].pid # None => ptable'[pg].pid # None
               /\ \A f, g \in Frames : f < g /\ ftable'[g] # None => ftable'[f] # None
<1>1. IInv /\ [Next]_vars => [Step]_vars
  BY OnlyCompact, CompactKeepsAll
<1> HIDE DEF Step
<1>2. Spec => [][Step]_vars
  BY <1>1, Invariant, PTL DEF Spec
<1> QED
  BY <1>2 DEF CompactionKeeps, Step

=============================================================================
