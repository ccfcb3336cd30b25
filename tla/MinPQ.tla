-------------------------------- MODULE MinPQ --------------------------------
(***************************************************************************)
(* The priority queue of minPQ.c: a binary heap of processes in an array   *)
(* that is doubled when it is full and halved when little of it is used.   *)
(* The array is used from index 1 on, so length is one more than what fits.*)
(* key gives what the queue's compare function orders the processes by.    *)
(***************************************************************************)
EXTENDS Naturals, Sequences

\* pq holds self->pq[1 .. self->n].
New == [pq |-> <<>>, length |-> 2]

IsEmpty(self) == self.pq = <<>>

Greater(key, pq, i, j) == key[pq[i]] > key[pq[j]]

Swap(pq, i, j) == [pq EXCEPT ![i] = pq[j], ![j] = pq[i]]

\* A turn of the loop of swim; with a heap that is in order nothing happens any more.
SwimTurn(key, s) ==
    IF s.k > 1 /\ Greater(key, s.pq, s.k \div 2, s.k)
    THEN [pq |-> Swap(s.pq, s.k, s.k \div 2), k |-> s.k \div 2]
    ELSE s

\* The loop ends within k turns.
Swim(key, pq, k) ==
    LET turn[i \in 0 .. k] ==
          IF i = 0 THEN [pq |-> pq, k |-> k] ELSE SwimTurn(key, turn[i - 1])
    IN  turn[k].pq

\* The child of k to compare with, the smaller one if there are two.
Child(key, pq, k) ==
    IF 2 * k < Len(pq) /\ Greater(key, pq, 2 * k, 2 * k + 1) THEN 2 * k + 1 ELSE 2 * k

\* A turn of the loop of sink.
SinkTurn(key, s) ==
    LET j == Child(key, s.pq, s.k)
    IN  IF 2 * s.k <= Len(s.pq) /\ Greater(key, s.pq, s.k, j)
        THEN [pq |-> Swap(s.pq, s.k, j), k |-> j]
        ELSE s

\* The loop ends within as many turns as there are elements.
Sink(key, pq, k) ==
    LET turn[i \in 0 .. Len(pq)] ==
          IF i = 0 THEN [pq |-> pq, k |-> k] ELSE SinkTurn(key, turn[i - 1])
    IN  turn[Len(pq)].pq

Insert(key, self, p) ==
    LET n == Len(self.pq)
    IN  [pq |-> Swim(key, Append(self.pq, p), n + 1),
         length |-> IF n = self.length - 1 THEN 2 * self.length ELSE self.length]

Min(self) == self.pq[1]

\* The queue after delMin; what it returns is Min.
DelMin(key, self) ==
    LET n == Len(self.pq) - 1
    IN  [pq |-> Sink(key, SubSeq(Swap(self.pq, 1, n + 1), 1, n), 1),
         length |-> IF n > 0 /\ n = (self.length - 1) \div 4 THEN self.length \div 2
                    ELSE self.length]

=============================================================================
