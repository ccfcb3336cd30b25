-------------------------------- MODULE MCSJF --------------------------------
(* SJF with few processes and cores. *)
EXTENDS SJF

L(t0, dt) == [t0 |-> t0, dt |-> dt]

\* Every process that arrives is shorter than those before it.
MCTraces == {<<L(1, 2), L(0, 3), L(2, 1)>>}
MCPairs == {<<L(0, 1), L(0, 2)>>}

\* The heap against its definition: six processes of any durations up to three
\* leave it in the order of their durations, and it stays within its array,
\* which grows twice on the way and is halved at the end.
ASSUME
    \A key \in [1 .. 6 -> 1 .. 3] :
       LET filled == FoldLeft(LAMBDA h, q : PQ!Insert(key, h, q), PQ!New, [i \in 1 .. 6 |-> i])
           after[k \in 0 .. 6] == IF k = 0 THEN filled ELSE PQ!DelMin(key, after[k - 1])
       IN  /\ \A k \in 0 .. 6 : Len(after[k].pq) = 6 - k /\ 6 - k < after[k].length
           /\ \A k \in 0 .. 5 : \A q \in ToSet(after[k].pq) : key[PQ!Min(after[k])] <= key[q]
           /\ \A k \in 0 .. 5 : ToSet(after[k].pq) = ToSet(after[k + 1].pq) \union {PQ!Min(after[k])}
           /\ filled.length = 8 /\ after[6].length = 4

=============================================================================
