------------------------------ MODULE SJFProofs ------------------------------
(***************************************************************************)
(* Proofs about SJF for every number of processes and cores, every trace   *)
(* and every supply of thread ids.  The inductive invariant is the         *)
(* conjunction of                                                          *)
(*   TypeOK    the types;                                                  *)
(*   HeapOK    the heap holds who has arrived and was not started, once,   *)
(*             in the order of a heap, and fits into its array;            *)
(*   ThreadOK  where a thread stands tells what it has in its hands;       *)
(*   CoreOK    a thread finds by its id the core it was started for;       *)
(*   MutexOK   who holds mutex;                                            *)
(*   CountOK   idleCPU, and the thread that has still to increment it;     *)
(*   AssignOK  the cores the scheduler has passed are busy;                *)
(*   OutputOK  who has left its line.                                      *)
(***************************************************************************)
EXTENDS SJF, ProofLemmas

\* The order of a heap.
Ordered(key, h) == \A i \in 2 .. Len(h) : key[h[i \div 2]] <= key[h[i]]

HeapOK ==
    /\ IsInjective(pPQ.pq) /\ Queued \subseteq 1 .. arrived
    /\ pPQ.length >= 2 /\ Len(pPQ.pq) < pPQ.length
    /\ Ordered(Dt, pPQ.pq)

\* A thread that has its line in the output.
Over == {"signal", "exit", "end"}

ThreadOK ==
    /\ \A t \in Procs :
          /\ pc[t] = "none" <=> t > arrived \/ t \in Queued
          /\ p[t] = IF pc[t] \in {"none", "start", "end"} THEN None ELSE t
          /\ t \in Live => id[t] \in Ids
    /\ \A t, u \in Live : id[t] = id[u] => t = u

\* The loop of getCore ends at c.
Finds(t, c) == coreCPU[c] = id[t] /\ \A d \in 1 .. c - 1 : coreCPU[d] # id[t]

CoreOK ==
    /\ \A t \in Started : \E c \in CPU : Finds(t, c)
    /\ \A c \in CPU : \E t \in Started : Finds(t, c)
    /\ \A c \in Cores : pool[c] # None => pc[pool[c]] = "start" /\ Finds(pool[c], c)
    /\ \A t \in Procs : pc[t] = "start" => \E c \in Cores : pool[c] = t

\* The threads between the lock and the unlock at their end.
InMutex == {t \in Procs : pc[t] \in {"idle", "output", "signal"}}

MutexOK ==
    /\ \A t, u \in InMutex : t = u
    /\ stage[1] = "assign" => InMutex = {}

CountOK == idleCPU + Cardinality(CPU) + Cardinality({t \in Procs : pc[t] = "idle"}) = NumCPU

AssignOK ==
    stage[1] = "assign" =>
       /\ stage[2] \in Cores
       /\ pPQ.pq # << >> => 1 .. stage[2] - 1 \subseteq CPU

OutputOK ==
    /\ outLine = Cardinality({t \in Procs : pc[t] \in Over})
    /\ \A q, r \in Procs : pQueue.v[q].nLine = pQueue.v[r].nLine => q = r
    /\ \A q \in Procs : IF pc[q] \in Over THEN outInfo[pQueue.v[q].nLine].name = q
                        ELSE outInfo[pQueue.v[q].nLine] = NULL
    /\ stage[1] \in {"free", "main", "done"} =>
          /\ Len(outfile) = NumProcs /\ ToSet(outfile) = Procs
          /\ \A t \in Procs : pc[t] \in Over

IInv == TypeOK /\ HeapOK /\ ThreadOK /\ CoreOK /\ MutexOK /\ CountOK /\ AssignOK /\ OutputOK

-----------------------------------------------------------------------------
(* The heap.  D is what can be in it, key the order. *)

\* The sequence h holds the elements of T, each once.
Holds(h, T) == IsInjective(h) /\ ToSet(h) = T

LEMMA Half ==
    ASSUME NEW i \in Nat, i >= 2
    PROVE  /\ i \div 2 \in Nat /\ i \div 2 >= 1 /\ i \div 2 < i
           /\ i = 2 * (i \div 2) \/ i = 2 * (i \div 2) + 1
OBVIOUS

\* What swap does, and that it keeps the elements.
LEMMA SwapHolds ==
    ASSUME NEW D, NEW h \in Seq(D), NEW i \in 1 .. Len(h), NEW j \in 1 .. Len(h)
    PROVE  /\ PQ!Swap(h, i, j) \in Seq(D) /\ Len(PQ!Swap(h, i, j)) = Len(h)
           /\ PQ!Swap(h, i, j)[i] = h[j] /\ PQ!Swap(h, i, j)[j] = h[i]
           /\ \A l \in 1 .. Len(h) : l # i /\ l # j => PQ!Swap(h, i, j)[l] = h[l]
           /\ \A T : Holds(h, T) => Holds(PQ!Swap(h, i, j), T)
<1> DEFINE n == Len(h)
           r == PQ!Swap(h, i, j)
<1>1. n \in Nat /\ DOMAIN h = 1 .. n /\ h \in [1 .. n -> D]
  OBVIOUS
<1>2. r = [h EXCEPT ![i] = h[j], ![j] = h[i]]
  BY DEF PQ!Swap
<1>3. /\ r \in [1 .. n -> D] /\ DOMAIN r = 1 .. n
      /\ \A l \in 1 .. n : r[l] = IF l = j THEN h[i] ELSE IF l = i THEN h[j] ELSE h[l]
  BY <1>1, <1>2
<1>4. r \in Seq(D) /\ Len(r) = n
  BY <1>1, <1>3
<1> HIDE DEF n, r
<1>5. i \in 1 .. n /\ j \in 1 .. n
  BY DEF n
<1>6. ASSUME NEW T, Holds(h, T) PROVE Holds(r, T)
  <2>1. \A a, b \in 1 .. n : h[a] = h[b] => a = b
    BY <1>1, <1>6 DEF Holds, IsInjective
  <2>2. \A a, b \in 1 .. n : r[a] = r[b] => a = b
    BY <1>3, <1>5, <2>1
  <2>3. ToSet(r) = ToSet(h)
    <3>1. \A a \in 1 .. n : \E b \in 1 .. n : r[a] = h[b]
      BY <1>3, <1>5
    <3>2. \A a \in 1 .. n : \E b \in 1 .. n : h[a] = r[b]
      <4> SUFFICES ASSUME NEW a \in 1 .. n PROVE \E b \in 1 .. n : h[a] = r[b]
        OBVIOUS
      <4>1. CASE a = i
        BY <1>3, <1>5, <4>1
      <4>2. CASE a = j
        BY <1>3, <1>5, <4>2
      <4>3. CASE a # i /\ a # j
        BY <1>3, <1>5, <4>3
      <4> QED BY <4>1, <4>2, <4>3
    <3>3. ToSet(r) = {r[b] : b \in 1 .. n} /\ ToSet(h) = {h[b] : b \in 1 .. n}
      BY <1>1, <1>3 DEF ToSet
    <3> QED BY <3>1, <3>2, <3>3
  <2> QED BY <1>3, <1>6, <2>2, <2>3 DEF Holds, IsInjective
<1>7. r[i] = h[j] /\ r[j] = h[i] /\ \A l \in 1 .. n : l # i /\ l # j => r[l] = h[l]
  BY <1>3, <1>5
<1> QED
  BY <1>4, <1>6, <1>7 DEF n, r

LEMMA SwapsHold ==
    ASSUME NEW D, NEW h \in Seq(D), NEW T, Holds(h, T)
    PROVE  \A i, j \in 1 .. Len(h) :
              /\ PQ!Swap(h, i, j) \in Seq(D) /\ Len(PQ!Swap(h, i, j)) = Len(h)
              /\ PQ!Swap(h, i, j)[i] = h[j] /\ PQ!Swap(h, i, j)[j] = h[i]
              /\ \A l \in 1 .. Len(h) : l # i /\ l # j => PQ!Swap(h, i, j)[l] = h[l]
              /\ Holds(PQ!Swap(h, i, j), T)
BY SwapHolds

\* The first element is a least one.
LEMMA FirstIsLeast ==
    ASSUME NEW D, NEW key \in [D -> Int], NEW h \in Seq(D), Ordered(key, h)
    PROVE  \A i \in 1 .. Len(h) : key[h[1]] <= key[h[i]]
<1> DEFINE G == {m \in Nat : \A i \in 1 .. Len(h) : i <= m => key[h[1]] <= key[h[i]]}
<1>1. Len(h) \in Nat /\ \A i \in 1 .. Len(h) : key[h[i]] \in Int
  BY ElementOfSeq
<1>2. 0 \in G
  OBVIOUS
<1>3. ASSUME NEW m \in Nat, m \in G PROVE m + 1 \in G
  <2> SUFFICES ASSUME NEW i \in 1 .. Len(h), i <= m + 1 PROVE key[h[1]] <= key[h[i]]
    OBVIOUS
  <2>1. CASE i = 1
    BY <1>1, <2>1
  <2>2. CASE i >= 2
    <3>1. i \div 2 \in 1 .. Len(h) /\ i \div 2 <= m
      BY <1>1, <2>2, Half
    <3>2. key[h[1]] <= key[h[i \div 2]]
      BY <1>3, <3>1
    <3>3. key[h[i \div 2]] <= key[h[i]]
      BY <1>1, <2>2 DEF Ordered
    <3> DEFINE a == h[i \div 2]
    <3>4. key[a] \in Int /\ key[h[1]] \in Int /\ key[h[i]] \in Int
      BY <1>1, <3>1
    <3> HIDE DEF a
    <3> QED BY <3>2, <3>3, <3>4 DEF a
  <2> QED BY <1>1, <2>1, <2>2
<1>4. \A m \in Nat : m \in G
  <2> HIDE DEF G
  <2> QED BY <1>2, <1>3, NaturalInduction
<1>5. Len(h) \in G
  BY <1>1, <1>4
<1> QED
  BY <1>1, <1>5

\* In order but for the element at k, which may be too small for its place.
RisesAt(key, h, k) ==
    /\ \A i \in 2 .. Len(h) : i # k => key[h[i \div 2]] <= key[h[i]]
    /\ \A i \in 2 .. Len(h) : i \div 2 = k /\ k > 1 => key[h[k \div 2]] <= key[h[i]]

\* What swim starts and goes on with.
Swimming(key, D, T, n) ==
    {s \in [pq : Seq(D), k : Nat] :
        Len(s.pq) = n /\ Holds(s.pq, T) /\ s.k \in 1 .. n /\ RisesAt(key, s.pq, s.k)}

Rises(key, s) == s.k > 1 /\ PQ!Greater(key, s.pq, s.k \div 2, s.k)

\* An exchange with the element above.
LEMMA SwimTurnKeeps ==
    ASSUME NEW D, NEW key \in [D -> Int], NEW T, NEW n \in Nat,
           NEW s \in Swimming(key, D, T, n)
    PROVE  /\ PQ!SwimTurn(key, s) \in Swimming(key, D, T, n)
           /\ Rises(key, s) => PQ!SwimTurn(key, s).k < s.k
           /\ ~Rises(key, s) => PQ!SwimTurn(key, s) = s
<1> DEFINE h == s.pq
           k == s.k
           a == k \div 2
           r == PQ!Swap(h, a, k)
<1>1. /\ h \in Seq(D) /\ Len(h) = n /\ Holds(h, T) /\ k \in 1 .. n /\ k \in Nat
      /\ RisesAt(key, h, k)
  BY DEF Swimming
<1>2. CASE Rises(key, s)
  <2>1. k >= 2 /\ a \in Nat /\ a >= 1 /\ a < k /\ a \in 1 .. n
    BY <1>1, <1>2, Half DEF Rises
  <2>2. key[h[a]] > key[h[k]]
    BY <1>2 DEF Rises, PQ!Greater
  <2> DEFINE t == [pq |-> PQ!Swap(h, k, a), k |-> a]
  <2>3. PQ!SwimTurn(key, s) = t
    BY <1>2 DEF Rises, PQ!SwimTurn
  <2> DEFINE g == PQ!Swap(h, k, a)
  <2> HIDE DEF a, h, k
  <2>4. /\ g \in Seq(D) /\ Len(g) = n /\ g[k] = h[a] /\ g[a] = h[k] /\ Holds(g, T)
        /\ \A l \in 1 .. n : l # k /\ l # a => g[l] = h[l]
    <3>1. k \in 1 .. Len(h) /\ a \in 1 .. Len(h) /\ h \in Seq(D)
      BY <1>1, <2>1
    <3>2. /\ g \in Seq(D) /\ Len(g) = Len(h) /\ g[k] = h[a] /\ g[a] = h[k]
          /\ \A l \in 1 .. Len(h) : l # k /\ l # a => g[l] = h[l]
      BY <3>1, SwapHolds
    <3>3. Holds(h, T) => Holds(g, T)
      BY <3>1, SwapHolds
    <3> QED BY <1>1, <3>2, <3>3
  <2> HIDE DEF g
  <2>5. \A l \in 1 .. n : key[h[l]] \in Int
    BY <1>1, ElementOfSeq
  <2>6. ASSUME NEW i \in 2 .. n, i # a PROVE key[g[i \div 2]] <= key[g[i]]
    <3> DEFINE u == i \div 2
    <3>1. u \in 1 .. n /\ u # i
      BY <1>1, Half
    <3>2. i # k => key[h[u]] <= key[h[i]]
      BY <1>1 DEF RisesAt
    <3>3. u = k => key[h[a]] <= key[h[i]]
      BY <1>1, <2>1 DEF RisesAt, a
    <3>4. i = k => u = a
      BY DEF a
    <3> SUFFICES key[g[u]] <= key[g[i]]
      OBVIOUS
    <3> HIDE DEF u
    <3>5. CASE i = k
      BY <1>1, <2>1, <2>2, <2>4, <2>5, <3>4, <3>5
    <3>6. CASE i # k /\ u = k
      BY <1>1, <2>1, <2>4, <2>6, <3>1, <3>3, <3>6
    <3>7. CASE i # k /\ u = a
      <4>1. key[h[a]] <= key[h[i]] /\ g[i] = h[i] /\ g[u] = h[k]
        BY <2>4, <2>6, <3>2, <3>7
      <4>2. key[h[a]] \in Int /\ key[h[i]] \in Int /\ key[h[k]] \in Int
        BY <1>1, <2>1, <2>5
      <4> QED BY <2>2, <4>1, <4>2
    <3>8. CASE i # k /\ u # k /\ u # a
      BY <2>4, <2>6, <3>1, <3>2, <3>8
    <3> QED BY <3>5, <3>6, <3>7, <3>8
  <2>7. ASSUME NEW i \in 2 .. n, i \div 2 = a, a > 1 PROVE key[g[a \div 2]] <= key[g[i]]
    <3> DEFINE u == a \div 2
    <3>1. u \in 1 .. n /\ u # a /\ u < k
      BY <1>1, <2>1, <2>7, Half
    <3>2. key[h[u]] <= key[h[a]]
      BY <1>1, <2>1, <2>7 DEF RisesAt
    <3>3. i # k => key[h[a]] <= key[h[i]]
      BY <1>1, <2>7 DEF RisesAt
    <3>4. i # a
      BY <2>7, Half
    <3> SUFFICES key[g[u]] <= key[g[i]]
      OBVIOUS
    <3> HIDE DEF u
    <3>5. g[u] = h[u]
      BY <2>4, <3>1
    <3>6. key[h[u]] \in Int /\ key[h[a]] \in Int /\ key[h[i]] \in Int
      BY <2>1, <2>5, <3>1
    <3>7. CASE i = k
      BY <2>4, <3>2, <3>5, <3>7
    <3>8. CASE i # k
      <4>1. g[i] = h[i]
        BY <2>4, <3>4, <3>8
      <4> QED BY <3>2, <3>3, <3>5, <3>6, <3>8, <4>1
    <3> QED BY <3>7, <3>8
  <2>8. RisesAt(key, g, a)
    BY <2>4, <2>6, <2>7 DEF RisesAt
  <2>9. t \in Swimming(key, D, T, n)
    BY <2>1, <2>4, <2>8 DEF Swimming, g
  <2> QED BY <1>2, <2>1, <2>3, <2>9 DEF k
<1>3. CASE ~Rises(key, s)
  BY <1>3 DEF Rises, PQ!SwimTurn
<1> QED
  BY <1>2, <1>3

SwimLoop(key, h, k, f) ==
    f = [i \in 0 .. k |->
           IF i = 0 THEN [pq |-> h, k |-> k] ELSE PQ!SwimTurn(key, f[i - 1])]

LEMMA SwimIsLoop ==
    \A key, h, k : PQ!Swim(key, h, k) = (CHOOSE f : SwimLoop(key, h, k, f))[k].pq
BY DEF PQ!Swim, SwimLoop

\* swim puts a heap in order in which only the element at k is out of order.
LEMMA SwimOrders ==
    ASSUME NEW D, NEW key \in [D -> Int], NEW T, NEW h \in Seq(D), Holds(h, T),
           NEW k \in 1 .. Len(h), RisesAt(key, h, k)
    PROVE  /\ PQ!Swim(key, h, k) \in Seq(D) /\ Len(PQ!Swim(key, h, k)) = Len(h)
           /\ Holds(PQ!Swim(key, h, k), T) /\ Ordered(key, PQ!Swim(key, h, k))
<1> DEFINE n == Len(h)
           S == Swimming(key, D, T, n)
           base == [pq |-> h, k |-> k]
           e == CHOOSE f : SwimLoop(key, h, k, f)
<1>1. n \in Nat /\ k \in Nat /\ k \in 1 .. n
  OBVIOUS
<1>2. base \in S
  BY <1>1 DEF Swimming
<1>3. \A s \in S : PQ!SwimTurn(key, s) \in S
  BY <1>1, SwimTurnKeeps
<1>4. SwimLoop(key, h, k, e)
  <2> DEFINE turn == [s \in S |-> PQ!SwimTurn(key, s)]
             g == [i \in 1 .. k |-> turn]
  <2>1. turn \in [S -> S]
    BY <1>3
  <2>2. g \in LoopTurns(S, k)
    BY <2>1 DEF LoopTurns
  <2>3. \A i \in 1 .. k : \A s \in S : g[i][s] = PQ!SwimTurn(key, s)
    OBVIOUS
  <2> HIDE DEF S, base, g
  <2>4. PICK f : Loop(S, k, base, g, f)
    BY <1>1, <1>2, <2>2, LoopExists
  <2>5. f = [i \in 0 .. k |-> IF i = 0 THEN base ELSE PQ!SwimTurn(key, f[i - 1])]
    <3>1. /\ f \in [0 .. k -> S] /\ f[0] = base
          /\ \A i \in 1 .. k : f[i] = g[i][f[i - 1]]
      BY <2>4 DEF Loop
    <3>2. \A i \in 1 .. k : f[i] = PQ!SwimTurn(key, f[i - 1])
      BY <1>1, <2>3, <3>1
    <3> QED BY <1>1, <3>1, <3>2
  <2>6. SwimLoop(key, h, k, f)
    BY <2>5 DEF SwimLoop, base
  <2> QED BY <2>6
<1> HIDE DEF e
<1>5. /\ e[0] = base
      /\ \A i \in 1 .. k : e[i] = PQ!SwimTurn(key, e[i - 1])
  BY <1>1, <1>4 DEF SwimLoop
<1> DEFINE I == [i \in 0 .. k |-> {s \in S : s.k <= k - i \/ ~Rises(key, s)}]
<1>6. e[0] \in I[0]
  BY <1>1, <1>2, <1>5
<1>7. ASSUME NEW i \in 1 .. k, e[i - 1] \in I[i - 1] PROVE e[i] \in I[i]
  <2> DEFINE s == e[i - 1]
             t == PQ!SwimTurn(key, s)
  <2>1. s \in S /\ (s.k <= k - (i - 1) \/ ~Rises(key, s))
    BY <1>1, <1>7
  <2>2. t \in S /\ (Rises(key, s) => t.k < s.k) /\ (~Rises(key, s) => t = s)
    BY <1>1, <2>1, SwimTurnKeeps
  <2>3. s.k \in Nat /\ t.k \in Nat
    BY <2>1, <2>2 DEF Swimming
  <2> HIDE DEF S, s, t
  <2>4. t.k <= k - i \/ ~Rises(key, t)
    BY <1>1, <2>1, <2>2, <2>3
  <2>5. e[i] = t
    BY <1>5 DEF t, s
  <2> QED BY <2>2, <2>4, <2>5
<1>8. e[k] \in I[k]
  <2> HIDE DEF I
  <2>1. \A i \in 1 .. k : e[i - 1] \in I[i - 1] => e[i] \in I[i]
    BY <1>7
  <2>2. \A i \in 0 .. k : e[i] \in I[i]
    BY <1>1, <1>6, <2>1, LoopInvariant
  <2> QED BY <1>1, <2>2
<1> DEFINE r == e[k].pq
           l == e[k].k
<1>9. PQ!Swim(key, h, k) = r
  BY SwimIsLoop DEF e
<1>10. /\ r \in Seq(D) /\ Len(r) = n /\ Holds(r, T) /\ l \in 1 .. n /\ RisesAt(key, r, l)
       /\ ~(l > 1 /\ PQ!Greater(key, r, l \div 2, l))
  BY <1>1, <1>8 DEF Swimming, Rises
<1> HIDE DEF r, l, n
<1>11. Ordered(key, r)
  <2> SUFFICES ASSUME NEW i \in 2 .. n PROVE key[r[i \div 2]] <= key[r[i]]
    BY <1>10 DEF Ordered
  <2>1. CASE i = l
    <3>1. i \div 2 \in 1 .. n /\ i \in 1 .. n
      BY <1>1, Half
    <3>2. key[r[i]] \in Int /\ key[r[i \div 2]] \in Int
      BY <1>10, <3>1, ElementOfSeq
    <3>3. ~(key[r[i \div 2]] > key[r[i]])
      BY <1>10, <2>1 DEF PQ!Greater
    <3> QED BY <3>2, <3>3
  <2>2. CASE i # l
    BY <1>10, <2>2 DEF RisesAt
  <2> QED BY <2>1, <2>2
<1> QED
  BY <1>9, <1>10, <1>11 DEF n

\* insert: the heap stays in order, with one more process, within its array.
LEMMA InsertKeeps ==
    ASSUME NEW D, NEW key \in [D -> Int], NEW T, NEW x \in D \ T,
           NEW self, self.pq \in Seq(D), Holds(self.pq, T), Ordered(key, self.pq),
           self.length \in Nat, self.length >= 2, Len(self.pq) < self.length
    PROVE  /\ PQ!Insert(key, self, x) \in [pq : Seq(D), length : Nat]
           /\ Holds(PQ!Insert(key, self, x).pq, T \union {x})
           /\ Ordered(key, PQ!Insert(key, self, x).pq)
           /\ PQ!Insert(key, self, x).length >= 2
           /\ Len(PQ!Insert(key, self, x).pq) < PQ!Insert(key, self, x).length
<1> DEFINE h == self.pq
           n == Len(h)
           a == Append(h, x)
           r == PQ!Insert(key, self, x)
<1>1. /\ n \in Nat /\ a \in Seq(D) /\ Len(a) = n + 1 /\ a[n + 1] = x
      /\ \A i \in 1 .. n : a[i] = h[i]
  BY AppendProperties
<1>2. Holds(a, T \union {x})
  BY AppendQueue DEF Holds
<1>3. RisesAt(key, a, n + 1)
  <2> SUFFICES ASSUME NEW i \in 2 .. n + 1
               PROVE  /\ i # n + 1 => key[a[i \div 2]] <= key[a[i]]
                      /\ i \div 2 # n + 1
    BY <1>1 DEF RisesAt
  <2>1. i \div 2 \in 1 .. n
    BY <1>1, Half
  <2>2. i # n + 1 => i \in 2 .. n
    BY <1>1
  <2> QED BY <1>1, <2>1, <2>2 DEF Ordered
<1>4. /\ r.pq = PQ!Swim(key, a, n + 1)
      /\ r.length = IF n = self.length - 1 THEN 2 * self.length ELSE self.length
      /\ r = [pq |-> r.pq, length |-> r.length]
  BY DEF PQ!Insert
<1>5. n + 1 \in 1 .. Len(a)
  BY <1>1
<1> HIDE DEF a, r, n, h
<1>6. /\ r.pq \in Seq(D) /\ Len(r.pq) = Len(a) /\ Holds(r.pq, T \union {x})
      /\ Ordered(key, r.pq)
  BY <1>1, <1>2, <1>3, <1>4, <1>5, SwimOrders
<1>7. n < self.length
  BY DEF n, h
<1>8. r.length \in Nat /\ r.length >= 2 /\ n + 1 < r.length
  <2>1. CASE n = self.length - 1
    BY <1>1, <1>4, <1>7, <2>1
  <2>2. CASE n # self.length - 1
    BY <1>1, <1>4, <1>7, <2>2
  <2> QED BY <2>1, <2>2
<1> QED
  BY <1>1, <1>4, <1>6, <1>8 DEF r

\* In order but for the element at k, which may be too large for its place.
SinksAt(key, h, k) ==
    /\ \A i \in 2 .. Len(h) : i \div 2 # k => key[h[i \div 2]] <= key[h[i]]
    /\ \A i \in 2 .. Len(h) : i \div 2 = k /\ k > 1 => key[h[k \div 2]] <= key[h[i]]

\* What sink starts and goes on with.
Sinking(key, D, T, n) ==
    {s \in [pq : Seq(D), k : Nat \ {0}] :
        Len(s.pq) = n /\ Holds(s.pq, T) /\ SinksAt(key, s.pq, s.k)}

Sinks(key, s) ==
    2 * s.k <= Len(s.pq) /\ PQ!Greater(key, s.pq, s.k, PQ!Child(key, s.pq, s.k))

\* The child that sink compares with is a least one.
LEMMA ChildIs ==
    ASSUME NEW D, NEW key \in [D -> Int], NEW h \in Seq(D), NEW k \in Nat \ {0},
           2 * k <= Len(h)
    PROVE  /\ PQ!Child(key, h, k) \in Nat /\ PQ!Child(key, h, k) \in 2 .. Len(h)
           /\ PQ!Child(key, h, k) \div 2 = k /\ PQ!Child(key, h, k) > k
           /\ \A i \in 2 .. Len(h) : i \div 2 = k => key[h[PQ!Child(key, h, k)]] <= key[h[i]]
<1> DEFINE n == Len(h)
           l == 2 * k
           m == 2 * k + 1
<1>1. n \in Nat /\ l \in 2 .. n /\ l \div 2 = k /\ m \div 2 = k /\ l > k /\ m > k /\ m \in Nat
  OBVIOUS
<1>2. \A i \in 1 .. n : key[h[i]] \in Int
  BY ElementOfSeq
<1>3. \A i \in 2 .. n : i \div 2 = k => i = l \/ i = m
  <2> SUFFICES ASSUME NEW i \in 2 .. n, i \div 2 = k PROVE i = l \/ i = m
    OBVIOUS
  <2> QED BY Half
<1>4. PQ!Child(key, h, k) = IF l < n /\ key[h[l]] > key[h[m]] THEN m ELSE l
  BY DEF PQ!Child, PQ!Greater
<1> HIDE DEF l, m, n
<1>5. CASE l < n /\ key[h[l]] > key[h[m]]
  <2>1. m \in 2 .. n /\ PQ!Child(key, h, k) = m
    BY <1>1, <1>4, <1>5 DEF l, m
  <2>2. key[h[l]] \in Int /\ key[h[m]] \in Int
    BY <1>1, <1>2, <2>1
  <2>3. \A i \in 2 .. n : i \div 2 = k => key[h[m]] <= key[h[i]]
    BY <1>3, <1>5, <2>2
  <2> QED BY <1>1, <2>1, <2>3 DEF n
<1>6. CASE ~(l < n /\ key[h[l]] > key[h[m]])
  <2>1. PQ!Child(key, h, k) = l
    BY <1>4, <1>6
  <2>2. ASSUME NEW i \in 2 .. n, i \div 2 = k PROVE key[h[l]] <= key[h[i]]
    <3>1. key[h[l]] \in Int /\ key[h[i]] \in Int
      BY <1>1, <1>2
    <3>2. CASE i = l
      BY <3>1, <3>2
    <3>3. CASE i = m
      <4>1. l < n
        BY <1>1, <3>3 DEF l, m
      <4> QED BY <1>6, <3>1, <3>3, <4>1
    <3> QED BY <1>3, <2>2, <3>2, <3>3
  <2> QED BY <1>1, <2>1, <2>2 DEF n
<1> QED
  BY <1>5, <1>6

\* An exchange with the child.
LEMMA SinkTurnKeeps ==
    ASSUME NEW D, NEW key \in [D -> Int], NEW T, NEW n \in Nat,
           NEW s \in Sinking(key, D, T, n)
    PROVE  /\ PQ!SinkTurn(key, s) \in Sinking(key, D, T, n)
           /\ Sinks(key, s) => PQ!SinkTurn(key, s).k > s.k
           /\ ~Sinks(key, s) => PQ!SinkTurn(key, s) = s
<1> DEFINE h == s.pq
           k == s.k
           j == PQ!Child(key, h, k)
           g == PQ!Swap(h, k, j)
           t == [pq |-> g, k |-> j]
<1>1. /\ h \in Seq(D) /\ Len(h) = n /\ Holds(h, T) /\ k \in Nat \ {0} /\ SinksAt(key, h, k)
  BY DEF Sinking
<1>2. CASE Sinks(key, s)
  <2>1. 2 * k <= n /\ key[h[k]] > key[h[j]]
    BY <1>1, <1>2 DEF Sinks, PQ!Greater
  <2>2. PQ!SinkTurn(key, s) = t
    BY <1>2 DEF Sinks, PQ!SinkTurn
  <2>3. /\ j \in Nat /\ j \in 2 .. n /\ j \div 2 = k /\ j > k
        /\ \A i \in 2 .. n : i \div 2 = k => key[h[j]] <= key[h[i]]
    <3> HIDE DEF h, k
    <3>1. 2 * k <= Len(h)
      BY <1>1, <2>1
    <3> QED BY <1>1, <3>1, ChildIs
  <2>4. k \in 1 .. Len(h) /\ j \in 1 .. Len(h)
    BY <1>1, <2>1, <2>3
  <2> HIDE DEF h, k, j
  <2>5. /\ g \in Seq(D) /\ Len(g) = Len(h) /\ g[k] = h[j] /\ g[j] = h[k]
        /\ \A l \in 1 .. Len(h) : l # k /\ l # j => g[l] = h[l]
    <3>1. h \in Seq(D)
      BY <1>1
    <3> QED BY <2>4, <3>1, SwapHolds
  <2>6. Holds(g, T)
    <3>1. Holds(h, T) => Holds(g, T)
      BY <1>1, <2>4, SwapHolds
    <3> QED BY <1>1, <3>1
  <2> HIDE DEF g
  <2>7. \A l \in 1 .. n : key[h[l]] \in Int
    BY <1>1, ElementOfSeq
  <2>8. ASSUME NEW i \in 2 .. n, i \div 2 # j PROVE key[g[i \div 2]] <= key[g[i]]
    <3> DEFINE u == i \div 2
    <3>1. u \in 1 .. n /\ u # i
      BY <1>1, Half
    <3>2. u # k => key[h[u]] <= key[h[i]]
      BY <1>1 DEF SinksAt
    <3>3. u = k => key[h[j]] <= key[h[i]]
      BY <2>3
    <3>4. i = k => key[h[u]] <= key[h[j]]
      BY <1>1, <2>3 DEF SinksAt
    <3>5. i = j => u = k
      BY <2>3
    <3>6. u # j
      BY <2>8
    <3> SUFFICES key[g[u]] <= key[g[i]]
      OBVIOUS
    <3> HIDE DEF u
    <3>7. CASE i = j
      <4>1. key[h[k]] \in Int /\ key[h[j]] \in Int
        BY <1>1, <2>4, <2>7
      <4> QED BY <2>1, <2>5, <3>5, <3>7, <4>1
    <3>8. CASE i # j /\ u = k
      <4>1. i # k
        BY <3>1, <3>8
      <4> QED BY <1>1, <2>5, <3>3, <3>8, <4>1
    <3>9. CASE i = k
      BY <1>1, <2>5, <3>1, <3>4, <3>6, <3>9
    <3>10. CASE i # j /\ i # k /\ u # k
      BY <1>1, <2>5, <3>1, <3>2, <3>6, <3>10
    <3> QED BY <3>7, <3>8, <3>9, <3>10
  <2>9. ASSUME NEW i \in 2 .. n, i \div 2 = j PROVE key[g[j \div 2]] <= key[g[i]]
    <3>1. i # j /\ i # k /\ i \in 1 .. n
      BY <2>3, <2>9, Half
    <3>2. key[h[j]] <= key[h[i]]
      BY <1>1, <2>3, <2>9 DEF SinksAt
    <3> QED BY <1>1, <2>3, <2>5, <3>1, <3>2
  <2>10. SinksAt(key, g, j)
    BY <1>1, <2>5, <2>8, <2>9 DEF SinksAt
  <2>11. t \in Sinking(key, D, T, n)
    BY <1>1, <2>3, <2>5, <2>6, <2>10 DEF Sinking
  <2> QED BY <1>2, <2>2, <2>3, <2>11 DEF k
<1>3. CASE ~Sinks(key, s)
  BY <1>3 DEF Sinks, PQ!SinkTurn
<1> QED
  BY <1>2, <1>3

SinkLoop(key, h, k, f) ==
    f = [i \in 0 .. Len(h) |->
           IF i = 0 THEN [pq |-> h, k |-> k] ELSE PQ!SinkTurn(key, f[i - 1])]

LEMMA SinkIsLoop ==
    \A key, h, k : PQ!Sink(key, h, k) = (CHOOSE f : SinkLoop(key, h, k, f))[Len(h)].pq
BY DEF PQ!Sink, SinkLoop

\* sink from the top puts a heap in order in which only the first element is not.
LEMMA SinkOrders ==
    ASSUME NEW D, NEW key \in [D -> Int], NEW T, NEW h \in Seq(D), Holds(h, T),
           SinksAt(key, h, 1)
    PROVE  /\ PQ!Sink(key, h, 1) \in Seq(D) /\ Len(PQ!Sink(key, h, 1)) = Len(h)
           /\ Holds(PQ!Sink(key, h, 1), T) /\ Ordered(key, PQ!Sink(key, h, 1))
<1> DEFINE n == Len(h)
           S == Sinking(key, D, T, n)
           base == [pq |-> h, k |-> 1]
           e == CHOOSE f : SinkLoop(key, h, 1, f)
<1>1. n \in Nat
  OBVIOUS
<1>2. base \in S
  BY <1>1 DEF Sinking
<1>3. \A s \in S : PQ!SinkTurn(key, s) \in S
  BY <1>1, SinkTurnKeeps
<1>4. SinkLoop(key, h, 1, e)
  <2> DEFINE turn == [s \in S |-> PQ!SinkTurn(key, s)]
             g == [i \in 1 .. n |-> turn]
  <2>1. turn \in [S -> S]
    BY <1>3
  <2>2. g \in LoopTurns(S, n)
    BY <2>1 DEF LoopTurns
  <2>3. \A i \in 1 .. n : \A s \in S : g[i][s] = PQ!SinkTurn(key, s)
    OBVIOUS
  <2> HIDE DEF S, base, g, n
  <2>4. PICK f : Loop(S, n, base, g, f)
    BY <1>1, <1>2, <2>2, LoopExists
  <2>5. f = [i \in 0 .. n |-> IF i = 0 THEN base ELSE PQ!SinkTurn(key, f[i - 1])]
    <3>1. /\ f \in [0 .. n -> S] /\ f[0] = base
          /\ \A i \in 1 .. n : f[i] = g[i][f[i - 1]]
      BY <2>4 DEF Loop
    <3>2. \A i \in 1 .. n : f[i] = PQ!SinkTurn(key, f[i - 1])
      BY <1>1, <2>3, <3>1
    <3> QED BY <1>1, <3>1, <3>2
  <2>6. SinkLoop(key, h, 1, f)
    BY <2>5 DEF SinkLoop, base, n
  <2> QED BY <2>6
<1> HIDE DEF e
<1>5. /\ e[0] = base
      /\ \A i \in 1 .. n : e[i] = PQ!SinkTurn(key, e[i - 1])
  <2>1. e = [i \in 0 .. n |-> IF i = 0 THEN base ELSE PQ!SinkTurn(key, e[i - 1])]
    BY <1>4 DEF SinkLoop
  <2> HIDE DEF n, base
  <2> QED BY <1>1, <2>1
<1> DEFINE I == [i \in 0 .. n |-> {s \in S : s.k > i \/ ~Sinks(key, s)}]
<1>6. e[0] \in I[0]
  BY <1>1, <1>2, <1>5
<1>7. ASSUME NEW i \in 1 .. n, e[i - 1] \in I[i - 1] PROVE e[i] \in I[i]
  <2> DEFINE s == e[i - 1]
             t == PQ!SinkTurn(key, s)
  <2>1. s \in S /\ (s.k > i - 1 \/ ~Sinks(key, s))
    BY <1>1, <1>7
  <2>2. t \in S /\ (Sinks(key, s) => t.k > s.k) /\ (~Sinks(key, s) => t = s)
    BY <1>1, <2>1, SinkTurnKeeps
  <2>3. s.k \in Nat /\ t.k \in Nat
    BY <2>1, <2>2 DEF Sinking
  <2> HIDE DEF S, s, t
  <2>4. t.k > i \/ ~Sinks(key, t)
    BY <1>1, <2>1, <2>2, <2>3
  <2>5. e[i] = t
    BY <1>5 DEF t, s
  <2> QED BY <2>2, <2>4, <2>5
<1>8. e[n] \in I[n]
  <2> HIDE DEF I
  <2>1. \A i \in 1 .. n : e[i - 1] \in I[i - 1] => e[i] \in I[i]
    BY <1>7
  <2>2. \A i \in 0 .. n : e[i] \in I[i]
    BY <1>1, <1>6, <2>1, LoopInvariant
  <2> QED BY <1>1, <2>2
<1> DEFINE r == e[n].pq
           l == e[n].k
<1>9. PQ!Sink(key, h, 1) = r
  BY SinkIsLoop DEF e
<1>10. /\ r \in Seq(D) /\ Len(r) = n /\ Holds(r, T) /\ l \in Nat \ {0} /\ SinksAt(key, r, l)
       /\ 2 * l <= n => ~PQ!Greater(key, r, l, PQ!Child(key, r, l))
  BY <1>1, <1>8 DEF Sinking, Sinks
<1> HIDE DEF r, l, n
<1>11. Ordered(key, r)
  <2> SUFFICES ASSUME NEW i \in 2 .. n PROVE key[r[i \div 2]] <= key[r[i]]
    BY <1>10 DEF Ordered
  <2>1. CASE i \div 2 = l
    <3> DEFINE c == PQ!Child(key, r, l)
    <3>1. 2 * l <= n /\ l \in 1 .. n
      BY <1>1, <1>10, <2>1, Half
    <3>2. c \in 2 .. n /\ key[r[c]] <= key[r[i]]
      BY <1>10, <2>1, <3>1, ChildIs
    <3>3. ~(key[r[l]] > key[r[c]])
      BY <1>10, <3>1 DEF PQ!Greater
    <3>4. key[r[l]] \in Int /\ key[r[c]] \in Int /\ key[r[i]] \in Int
      <4> HIDE DEF c
      <4>1. \A m \in 1 .. n : key[r[m]] \in Int
        BY <1>10, ElementOfSeq
      <4> QED BY <1>1, <3>1, <3>2, <4>1
    <3> HIDE DEF c
    <3> QED BY <2>1, <3>2, <3>3, <3>4
  <2>2. CASE i \div 2 # l
    BY <1>10, <2>2 DEF SinksAt
  <2> QED BY <2>1, <2>2
<1> QED
  BY <1>9, <1>10, <1>11 DEF n

\* delMin returns a least process of the heap; the others stay in order.
LEMMA DelMinKeeps ==
    ASSUME NEW D, NEW key \in [D -> Int], NEW T,
           NEW self, self.pq \in Seq(D), Holds(self.pq, T), Ordered(key, self.pq),
           self.length \in Nat, self.length >= 2, Len(self.pq) < self.length,
           self.pq # << >>
    PROVE  /\ PQ!Min(self) \in T /\ PQ!Min(self) \in D
           /\ \A x \in T : key[PQ!Min(self)] <= key[x]
           /\ PQ!DelMin(key, self) \in [pq : Seq(D), length : Nat]
           /\ Holds(PQ!DelMin(key, self).pq, T \ {PQ!Min(self)})
           /\ Ordered(key, PQ!DelMin(key, self).pq)
           /\ PQ!DelMin(key, self).length >= 2
           /\ Len(PQ!DelMin(key, self).pq) < PQ!DelMin(key, self).length
<1> DEFINE h == self.pq
           n == Len(h) - 1
           w == PQ!Swap(h, 1, n + 1)
           v == SubSeq(w, 1, n)
           r == PQ!DelMin(key, self)
<1>1. /\ h \in Seq(D) /\ n \in Nat /\ Len(h) = n + 1 /\ DOMAIN h = 1 .. n + 1
      /\ 1 \in 1 .. Len(h) /\ n + 1 \in 1 .. Len(h)
  BY EmptySeq
<1>2. PQ!Min(self) = h[1]
  BY DEF PQ!Min
<1>3. /\ r.pq = PQ!Sink(key, v, 1)
      /\ r.length = IF n > 0 /\ n = (self.length - 1) \div 4 THEN self.length \div 2
                    ELSE self.length
      /\ r = [pq |-> r.pq, length |-> r.length]
  BY DEF PQ!DelMin
<1>4. /\ ToSet(h) = T /\ T = {h[i] : i \in 1 .. n + 1}
      /\ h[1] \in T /\ h[1] \in D
  BY <1>1, ElementOfSeq DEF Holds, ToSet
<1>5. \A x \in T : key[h[1]] <= key[x]
  <2>1. \A i \in 1 .. Len(h) : key[h[1]] <= key[h[i]]
    BY <1>1, FirstIsLeast
  <2> QED BY <1>1, <1>4, <2>1
<1>a. Holds(h, T) /\ Ordered(key, h) /\ n + 1 < self.length
  BY <1>1
<1> DEFINE m == n + 1
<1> HIDE DEF r, n, h
<1>b. m \in 1 .. Len(h) /\ 1 \in 1 .. Len(h) /\ h \in Seq(D)
  BY <1>1
<1>6. /\ w \in Seq(D) /\ Len(w) = n + 1 /\ w[1] = h[n + 1] /\ w[n + 1] = h[1]
      /\ \A i \in 1 .. n + 1 : i # 1 /\ i # n + 1 => w[i] = h[i]
      /\ Holds(w, T)
  <2> SUFFICES /\ PQ!Swap(h, 1, m) \in Seq(D) /\ Len(PQ!Swap(h, 1, m)) = Len(h)
               /\ PQ!Swap(h, 1, m)[1] = h[m] /\ PQ!Swap(h, 1, m)[m] = h[1]
               /\ \A i \in 1 .. Len(h) : i # 1 /\ i # m => PQ!Swap(h, 1, m)[i] = h[i]
               /\ Holds(PQ!Swap(h, 1, m), T)
    BY <1>1
  <2> HIDE DEF m
  <2>1. \A i, j \in 1 .. Len(h) :
           /\ PQ!Swap(h, i, j) \in Seq(D) /\ Len(PQ!Swap(h, i, j)) = Len(h)
           /\ PQ!Swap(h, i, j)[i] = h[j] /\ PQ!Swap(h, i, j)[j] = h[i]
           /\ \A l \in 1 .. Len(h) : l # i /\ l # j => PQ!Swap(h, i, j)[l] = h[l]
           /\ Holds(PQ!Swap(h, i, j), T)
    <3>1. h \in Seq(D)
      BY <1>b
    <3> QED BY <1>a, <3>1, SwapsHold
  <2> QED BY <1>a, <1>b, <2>1
<1>7. Holds(w, T)
  BY <1>6
<1> HIDE DEF w
<1>8. /\ v \in Seq(D) /\ Len(v) = n /\ DOMAIN v = 1 .. n
      /\ \A i \in 1 .. n : v[i] = w[i]
  <2>1. \A i \in 1 .. n : w[i] \in D
    BY <1>1, <1>6, ElementOfSeq
  <2>2. 1 \in Int /\ n \in Int
    BY <1>1
  <2>3. /\ v \in Seq(D)
        /\ Len(v) = IF 1 <= n THEN n - 1 + 1 ELSE 0
        /\ \A i \in 1 .. n - 1 + 1 : v[i] = w[1 + i - 1]
    BY <2>1, <2>2, SubSeqProperties
  <2> HIDE DEF v
  <2>4. Len(v) = n
    BY <1>1, <2>3
  <2>5. \A i \in 1 .. n : v[i] = w[i]
    <3> SUFFICES ASSUME NEW i \in 1 .. n PROVE v[i] = w[i]
      OBVIOUS
    <3>1. i \in 1 .. n - 1 + 1 /\ 1 + i - 1 = i
      BY <1>1
    <3> QED BY <2>3, <3>1
  <2> QED BY <2>3, <2>4, <2>5
<1> HIDE DEF v
<1>9. Holds(v, T \ {h[1]})
  <2>a. DOMAIN w = 1 .. n + 1
    BY <1>6
  <2>1. \A a, b \in 1 .. n + 1 : w[a] = w[b] => a = b
    BY <1>7, <2>a DEF Holds, IsInjective
  <2>b. \A a \in 1 .. n : a \in 1 .. n + 1
    BY <1>1
  <2>2. \A a, b \in 1 .. n : v[a] = v[b] => a = b
    BY <1>8, <2>1, <2>b
  <2>3. ToSet(v) = {w[i] : i \in 1 .. n}
    BY <1>8 DEF ToSet
  <2>4. T = {w[i] : i \in 1 .. n + 1}
    BY <1>6, <1>7 DEF Holds, ToSet
  <2>5. \A i \in 1 .. n : w[i] # w[n + 1]
    BY <1>1, <2>1
  <2>6. \A i \in 1 .. n + 1 : i \in 1 .. n \/ i = n + 1
    BY <1>1
  <2>7. {w[i] : i \in 1 .. n} = T \ {w[n + 1]}
    BY <1>1, <2>4, <2>5, <2>6
  <2> QED BY <1>6, <1>8, <2>2, <2>3, <2>7 DEF Holds, IsInjective
<1>10. SinksAt(key, v, 1)
  <2> SUFFICES ASSUME NEW i \in 2 .. n, i \div 2 # 1 PROVE key[v[i \div 2]] <= key[v[i]]
    BY <1>1, <1>8 DEF SinksAt
  <2> DEFINE u == i \div 2
  <2>1. u \in 2 .. n /\ i \in 2 .. n + 1
    BY <1>1, Half
  <2>2. key[h[u]] <= key[h[i]]
    BY <1>1, <1>a, <2>1 DEF Ordered
  <2> SUFFICES key[v[u]] <= key[v[i]]
    OBVIOUS
  <2> HIDE DEF u
  <2>3. v[u] = h[u] /\ v[i] = h[i]
    BY <1>1, <1>6, <1>8, <2>1
  <2> QED BY <2>2, <2>3
<1>11. /\ r.pq \in Seq(D) /\ Len(r.pq) = n /\ Holds(r.pq, T \ {h[1]}) /\ Ordered(key, r.pq)
  <2> DEFINE R == T \ {h[1]}
             s == PQ!Sink(key, v, 1)
  <2>1. v \in Seq(D) /\ Holds(v, R) /\ SinksAt(key, v, 1)
    BY <1>8, <1>9, <1>10
  <2> HIDE DEF R
  <2>2. s \in Seq(D) /\ Len(s) = Len(v) /\ Holds(s, R) /\ Ordered(key, s)
    BY <2>1, SinkOrders
  <2> QED BY <1>3, <1>8, <2>2 DEF R
<1>12. r.length \in Nat /\ r.length >= 2 /\ n < r.length
  <2>1. n + 1 < self.length
    BY <1>a
  <2>2. CASE n > 0 /\ n = (self.length - 1) \div 4
    <3> DEFINE l == self.length
    <3>1. l \in Nat /\ l >= 2 /\ r.length = l \div 2 /\ n >= 1 /\ n = (l - 1) \div 4
      BY <1>1, <1>3, <2>2
    <3> HIDE DEF l
    <3>2. l - 1 = 4 * n + ((l - 1) % 4) /\ (l - 1) % 4 \in 0 .. 3
      BY <3>1
    <3>3. l = 2 * (l \div 2) + (l % 2) /\ l % 2 \in 0 .. 1 /\ l \div 2 \in Nat
      BY <3>1
    <3>4. l \div 2 >= 2 * n
      BY <1>1, <3>2, <3>3
    <3> QED BY <1>1, <3>1, <3>3, <3>4
  <2>3. CASE ~(n > 0 /\ n = (self.length - 1) \div 4)
    BY <1>1, <1>3, <2>1, <2>3
  <2> QED BY <2>2, <2>3
<1>13. r \in [pq : Seq(D), length : Nat]
  BY <1>3, <1>11, <1>12
<1> QED
  BY <1>2, <1>4, <1>5, <1>11, <1>12, <1>13 DEF r

-----------------------------------------------------------------------------
(* The trace *)

Jobs == [t0 : Nat, dt : Nat \ {0}, nLine : Procs]
Lines == [t0 : Nat, dt : Nat \ {0}]

\* The array while it is filled.
Arrays == [v : Seq([t0 : Nat, dt : Nat \ {0}, nLine : Nat]), size : Nat]

ReadLoop(trace, f) ==
    f = [n \in 0 .. Len(trace) |->
           IF n = 0 THEN Empty ELSE InsertProcArray(f[n - 1], trace[n])]

LEMMA ReadIsLoop == \A trace : Read(trace) = (CHOOSE f : ReadLoop(trace, f))[Len(trace)]
BY DEF Read, ReadLoop

LEMMA InsertProcArrayKeeps ==
    ASSUME NEW s \in Arrays, NEW line \in Lines
    PROVE  /\ InsertProcArray(s, line) \in Arrays
           /\ Len(InsertProcArray(s, line).v) = Len(s.v) + 1
           /\ \A i \in 1 .. Len(s.v) : InsertProcArray(s, line).v[i] = s.v[i]
           /\ InsertProcArray(s, line).v[Len(s.v) + 1] = Process(line.t0, line.dt, Len(s.v) + 1)
<1> DEFINE h == s.v
           x == Process(line.t0, line.dt, Len(h) + 1)
           J == [t0 : Nat, dt : Nat \ {0}, nLine : Nat]
           t == InsertProcArray(s, line)
<1>1. h \in Seq(J) /\ s.size \in Nat /\ Len(h) \in Nat
  BY DEF Arrays
<1>2. x \in J
  BY <1>1 DEF Lines, Process
<1>3. /\ t.v = Append(h, x) /\ t = [v |-> t.v, size |-> t.size]
      /\ t.size = IF Len(h) >= s.size THEN 2 * s.size ELSE s.size
  BY DEF InsertProcArray
<1>4. t.size \in Nat
  BY <1>1, <1>3
<1> HIDE DEF h, x, J, t
<1>5. /\ Append(h, x) \in Seq(J) /\ Len(Append(h, x)) = Len(h) + 1
      /\ \A i \in 1 .. Len(h) : Append(h, x)[i] = h[i]
      /\ Append(h, x)[Len(h) + 1] = x
  BY <1>1, <1>2, AppendProperties
<1>6. t \in Arrays
  BY <1>3, <1>4, <1>5 DEF Arrays, J
<1> QED
  BY <1>3, <1>5, <1>6 DEF h, x, t

\* Line i becomes process i.
LEMMA ReadIs ==
    ASSUME NEW trace \in [Procs -> Lines]
    PROVE  /\ Read(trace) \in Arrays /\ Len(Read(trace).v) = NumProcs
           /\ \A i \in Procs : Read(trace).v[i] = Process(trace[i].t0, trace[i].dt, i)
<1> DEFINE n == Len(trace)
           e == CHOOSE f : ReadLoop(trace, f)
<1>1. n = NumProcs /\ n \in Nat /\ Procs = 1 .. n
  BY SJFAssumption DEF Procs
<1>2. Empty \in Arrays /\ Empty.v = << >>
  BY EmptySeq DEF Empty, Arrays
<1>3. \A i \in 1 .. n : trace[i] \in Lines
  BY <1>1
<1> HIDE DEF n
<1>4. ReadLoop(trace, e)
  <2> DEFINE turn(i) == [s \in Arrays |-> InsertProcArray(s, trace[i])]
             g == [i \in 1 .. n |-> turn(i)]
  <2>1. \A i \in 1 .. n : turn(i) \in [Arrays -> Arrays]
    BY <1>3, InsertProcArrayKeeps
  <2>2. g \in LoopTurns(Arrays, n)
    <3> HIDE DEF turn
    <3> QED BY <2>1 DEF LoopTurns
  <2>3. \A i \in 1 .. n : \A s \in Arrays : g[i][s] = InsertProcArray(s, trace[i])
    OBVIOUS
  <2> HIDE DEF g
  <2>4. PICK f : Loop(Arrays, n, Empty, g, f)
    BY <1>1, <1>2, <2>2, LoopExists
  <2>5. f = [i \in 0 .. n |-> IF i = 0 THEN Empty ELSE InsertProcArray(f[i - 1], trace[i])]
    <3>1. /\ f \in [0 .. n -> Arrays] /\ f[0] = Empty
          /\ \A i \in 1 .. n : f[i] = g[i][f[i - 1]]
      BY <2>4 DEF Loop
    <3>2. \A i \in 1 .. n : f[i] = InsertProcArray(f[i - 1], trace[i])
      BY <1>1, <2>3, <3>1
    <3> QED BY <1>1, <3>1, <3>2
  <2>6. ReadLoop(trace, f)
    BY <2>5 DEF ReadLoop, n
  <2> QED BY <2>6
<1> HIDE DEF e
<1>5. /\ e[0] = Empty
      /\ \A i \in 1 .. n : e[i] = InsertProcArray(e[i - 1], trace[i])
  <2>1. e = [i \in 0 .. n |-> IF i = 0 THEN Empty ELSE InsertProcArray(e[i - 1], trace[i])]
    BY <1>4 DEF ReadLoop, n
  <2> QED BY <1>1, <2>1
<1> DEFINE Done(s, i) == /\ Len(s.v) = i
                         /\ \A j \in 1 .. i : s.v[j] = Process(trace[j].t0, trace[j].dt, j)
           I == [i \in 0 .. n |-> {s \in Arrays : Done(s, i)}]
<1>6. e[0] \in I[0]
  <2>1. Done(Empty, 0)
    BY <1>2, EmptySeq
  <2> QED BY <1>1, <1>2, <1>5, <2>1
<1>7. ASSUME NEW i \in 1 .. n, e[i - 1] \in I[i - 1] PROVE e[i] \in I[i]
  <2> DEFINE s == e[i - 1]
             line == trace[i]
             t == InsertProcArray(s, line)
  <2>1. s \in Arrays /\ Len(s.v) = i - 1
        /\ \A j \in 1 .. i - 1 : s.v[j] = Process(trace[j].t0, trace[j].dt, j)
    BY <1>1, <1>7
  <2>2. line \in Lines
    BY <1>3
  <2> HIDE DEF s, line
  <2>3. /\ t \in Arrays /\ Len(t.v) = Len(s.v) + 1
        /\ \A j \in 1 .. Len(s.v) : t.v[j] = s.v[j]
        /\ t.v[Len(s.v) + 1] = Process(line.t0, line.dt, Len(s.v) + 1)
    BY <2>1, <2>2, InsertProcArrayKeeps
  <2>4. e[i] = t
    BY <1>5 DEF s, line
  <2> HIDE DEF t
  <2>5. Len(t.v) = i
    BY <1>1, <2>1, <2>3
  <2>6. ASSUME NEW j \in 1 .. i PROVE t.v[j] = Process(trace[j].t0, trace[j].dt, j)
    <3>1. CASE j = i
      <4>1. Len(s.v) + 1 = i
        BY <1>1, <2>1
      <4> QED BY <2>3, <3>1, <4>1 DEF line
    <3>2. CASE j # i
      <4>1. j \in 1 .. i - 1
        BY <1>1, <3>2
      <4> QED BY <2>1, <2>3, <4>1
    <3> QED BY <3>1, <3>2
  <2> QED BY <1>1, <2>3, <2>4, <2>5, <2>6
<1>8. e[n] \in I[n]
  <2> HIDE DEF I
  <2>1. \A i \in 1 .. n : e[i - 1] \in I[i - 1] => e[i] \in I[i]
    BY <1>7
  <2>2. \A i \in 0 .. n : e[i] \in I[i]
    BY <1>1, <1>6, <2>1, LoopInvariant
  <2> QED BY <1>1, <2>2
<1>9. Read(trace) = e[n]
  BY ReadIsLoop DEF e, n
<1> QED
  BY <1>1, <1>8, <1>9

\* A function that gives no value twice has as many values as arguments.
LEMMA RangeSize ==
    ASSUME NEW S, IsFiniteSet(S), NEW T, NEW f \in [S -> T], IsInjective(f)
    PROVE  IsFiniteSet(Range(f)) /\ Cardinality(Range(f)) = Cardinality(S)
<1>1. f \in Bijection(S, Range(f))
  BY DEF Bijection, Injection, Surjection, Range
<1>2. ExistsBijection(S, Range(f))
  BY <1>1 DEF ExistsBijection
<1> QED
  BY <1>2, FS_Bijection

\* What the sequences of SetToSeqs are.
LEMMA ListingIs ==
    ASSUME NEW S, IsFiniteSet(S), NEW u \in SetToSeqs(S)
    PROVE  /\ u \in [1 .. Cardinality(S) -> S] /\ IsInjective(u)
           /\ \A x \in S : \E i \in 1 .. Cardinality(S) : u[i] = x
<1> DEFINE I == 1 .. Cardinality(S)
<1>1. u \in [I -> S] /\ \A i, j \in I : i # j => u[i] # u[j]
  BY DEF SetToSeqs
<1>2. IsInjective(u)
  BY <1>1 DEF IsInjective
<1>3. Cardinality(S) \in Nat
  BY FS_CardinalityType
<1>4. IsFiniteSet(I) /\ Cardinality(I) = Cardinality(S)
  BY <1>3, FS_Interval
<1> HIDE DEF I
<1>5. u \in Injection(I, S)
  BY <1>1, <1>2 DEF Injection
<1>6. u \in Surjection(I, S)
  BY <1>4, <1>5, FS_Injection
<1> QED
  BY <1>1, <1>2, <1>6 DEF Surjection, I

\* What main hands over: the processes of one of the traces, each with its own line.
LEMMA ReadyJobsAre ==
    ASSUME NEW q \in ReadyJobs(Traces)
    PROVE  /\ q.v \in [Procs -> Jobs]
           /\ \A i, j \in Procs : q.v[i].nLine = q.v[j].nLine => i = j
<1>1. PICK trace \in Traces : q \in CreateProcArray(trace)
  BY DEF ReadyJobs
<1>2. trace \in [Procs -> Lines]
  BY SJFAssumption DEF Procs, Lines
<1> DEFINE a == Read(trace)
           S == ToSet(a.v)
<1>3. PICK u \in SetToSeqs(S) : q = [a EXCEPT !.v = u]
  BY <1>1 DEF CreateProcArray
<1>4. /\ a \in Arrays /\ Len(a.v) = NumProcs
      /\ \A i \in Procs : a.v[i] = Process(trace[i].t0, trace[i].dt, i)
  BY <1>2, ReadIs
<1>5. q.v = u
  BY <1>3, <1>4 DEF Arrays
<1>6. DOMAIN a.v = Procs /\ NumProcs \in Nat /\ a.v = [i \in Procs |-> a.v[i]]
  BY <1>4, SJFAssumption DEF Arrays, Procs
<1>7. \A i \in Procs : a.v[i] \in Jobs /\ a.v[i].nLine = i
  <2> TAKE i \in Procs
  <2>1. trace[i] \in Lines
    BY <1>2
  <2>2. trace[i].t0 \in Nat /\ trace[i].dt \in Nat \ {0}
    BY <2>1 DEF Lines
  <2>3. a.v[i] = [t0 |-> trace[i].t0, dt |-> trace[i].dt, nLine |-> i]
    BY <1>4 DEF Process
  <2> QED BY <2>2, <2>3 DEF Jobs
<1> DEFINE h == a.v
<1>8. h \in [Procs -> Jobs] /\ IsInjective(h)
  BY <1>6, <1>7 DEF IsInjective
<1>9. S = Range(h)
  BY DEF Range, ToSet
<1>10. IsFiniteSet(Procs) /\ Cardinality(Procs) = NumProcs
  BY <1>6, FS_Interval DEF Procs
<1>11. IsFiniteSet(S) /\ Cardinality(S) = NumProcs
  <2> HIDE DEF h, S
  <2> QED BY <1>8, <1>9, <1>10, RangeSize
<1>12. \A x \in S : x \in Jobs /\ h[x.nLine] = x
  BY <1>6, <1>7 DEF ToSet
<1> HIDE DEF h, S, a
<1>13. u \in [Procs -> S] /\ IsInjective(u)
  <2>1. u \in [1 .. Cardinality(S) -> S] /\ IsInjective(u)
    BY <1>3, <1>11, ListingIs
  <2> QED BY <1>11, <2>1 DEF Procs
<1>14. ASSUME NEW i \in Procs, NEW j \in Procs, u[i].nLine = u[j].nLine PROVE i = j
  <2>1. u[i] = u[j]
    BY <1>12, <1>13, <1>14
  <2> QED BY <1>13, <2>1 DEF IsInjective
<1>15. u \in [Procs -> Jobs]
  BY <1>12, <1>13
<1> QED
  BY <1>5, <1>14, <1>15

-----------------------------------------------------------------------------
(* The invariant *)

LEMMA Finite ==
    /\ NumProcs \in Nat \ {0} /\ NumCPU \in Nat \ {0}
    /\ IsFiniteSet(Procs) /\ Cardinality(Procs) = NumProcs
    /\ IsFiniteSet(Cores) /\ Cardinality(Cores) = NumCPU
<1>1. NumProcs \in Nat \ {0} /\ NumCPU \in Nat \ {0}
  BY SJFAssumption
<1>2. \A n \in Nat \ {0} : IsFiniteSet(1 .. n) /\ Cardinality(1 .. n) = n
  <2> TAKE n \in Nat \ {0}
  <2>1. 1 \in Int /\ n \in Int
    OBVIOUS
  <2> QED BY <2>1, FS_Interval
<1> QED
  BY <1>1, <1>2 DEF Procs, Cores

LEMMA DtType == TypeOK => Dt \in [Procs -> Int] /\ \A q \in Procs : Dt[q] = pQueue.v[q].dt
BY DEF TypeOK, Dt

Stages == {"test", "admit", "lock", "assign", "check", "wait", "waiting", "collect",
           "join", "write", "free", "main", "done", "crash"}

LEMMA InitIInv == Init => IInv
<1> SUFFICES ASSUME Init PROVE IInv
  OBVIOUS
<1>1. NumProcs \in Nat \ {0} /\ NumCPU \in Nat \ {0} /\ 1 \in Procs
  BY Finite DEF Procs
<1>2. /\ pQueue.v \in [Procs -> Jobs]
      /\ \A q, r \in Procs : pQueue.v[q].nLine = pQueue.v[r].nLine => q = r
  BY ReadyJobsAre DEF Init
<1>3. Dt \in [Procs -> Int]
  BY <1>2 DEF Dt, Jobs
<1>4. /\ pPQ \in [pq : Seq(Procs), length : Nat] /\ Holds(pPQ.pq, {1}) /\ Ordered(Dt, pPQ.pq)
      /\ pPQ.length >= 2 /\ Len(pPQ.pq) < pPQ.length
  <2> DEFINE self == PQ!New
             x == 1
             r == PQ!Insert(Dt, self, x)
  <2>1. /\ self.pq \in Seq(Procs) /\ Holds(self.pq, {}) /\ Ordered(Dt, self.pq)
        /\ self.length \in Nat /\ self.length >= 2 /\ Len(self.pq) < self.length
    <3>1. self.pq = << >> /\ self.length = 2
      BY DEF PQ!New
    <3> HIDE DEF self
    <3>2. Len(self.pq) = 0 /\ self.pq \in Seq(Procs) /\ DOMAIN self.pq = {}
      BY <3>1, EmptySeq
    <3> QED BY <3>1, <3>2 DEF Holds, IsInjective, ToSet, Ordered
  <2>2. x \in Procs \ {}
    BY <1>1
  <2>3. pPQ = r
    BY DEF Init
  <2> HIDE DEF self, x
  <2>4. /\ r \in [pq : Seq(Procs), length : Nat] /\ Holds(r.pq, {} \union {x})
        /\ Ordered(Dt, r.pq) /\ r.length >= 2 /\ Len(r.pq) < r.length
    BY <1>3, <2>1, <2>2, InsertKeeps
  <2> QED BY <2>3, <2>4 DEF x
<1>5. IsInjective(pPQ.pq) /\ Queued = {1}
  BY <1>4 DEF Holds, Queued
<1>6. TypeOK
  <2>1. /\ arrived \in 1 .. NumProcs /\ CPU \subseteq Cores /\ coreCPU \in [Cores -> Ids]
        /\ idleCPU \in 0 .. NumCPU /\ outLine \in 0 .. NumProcs
    <3>1. arrived = 1 /\ CPU = {} /\ coreCPU \in [Cores -> Ids] /\ idleCPU = NumCPU /\ outLine = 0
      BY DEF Init
    <3> QED BY <1>1, <3>1
  <2>b. missed \in BOOLEAN
    BY DEF Init
  <2>a. stage \in Stages \X (0 .. NumCPU) /\ outfile \in Seq(Procs)
    BY <1>1, EmptySeq DEF Init, Stages
  <2>2. /\ pool \in [Cores -> Procs \union {None}]
        /\ outInfo \in [Procs -> OutputData \union {NULL}]
        /\ id \in [Procs -> Ids \union {None}] /\ p \in [Procs -> Procs \union {None}]
    BY DEF Init
  <2>3. pc \in [Procs -> {"none", "start", "work", "idle", "output", "signal", "exit", "end"}]
    BY DEF Init
  <2> QED BY <1>2, <1>4, <2>1, <2>a, <2>b, <2>2, <2>3 DEF TypeOK, Jobs, Stages
<1>7. HeapOK
  BY <1>4, <1>5 DEF Init, HeapOK
<1>8. ThreadOK
  <2>1. \A t \in Procs : t > arrived \/ t \in Queued
    BY <1>1, <1>5 DEF Init, Procs
  <2> QED BY <2>1 DEF Init, ThreadOK, Live
<1>9. CoreOK /\ MutexOK /\ AssignOK
  BY DEF Init, CoreOK, MutexOK, AssignOK, Started, InMutex
<1>10. CountOK
  <2>1. {t \in Procs : pc[t] = "idle"} = {}
    BY DEF Init
  <2>2. Cardinality(CPU) = 0 /\ Cardinality({t \in Procs : pc[t] = "idle"}) = 0
    BY <2>1, FS_EmptySet DEF Init
  <2>3. idleCPU = NumCPU
    BY DEF Init
  <2> QED BY <1>1, <2>2, <2>3 DEF CountOK
<1>11. OutputOK
  <2>1. {t \in Procs : pc[t] \in Over} = {}
    BY DEF Init, Over
  <2>2. \A q \in Procs : pc[q] \notin Over /\ outInfo[pQueue.v[q].nLine] = NULL
    BY <1>2 DEF Init, Over, Jobs
  <2>3. stage[1] = "test" /\ outLine = 0
    BY DEF Init
  <2> QED BY <1>2, <2>1, <2>2, <2>3, FS_EmptySet DEF OutputOK
<1> QED
  BY <1>6, <1>7, <1>8, <1>9, <1>10, <1>11 DEF IInv

\* Nothing but the stage, missed and, when it is written, outfile changes.
OnlyStage ==
    /\ arrived' = arrived /\ pPQ' = pPQ /\ pQueue' = pQueue
    /\ CPU' = CPU /\ pool' = pool /\ coreCPU' = coreCPU /\ idleCPU' = idleCPU
    /\ outLine' = outLine /\ outInfo' = outInfo
    /\ pc' = pc /\ id' = id /\ p' = p

\* Every process is in it once.
Written(file) == Len(file) = NumProcs /\ ToSet(file) = Procs

\* A step of the scheduler that only moves it on.
LEMMA StageMoves ==
    ASSUME IInv, OnlyStage, missed' \in BOOLEAN, outfile' \in Seq(Procs),
           NEW s \in Stages, NEW c \in 0 .. NumCPU, stage' = <<s, c>>,
           s = "assign" => /\ InMutex = {} /\ c \in Cores
                           /\ pPQ.pq # << >> => 1 .. c - 1 \subseteq CPU,
           s \in {"free", "main", "done"} =>
              \/ stage[1] \in {"free", "main", "done"} /\ outfile' = outfile
              \/ Written(outfile') /\ \A t \in Procs : pc[t] \in Over
    PROVE  IInv'
<1>1. stage' \in Stages \X (0 .. NumCPU) /\ stage'[1] = s /\ stage'[2] = c
  OBVIOUS
<1>2. TypeOK'
  BY <1>1 DEF OnlyStage, IInv, TypeOK, Stages
<1>3. Dt' = Dt /\ Queued' = Queued
  BY DEF OnlyStage, Dt, Queued
<1>4. HeapOK'
  BY <1>3 DEF OnlyStage, IInv, HeapOK
<1>5. ThreadOK'
  BY <1>3 DEF OnlyStage, IInv, ThreadOK, Live
<1>6. CoreOK'
  BY DEF OnlyStage, IInv, CoreOK, Started, Finds
<1>7. MutexOK'
  BY <1>1 DEF OnlyStage, IInv, MutexOK, InMutex
<1>8. CountOK'
  BY DEF OnlyStage, IInv, CountOK
<1>9. AssignOK'
  BY <1>1 DEF OnlyStage, IInv, AssignOK
<1>10. OutputOK'
  BY <1>1 DEF OnlyStage, IInv, OutputOK, Written
<1> QED
  BY <1>2, <1>4, <1>5, <1>6, <1>7, <1>8, <1>9, <1>10 DEF IInv

LEMMA StageType ==
    ASSUME IInv
    PROVE  /\ stage = <<stage[1], stage[2]>> /\ stage[1] \in Stages /\ stage[2] \in 0 .. NumCPU
           /\ missed \in BOOLEAN /\ NumCPU \in Nat \ {0} /\ 0 \in 0 .. NumCPU
           /\ Cores \subseteq 0 .. NumCPU /\ outfile \in Seq(Procs)
<1>1. stage \in Stages \X (0 .. NumCPU) /\ missed \in BOOLEAN /\ outfile \in Seq(Procs)
  BY DEF IInv, TypeOK, Stages
<1>2. NumCPU \in Nat \ {0}
  BY Finite
<1> QED
  BY <1>1, <1>2 DEF Cores

\* The steps that only move the scheduler on.
LEMMA MovesKeep ==
    ASSUME IInv, NEW c \in Cores,
           Test \/ Admitted \/ LockMutex \/ Check \/ Wait \/ WakeUp \/ SkipCore(c)
             \/ Collect(c) \/ Join(c) \/ Free \/ MainReturns
    PROVE  IInv'
<1> USE StageType
<1> USE DEF OnlyStage, SchedGoes, schedVars, coreVars, outVars, threadVars, Stages
<1>1. CASE Test
  BY <1>1, StageMoves DEF Test
<1>2. CASE Admitted
  BY <1>2, StageMoves DEF Admitted
<1>3. CASE LockMutex
  <2>1. InMutex = {} /\ 1 \in Cores /\ 1 .. 0 = {}
    BY <1>3 DEF LockMutex, MutexFree, InMutex, Cores
  <2> QED BY <1>3, <2>1, StageMoves DEF LockMutex
<1>4. CASE Check
  BY <1>4, StageMoves DEF Check
<1>5. CASE Wait
  BY <1>5, StageMoves DEF Wait
<1>6. CASE WakeUp
  BY <1>6, StageMoves DEF WakeUp
<1>7. CASE SkipCore(c)
  <2>1. stage[1] = "assign" /\ stage[2] = c
    BY <1>7 DEF SkipCore, Turn
  <2>2. InMutex = {}
    BY <2>1 DEF IInv, MutexOK
  <2>3. pPQ.pq # << >> => 1 .. c - 1 \subseteq CPU /\ c \in CPU
    BY <1>7, <2>1 DEF IInv, AssignOK, SkipCore, Served, PQ!IsEmpty
  <2>4. CASE c < NumCPU
    <3>1. c + 1 \in Cores /\ \A d \in 1 .. (c + 1) - 1 : d \in 1 .. c - 1 \/ d = c
      BY <2>4 DEF Cores
    <3>2. pPQ.pq # << >> => 1 .. (c + 1) - 1 \subseteq CPU
      BY <2>3, <3>1
    <3> QED BY <1>7, <2>2, <2>4, <3>1, <3>2, StageMoves DEF SkipCore, NextCore
  <2>5. CASE ~(c < NumCPU)
    BY <1>7, <2>5, StageMoves DEF SkipCore, NextCore
  <2> QED BY <2>4, <2>5
<1>8. CASE Collect(c)
  <2>1. c < NumCPU => c + 1 \in 0 .. NumCPU
    BY DEF Cores
  <2> QED BY <1>8, <2>1, StageMoves DEF Collect, NextJoin
<1>9. CASE Join(c)
  <2>1. c < NumCPU => c + 1 \in 0 .. NumCPU
    BY DEF Cores
  <2> QED BY <1>9, <2>1, StageMoves DEF Join, NextJoin
<1>10. CASE Free
  BY <1>10, StageMoves DEF Free
<1>11. CASE MainReturns
  BY <1>11, StageMoves DEF MainReturns
<1> QED
  BY <1>1, <1>2, <1>3, <1>4, <1>5, <1>6, <1>7, <1>8, <1>9, <1>10, <1>11

LEMMA HeapIs ==
    ASSUME IInv
    PROVE  /\ Dt \in [Procs -> Int] /\ pPQ.pq \in Seq(Procs) /\ pPQ.length \in Nat
           /\ Holds(pPQ.pq, Queued) /\ Ordered(Dt, pPQ.pq) /\ Queued \subseteq Procs
           /\ pPQ.length >= 2 /\ Len(pPQ.pq) < pPQ.length
<1>1. Dt \in [Procs -> Int] /\ pPQ \in [pq : Seq(Procs), length : Nat]
  BY DtType DEF IInv, TypeOK
<1>2. Queued \subseteq Procs
  BY <1>1, QueueMember DEF Queued
<1> QED
  BY <1>1, <1>2 DEF IInv, HeapOK, Holds, Queued

LEMMA AdmitKeeps == ASSUME IInv, Admit PROVE IInv'
<1> DEFINE x == arrived + 1
           r == PQ!Insert(Dt, pPQ, x)
<1>1. /\ arrived' = x /\ pPQ' = r /\ stage' = stage /\ pQueue' = pQueue /\ missed' = missed
      /\ CPU' = CPU /\ pool' = pool /\ coreCPU' = coreCPU /\ idleCPU' = idleCPU
      /\ outLine' = outLine /\ outInfo' = outInfo /\ outfile' = outfile
      /\ pc' = pc /\ id' = id /\ p' = p
  BY DEF Admit, coreVars, outVars, threadVars
<1>2. arrived \in 1 .. NumProcs /\ NumProcs \in Nat /\ arrived < NumProcs /\ stage[1] = "admit"
  BY Finite DEF IInv, TypeOK, Admit
<1>3. x \in 1 .. NumProcs /\ x \in Procs /\ x \notin Queued
  <2>1. Queued \subseteq 1 .. arrived
    BY DEF IInv, HeapOK
  <2> QED BY <1>2, <2>1 DEF Procs
<1> HIDE DEF x
<1>4. /\ r \in [pq : Seq(Procs), length : Nat] /\ Holds(r.pq, Queued \union {x})
      /\ Ordered(Dt, r.pq) /\ r.length >= 2 /\ Len(r.pq) < r.length
  <2>1. x \in Procs \ Queued
    BY <1>3
  <2> QED BY <2>1, HeapIs, InsertKeeps
<1> HIDE DEF r
<1>5. Queued' = Queued \union {x} /\ Dt' = Dt
  BY <1>1, <1>4 DEF Queued, Holds, Dt
<1>6. TypeOK'
  BY <1>1, <1>3, <1>4 DEF IInv, TypeOK
<1>7. HeapOK'
  <2>1. Queued' \subseteq 1 .. arrived'
    BY <1>1, <1>2, <1>5 DEF IInv, HeapOK, x
  <2> QED BY <1>1, <1>4, <1>5, <2>1 DEF HeapOK, Holds
<1>8. ThreadOK'
  <2>1. \A t \in Procs : t > arrived' \/ t \in Queued' <=> t > arrived \/ t \in Queued
    <3> TAKE t \in Procs
    <3>1. t \in Nat
      BY DEF Procs
    <3> QED BY <1>1, <1>2, <1>5, <3>1 DEF x
  <2>2. Live' = Live
    BY <1>1 DEF Live
  <2> QED BY <1>1, <2>1, <2>2 DEF IInv, ThreadOK
<1>9. CoreOK'
  BY <1>1 DEF IInv, CoreOK, Started, Finds
<1>10. MutexOK' /\ AssignOK'
  BY <1>1, <1>2 DEF IInv, MutexOK, InMutex, AssignOK
<1>11. CountOK' /\ OutputOK'
  BY <1>1 DEF IInv, CountOK, OutputOK
<1> QED
  BY <1>6, <1>7, <1>8, <1>9, <1>10, <1>11 DEF IInv

\* The loop of getCore ends at one core.
LEMMA GetCoreIs ==
    ASSUME NEW t, NEW c \in Cores, Finds(t, c)
    PROVE  /\ GetCore(id[t]) = c
           /\ \A d \in Cores : Finds(t, d) => d = c
<1>1. \A d \in Cores : Finds(t, d) => d = c
  <2> SUFFICES ASSUME NEW d \in Cores, Finds(t, d) PROVE d = c
    OBVIOUS
  <2>1. c \in Nat /\ d \in Nat /\ c >= 1 /\ d >= 1 /\ NumCPU \in Nat
    BY Finite DEF Cores
  <2>2. ~(d < c) /\ ~(c < d)
    BY <2>1 DEF Finds
  <2> QED BY <2>1, <2>2
<1> DEFINE i == id[t]
           Ends(d) == coreCPU[d] = i /\ \A e \in 1 .. d - 1 : coreCPU[e] # i
<1>2. GetCore(i) = CHOOSE d \in Cores : Ends(d)
  BY DEF GetCore
<1>3. Ends(c) /\ \A d \in Cores : Ends(d) => d = c
  BY <1>1 DEF Finds
<1> HIDE DEF Ends
<1>4. GetCore(i) = c
  BY <1>2, <1>3
<1> QED
  BY <1>1, <1>4

\* The core of a thread that has not finished.
LEMMA CoreOf ==
    ASSUME IInv, NEW t \in Started
    PROVE  /\ GetCore(id[t]) \in CPU /\ CPU \subseteq Cores /\ Finds(t, GetCore(id[t]))
           /\ pc[t] = "start" => pool[GetCore(id[t])] = t
           /\ \A u \in Procs : pc[u] = "start" /\ pool[GetCore(id[t])] = u => t = u
<1>1. CPU \subseteq Cores
  BY DEF IInv, TypeOK
<1>2. PICK c \in CPU : Finds(t, c)
  BY DEF IInv, CoreOK
<1>3. c \in Cores
  BY <1>1, <1>2
<1>4. GetCore(id[t]) = c /\ \A d \in Cores : Finds(t, d) => d = c
  BY <1>2, <1>3, GetCoreIs
<1>5. ASSUME pc[t] = "start" PROVE pool[c] = t
  <2>1. PICK d \in Cores : pool[d] = t
    BY <1>5 DEF IInv, CoreOK, Started
  <2>2. t # None
    BY Finite DEF Started, Procs, None
  <2>3. Finds(t, d)
    BY <2>1, <2>2 DEF IInv, CoreOK
  <2> QED BY <1>4, <2>1, <2>3
<1>6. ASSUME NEW u \in Procs, pc[u] = "start", pool[c] = u PROVE t = u
  <2>1. u # None
    BY Finite DEF Procs, None
  <2>2. Finds(u, c)
    BY <1>3, <1>6, <2>1 DEF IInv, CoreOK
  <2>3. id[t] = id[u]
    BY <1>2, <2>2 DEF Finds
  <2>4. t \in Live /\ u \in Live
    BY <1>6 DEF Started, Live
  <2> QED BY <2>3, <2>4 DEF IInv, ThreadOK
<1> QED
  BY <1>1, <1>2, <1>4, <1>5, <1>6

LEMMA HeapSame ==
    ASSUME IInv, arrived' = arrived, pPQ' = pPQ, pQueue' = pQueue
    PROVE  HeapOK' /\ Queued' = Queued
<1>1. Dt' = Dt /\ Queued' = Queued
  BY DEF Dt, Queued
<1> QED
  BY <1>1 DEF IInv, HeapOK

\* A thread takes the process it was started for.
LEMMA TakeKeeps == ASSUME IInv, NEW t \in Procs, Take(t) PROVE IInv'
<1> DEFINE c == GetCore(id[t])
<1>1. /\ pc[t] = "start" /\ pc' = [pc EXCEPT ![t] = "work"]
      /\ p' = [p EXCEPT ![t] = pool[c]] /\ pool' = [pool EXCEPT ![c] = None]
      /\ stage' = stage /\ arrived' = arrived /\ pPQ' = pPQ /\ pQueue' = pQueue
      /\ missed' = missed /\ CPU' = CPU /\ coreCPU' = coreCPU /\ idleCPU' = idleCPU
      /\ outLine' = outLine /\ outInfo' = outInfo /\ outfile' = outfile /\ id' = id
  BY DEF Take, Goes, schedVars, outVars
<1>2. t \in Started
  BY <1>1 DEF Started
<1>3. c \in Cores /\ pool[c] = t
  BY <1>1, <1>2, CoreOf
<1> HIDE DEF c
<1>4. /\ pc \in [Procs -> {"none", "start", "work", "idle", "output", "signal", "exit", "end"}]
      /\ p \in [Procs -> Procs \union {None}] /\ pool \in [Cores -> Procs \union {None}]
  BY DEF IInv, TypeOK
<1>5. /\ pc'[t] = "work" /\ \A u \in Procs \ {t} : pc'[u] = pc[u]
      /\ p'[t] = t /\ \A u \in Procs \ {t} : p'[u] = p[u]
      /\ pool'[c] = None /\ \A d \in Cores \ {c} : pool'[d] = pool[d]
  BY <1>1, <1>3, <1>4
<1>6. TypeOK'
  <2>1. /\ pc' \in [Procs -> {"none", "start", "work", "idle", "output", "signal", "exit", "end"}]
        /\ p' \in [Procs -> Procs \union {None}] /\ pool' \in [Cores -> Procs \union {None}]
    BY <1>1, <1>3, <1>4
  <2> QED BY <1>1, <2>1 DEF IInv, TypeOK
<1>7. HeapOK' /\ Queued' = Queued
  BY <1>1, HeapSame
<1>8. Live' = Live /\ Started' = Started
  BY <1>1, <1>5 DEF Live, Started
<1>9. ThreadOK'
  <2>1. ASSUME NEW u \in Procs
        PROVE  /\ pc'[u] = "none" <=> u > arrived \/ u \in Queued
               /\ p'[u] = IF pc'[u] \in {"none", "start", "end"} THEN None ELSE u
    <3>1. CASE u = t
      BY <1>1, <1>5, <3>1 DEF IInv, ThreadOK
    <3>2. CASE u # t
      BY <1>5, <3>2 DEF IInv, ThreadOK
    <3> QED BY <3>1, <3>2
  <2> QED BY <1>1, <1>7, <1>8, <2>1 DEF IInv, ThreadOK
<1>10. CoreOK'
  <2>a. \A u, d : Finds(u, d)' <=> Finds(u, d)
    BY <1>1 DEF Finds
  <2>1. ASSUME NEW u \in Procs, pc'[u] = "start" PROVE \E d \in Cores : pool'[d] = u
    <3>1. u # t /\ pc[u] = "start"
      BY <1>5, <2>1
    <3>2. PICK d \in Cores : pool[d] = u
      BY <3>1 DEF IInv, CoreOK
    <3>3. d # c
      BY <1>3, <3>1, <3>2
    <3> QED BY <1>5, <3>2, <3>3
  <2>2. ASSUME NEW d \in Cores, pool'[d] # None
        PROVE  pc'[pool'[d]] = "start" /\ Finds(pool'[d], d)
    <3>1. d # c /\ pool'[d] = pool[d]
      BY <1>5, <2>2
    <3>2. pc[pool[d]] = "start" /\ Finds(pool[d], d) /\ pool[d] \in Procs
      BY <1>4, <2>2, <3>1 DEF IInv, CoreOK
    <3>3. pool[d] # t
      <4>1. Finds(t, c)
        BY <1>2, CoreOf DEF c
      <4> QED BY <1>3, <3>1, <3>2, <4>1, GetCoreIs
    <3> QED BY <1>5, <3>1, <3>2, <3>3
  <2>3. /\ \A u \in Started' : \E d \in CPU' : Finds(u, d)
        /\ \A d \in CPU' : \E u \in Started' : Finds(u, d)
    BY <1>1, <1>8 DEF IInv, CoreOK
  <2> QED BY <2>a, <2>1, <2>2, <2>3 DEF CoreOK
<1>11. MutexOK' /\ AssignOK'
  <2>1. InMutex' = InMutex
    BY <1>1, <1>5 DEF InMutex
  <2> QED BY <1>1, <2>1 DEF IInv, MutexOK, AssignOK
<1>12. CountOK'
  <2>1. {u \in Procs : pc'[u] = "idle"} = {u \in Procs : pc[u] = "idle"}
    BY <1>1, <1>5
  <2> QED BY <1>1, <2>1 DEF IInv, CountOK
<1>13. OutputOK'
  <2>1. \A u \in Procs : pc'[u] \in Over <=> pc[u] \in Over
    BY <1>1, <1>5 DEF Over
  <2>2. {u \in Procs : pc'[u] \in Over} = {u \in Procs : pc[u] \in Over}
    BY <2>1
  <2> QED BY <1>1, <2>1, <2>2 DEF IInv, OutputOK
<1> QED
  BY <1>6, <1>7, <1>9, <1>10, <1>11, <1>12, <1>13 DEF IInv

LEMMA FinishKeeps == ASSUME IInv, NEW t \in Procs, Finish(t) PROVE IInv'
<1> DEFINE c == GetCore(id[t])
<1>1. /\ pc[t] = "work" /\ pc' = [pc EXCEPT ![t] = "idle"] /\ CPU' = CPU \ {c}
      /\ p' = p /\ pool' = pool
      /\ stage' = stage /\ arrived' = arrived /\ pPQ' = pPQ /\ pQueue' = pQueue
      /\ missed' = missed /\ coreCPU' = coreCPU /\ idleCPU' = idleCPU
      /\ outLine' = outLine /\ outInfo' = outInfo /\ outfile' = outfile /\ id' = id
  BY DEF Finish, Goes, schedVars, outVars
<1>2. t \in Started
  BY <1>1 DEF Started
<1>3. c \in CPU /\ Finds(t, c) /\ CPU \subseteq Cores
  BY <1>2, CoreOf
<1> HIDE DEF c
<1>4. pc \in [Procs -> {"none", "start", "work", "idle", "output", "signal", "exit", "end"}]
  BY DEF IInv, TypeOK
<1>5. pc'[t] = "idle" /\ \A u \in Procs \ {t} : pc'[u] = pc[u]
  BY <1>1, <1>4
<1>6. InMutex = {} /\ stage[1] # "assign"
  BY DEF Finish, MutexFree, InMutex
<1>7. TypeOK'
  <2>1. pc' \in [Procs -> {"none", "start", "work", "idle", "output", "signal", "exit", "end"}]
    BY <1>1, <1>4
  <2> QED BY <1>1, <2>1 DEF IInv, TypeOK
<1>8. HeapOK' /\ Queued' = Queued
  BY <1>1, HeapSame
<1>9. Live' = Live /\ Started' = Started \ {t}
  BY <1>1, <1>5 DEF Live, Started
<1>10. ThreadOK'
  <2>1. ASSUME NEW u \in Procs
        PROVE  /\ pc'[u] = "none" <=> u > arrived \/ u \in Queued
               /\ p'[u] = IF pc'[u] \in {"none", "start", "end"} THEN None ELSE u
    <3>1. CASE u = t
      BY <1>1, <1>5, <3>1 DEF IInv, ThreadOK
    <3>2. CASE u # t
      BY <1>1, <1>5, <3>2 DEF IInv, ThreadOK
    <3> QED BY <3>1, <3>2
  <2> QED BY <1>1, <1>8, <1>9, <2>1 DEF IInv, ThreadOK
<1>11. CoreOK'
  <2>1. \A u, d : Finds(u, d)' <=> Finds(u, d)
    BY <1>1 DEF Finds
  <2>2. ASSUME NEW u \in Started' PROVE \E d \in CPU' : Finds(u, d)
    <3>1. u \in Started /\ u # t
      BY <1>9
    <3>2. PICK d \in CPU : Finds(u, d)
      BY <3>1 DEF IInv, CoreOK
    <3>3. d # c
      <4>1. u \in Live /\ t \in Live
        BY <1>2, <3>1 DEF Started, Live
      <4>2. id[u] # id[t]
        BY <3>1, <4>1 DEF IInv, ThreadOK
      <4> QED BY <1>3, <3>2, <4>2 DEF Finds
    <3> QED BY <1>1, <3>2, <3>3
  <2>3. ASSUME NEW d \in CPU' PROVE \E u \in Started' : Finds(u, d)
    <3>1. d \in CPU /\ d # c
      BY <1>1
    <3>2. PICK u \in Started : Finds(u, d)
      BY <3>1 DEF IInv, CoreOK
    <3>3. u # t
      BY <1>3, <3>1, <3>2, GetCoreIs
    <3> QED BY <1>9, <3>2, <3>3
  <2>4. \A d \in Cores : pool'[d] # None => pc'[pool'[d]] = "start" /\ Finds(pool'[d], d)
    <3> SUFFICES ASSUME NEW d \in Cores, pool[d] # None PROVE pc'[pool[d]] = "start" /\ Finds(pool[d], d)
      BY <1>1
    <3>1. pool[d] \in Procs /\ pc[pool[d]] = "start" /\ Finds(pool[d], d)
      BY DEF IInv, CoreOK, TypeOK
    <3> QED BY <1>1, <1>5, <3>1
  <2>5. \A u \in Procs : pc'[u] = "start" => \E d \in Cores : pool'[d] = u
    BY <1>1, <1>5 DEF IInv, CoreOK
  <2> QED BY <2>1, <2>2, <2>3, <2>4, <2>5 DEF CoreOK
<1>12. InMutex' = {t}
  BY <1>5, <1>6 DEF InMutex
<1>13. MutexOK' /\ AssignOK'
  BY <1>1, <1>6, <1>12 DEF MutexOK, AssignOK
<1>14. CountOK'
  <2> DEFINE idle == {u \in Procs : pc[u] = "idle"}
             idle2 == {u \in Procs : pc'[u] = "idle"}
  <2>1. idle = {} /\ idle2 = {t}
    BY <1>5, <1>6 DEF InMutex
  <2>2. Cardinality(idle) = 0 /\ Cardinality(idle2) = 1
    BY <2>1, FS_EmptySet, FS_Singleton
  <2>3. IsFiniteSet(CPU)
    BY <1>3, Finite, FS_Subset
  <2>4. Cardinality(CPU) \in Nat /\ Cardinality(CPU \ {c}) = Cardinality(CPU) - 1
    BY <1>3, <2>3, FS_CardinalityType, FS_RemoveElement
  <2>5. idleCPU \in Nat /\ NumCPU \in Nat
    BY Finite DEF IInv, TypeOK
  <2>6. idleCPU + Cardinality(CPU) + Cardinality(idle) = NumCPU
    BY DEF IInv, CountOK
  <2> HIDE DEF idle, idle2
  <2>7. idleCPU' + Cardinality(CPU') + Cardinality(idle2) = NumCPU
    BY <1>1, <2>2, <2>4, <2>5, <2>6
  <2> QED BY <2>7 DEF CountOK, idle2
<1>15. OutputOK'
  <2>1. \A u \in Procs : pc'[u] \in Over <=> pc[u] \in Over
    BY <1>1, <1>5 DEF Over
  <2>2. {u \in Procs : pc'[u] \in Over} = {u \in Procs : pc[u] \in Over}
    BY <2>1
  <2> QED BY <1>1, <2>1, <2>2 DEF IInv, OutputOK
<1> QED
  BY <1>7, <1>8, <1>10, <1>11, <1>13, <1>14, <1>15 DEF IInv

\* Where a thread is after it has finished does not matter to the cores.
LEMMA PoolSame ==
    ASSUME IInv, NEW t \in Procs, pc[t] # "start", pc'[t] # "start",
           \A u \in Procs \ {t} : pc'[u] = pc[u], Started' = Started,
           \A u \in Started : id'[u] = id[u],
           CPU' = CPU, pool' = pool, coreCPU' = coreCPU
    PROVE  CoreOK'
<1>1. \A u \in Started, d \in Cores : Finds(u, d)' <=> Finds(u, d)
  BY DEF Finds
<1>2. CPU \subseteq Cores
  BY DEF IInv, TypeOK
<1>3. /\ \A u \in Started' : \E d \in CPU' : Finds(u, d)'
      /\ \A d \in CPU' : \E u \in Started' : Finds(u, d)'
  BY <1>1, <1>2 DEF IInv, CoreOK
<1>4. \A d \in Cores : (pool[d])' # None => pc'[pool[d]] = "start" /\ Finds(pool[d], d)'
  <2> SUFFICES ASSUME NEW d \in Cores, pool[d] # None
               PROVE  pc'[pool[d]] = "start" /\ Finds(pool[d], d)'
    OBVIOUS
  <2>1. pool[d] \in Procs /\ pc[pool[d]] = "start" /\ Finds(pool[d], d)
    BY DEF IInv, CoreOK, TypeOK
  <2>2. pool[d] \in Started
    BY <2>1 DEF Started
  <2> QED BY <1>1, <2>1, <2>2
<1>5. \A u \in Procs : pc'[u] = "start" => \E d \in Cores : pool'[d] = u
  BY DEF IInv, CoreOK
<1> QED
  BY <1>3, <1>4, <1>5 DEF CoreOK

LEMMA CountKeeps == ASSUME IInv, NEW t \in Procs, Count(t) PROVE IInv'
<1>1. /\ pc[t] = "idle" /\ pc' = [pc EXCEPT ![t] = "output"] /\ idleCPU' = idleCPU + 1
      /\ CPU' = CPU /\ p' = p /\ pool' = pool
      /\ stage' = stage /\ arrived' = arrived /\ pPQ' = pPQ /\ pQueue' = pQueue
      /\ missed' = missed /\ coreCPU' = coreCPU
      /\ outLine' = outLine /\ outInfo' = outInfo /\ outfile' = outfile /\ id' = id
  BY DEF Count, Goes, schedVars, outVars
<1>2. pc \in [Procs -> {"none", "start", "work", "idle", "output", "signal", "exit", "end"}]
  BY DEF IInv, TypeOK
<1>3. pc'[t] = "output" /\ \A u \in Procs \ {t} : pc'[u] = pc[u]
  BY <1>1, <1>2
<1>4. InMutex = {t} /\ InMutex' = {t}
  <2>1. InMutex = {t}
    BY <1>1 DEF InMutex, IInv, MutexOK
  <2> QED BY <1>3, <2>1 DEF InMutex
<1>5. idleCPU' \in 0 .. NumCPU /\ CountOK'
  <2> DEFINE idle == {u \in Procs : pc[u] = "idle"}
             idle2 == {u \in Procs : pc'[u] = "idle"}
  <2>1. idle = {t} /\ idle2 = {}
    BY <1>1, <1>3, <1>4 DEF InMutex
  <2>2. Cardinality(idle) = 1 /\ Cardinality(idle2) = 0
    BY <2>1, FS_EmptySet, FS_Singleton
  <2>3. IsFiniteSet(CPU)
    BY Finite, FS_Subset DEF IInv, TypeOK
  <2>4. Cardinality(CPU) \in Nat
    BY <2>3, FS_CardinalityType
  <2>5. idleCPU \in Nat /\ NumCPU \in Nat
    BY Finite DEF IInv, TypeOK
  <2>6. idleCPU + Cardinality(CPU) + Cardinality(idle) = NumCPU
    BY DEF IInv, CountOK
  <2> HIDE DEF idle, idle2
  <2>7. /\ idleCPU' + Cardinality(CPU') + Cardinality(idle2) = NumCPU
        /\ idleCPU' \in 0 .. NumCPU
    BY <1>1, <2>2, <2>4, <2>5, <2>6
  <2> QED BY <2>7 DEF CountOK, idle2
<1>6. TypeOK'
  <2>1. pc' \in [Procs -> {"none", "start", "work", "idle", "output", "signal", "exit", "end"}]
    BY <1>1, <1>2
  <2> QED BY <1>1, <1>5, <2>1 DEF IInv, TypeOK
<1>7. HeapOK' /\ Queued' = Queued
  BY <1>1, HeapSame
<1>8. Live' = Live /\ Started' = Started
  BY <1>1, <1>3 DEF Live, Started
<1>9. ThreadOK'
  <2>1. ASSUME NEW u \in Procs
        PROVE  /\ pc'[u] = "none" <=> u > arrived \/ u \in Queued
               /\ p'[u] = IF pc'[u] \in {"none", "start", "end"} THEN None ELSE u
    <3>1. CASE u = t
      BY <1>1, <1>3, <3>1 DEF IInv, ThreadOK
    <3>2. CASE u # t
      BY <1>1, <1>3, <3>2 DEF IInv, ThreadOK
    <3> QED BY <3>1, <3>2
  <2> QED BY <1>1, <1>7, <1>8, <2>1 DEF IInv, ThreadOK
<1>10. CoreOK'
  BY <1>1, <1>3, <1>8, PoolSame
<1>11. MutexOK' /\ AssignOK'
  BY <1>1, <1>4 DEF IInv, MutexOK, AssignOK
<1>12. OutputOK'
  <2>1. \A u \in Procs : pc'[u] \in Over <=> pc[u] \in Over
    BY <1>1, <1>3 DEF Over
  <2>2. {u \in Procs : pc'[u] \in Over} = {u \in Procs : pc[u] \in Over}
    BY <2>1
  <2> QED BY <1>1, <2>1, <2>2 DEF IInv, OutputOK
<1> QED
  BY <1>5, <1>6, <1>7, <1>9, <1>10, <1>11, <1>12 DEF IInv

LEMMA OutputKeeps == ASSUME IInv, NEW t \in Procs, Output(t) PROVE IInv'
<1> DEFINE n == pQueue.v[t].nLine
           x == NewOutput(t, Line)
           over == {u \in Procs : pc[u] \in Over}
           over2 == {u \in Procs : pc'[u] \in Over}
<1>1. /\ pc[t] = "output" /\ pc' = [pc EXCEPT ![t] = "signal"] /\ outLine' = Line
      /\ outInfo' = [outInfo EXCEPT ![pQueue.v[p[t]].nLine] = NewOutput(p[t], Line)]
      /\ idleCPU' = idleCPU /\ CPU' = CPU /\ p' = p /\ pool' = pool
      /\ stage' = stage /\ arrived' = arrived /\ pPQ' = pPQ /\ pQueue' = pQueue
      /\ missed' = missed /\ coreCPU' = coreCPU /\ outfile' = outfile /\ id' = id
  BY DEF Output, Goes, schedVars, coreVars
<1>2. /\ pc \in [Procs -> {"none", "start", "work", "idle", "output", "signal", "exit", "end"}]
      /\ pQueue.v \in [Procs -> [t0 : Nat, dt : Nat \ {0}, nLine : Procs]]
      /\ outInfo \in [Procs -> OutputData \union {NULL}]
  BY DEF IInv, TypeOK
<1>3. pc'[t] = "signal" /\ \A u \in Procs \ {t} : pc'[u] = pc[u]
  BY <1>1, <1>2
<1>4. InMutex = {t} /\ InMutex' = {t}
  <2>1. InMutex = {t}
    BY <1>1 DEF InMutex, IInv, MutexOK
  <2> QED BY <1>3, <2>1 DEF InMutex
<1>5. p[t] = t /\ n \in Procs
  BY <1>1, <1>2 DEF IInv, ThreadOK
<1>6. over2 = over \union {t} /\ t \notin over
  BY <1>1, <1>3 DEF Over
<1>7. Line = Cardinality(over2) /\ Line \in 1 .. NumProcs
  <2>1. IsFiniteSet(over) /\ IsFiniteSet(over2) /\ Cardinality(over2) <= NumProcs
    BY Finite, FS_Subset
  <2>2. outLine = Cardinality(over)
    BY DEF IInv, OutputOK
  <2> HIDE DEF over, over2
  <2>3. Cardinality(over) \in Nat /\ Cardinality(over2) = Cardinality(over) + 1
    BY <1>6, <2>1, FS_CardinalityType, FS_AddElement
  <2> QED BY <2>1, <2>2, <2>3, Finite DEF Line
<1>8. x \in OutputData /\ x.name = t
  BY <1>7 DEF NewOutput, OutputData
<1>9. outInfo' = [outInfo EXCEPT ![n] = x]
  BY <1>1, <1>5
<1> HIDE DEF n, x
<1>10. outInfo'[n] = x /\ \A l \in Procs \ {n} : outInfo'[l] = outInfo[l]
  BY <1>2, <1>5, <1>9
<1>11. TypeOK'
  <2>1. pc' \in [Procs -> {"none", "start", "work", "idle", "output", "signal", "exit", "end"}]
    BY <1>1, <1>2
  <2>2. outInfo' \in [Procs -> OutputData \union {NULL}]
    BY <1>2, <1>8, <1>9
  <2>3. outLine' \in 0 .. NumProcs
    BY <1>1, <1>7, Finite
  <2> QED BY <1>1, <2>1, <2>2, <2>3 DEF IInv, TypeOK
<1>12. HeapOK' /\ Queued' = Queued
  BY <1>1, HeapSame
<1>13. Live' = Live /\ Started' = Started
  BY <1>1, <1>3 DEF Live, Started
<1>14. ThreadOK'
  <2>1. ASSUME NEW u \in Procs
        PROVE  /\ pc'[u] = "none" <=> u > arrived \/ u \in Queued
               /\ p'[u] = IF pc'[u] \in {"none", "start", "end"} THEN None ELSE u
    <3>1. CASE u = t
      BY <1>1, <1>3, <3>1 DEF IInv, ThreadOK
    <3>2. CASE u # t
      BY <1>1, <1>3, <3>2 DEF IInv, ThreadOK
    <3> QED BY <3>1, <3>2
  <2> QED BY <1>1, <1>12, <1>13, <2>1 DEF IInv, ThreadOK
<1>15. CoreOK'
  BY <1>1, <1>3, <1>13, PoolSame
<1>16. MutexOK' /\ AssignOK'
  BY <1>1, <1>4 DEF IInv, MutexOK, AssignOK
<1>17. CountOK'
  <2>1. {u \in Procs : pc'[u] = "idle"} = {u \in Procs : pc[u] = "idle"}
    BY <1>1, <1>3
  <2> QED BY <1>1, <2>1 DEF IInv, CountOK
<1>18. OutputOK'
  <2>1. \A q, r \in Procs : pQueue.v[q].nLine = pQueue.v[r].nLine => q = r
    BY DEF IInv, OutputOK
  <2>2. ASSUME NEW q \in Procs
        PROVE  IF pc'[q] \in Over THEN outInfo'[pQueue.v[q].nLine].name = q
               ELSE outInfo'[pQueue.v[q].nLine] = NULL
    <3>1. CASE q = t
      BY <1>3, <1>8, <1>10, <3>1 DEF n, Over
    <3>2. CASE q # t
      <4>1. pQueue.v[q].nLine \in Procs \ {n}
        BY <1>2, <2>1, <3>2 DEF n
      <4>2. outInfo'[pQueue.v[q].nLine] = outInfo[pQueue.v[q].nLine] /\ pc'[q] = pc[q]
        BY <1>3, <1>10, <3>2, <4>1
      <4> QED BY <4>2 DEF IInv, OutputOK
    <3> QED BY <3>1, <3>2
  <2>3. stage[1] \notin {"free", "main", "done"}
    BY <1>1 DEF IInv, OutputOK, Over
  <2> QED BY <1>1, <1>7, <2>1, <2>2, <2>3 DEF OutputOK
<1> QED
  BY <1>11, <1>12, <1>14, <1>15, <1>16, <1>17, <1>18 DEF IInv

LEMMA SignalKeeps == ASSUME IInv, NEW t \in Procs, Signal(t) PROVE IInv'
<1>1. /\ pc[t] = "signal" /\ pc' = [pc EXCEPT ![t] = "exit"]
      /\ stage' = stage \/ stage' = <<"test", 0>>
      /\ missed' \in BOOLEAN
      /\ idleCPU' = idleCPU /\ CPU' = CPU /\ p' = p /\ pool' = pool
      /\ arrived' = arrived /\ pPQ' = pPQ /\ pQueue' = pQueue /\ outLine' = outLine
      /\ outInfo' = outInfo /\ coreCPU' = coreCPU /\ outfile' = outfile /\ id' = id
  <2>1. missed' = (missed \/ stage[1] = "wait") /\ missed \in BOOLEAN
    BY DEF Signal, IInv, TypeOK
  <2> QED BY <2>1 DEF Signal, Goes, SchedGoes, coreVars, outVars
<1>2. pc \in [Procs -> {"none", "start", "work", "idle", "output", "signal", "exit", "end"}]
  BY DEF IInv, TypeOK
<1>3. pc'[t] = "exit" /\ \A u \in Procs \ {t} : pc'[u] = pc[u]
  BY <1>1, <1>2
<1>4. InMutex = {t} /\ InMutex' = {}
  <2>1. InMutex = {t}
    BY <1>1 DEF InMutex, IInv, MutexOK
  <2> QED BY <1>3, <2>1 DEF InMutex
<1>5. stage'[1] = stage[1] \/ stage'[1] = "test"
  BY <1>1
<1>6. TypeOK'
  <2>1. pc' \in [Procs -> {"none", "start", "work", "idle", "output", "signal", "exit", "end"}]
    BY <1>1, <1>2
  <2>2. stage' \in Stages \X (0 .. NumCPU)
    BY <1>1, StageType DEF Stages
  <2> QED BY <1>1, <2>1, <2>2 DEF IInv, TypeOK, Stages
<1>7. HeapOK' /\ Queued' = Queued
  BY <1>1, HeapSame
<1>8. Live' = Live /\ Started' = Started
  BY <1>1, <1>3 DEF Live, Started
<1>9. ThreadOK'
  <2>1. ASSUME NEW u \in Procs
        PROVE  /\ pc'[u] = "none" <=> u > arrived \/ u \in Queued
               /\ p'[u] = IF pc'[u] \in {"none", "start", "end"} THEN None ELSE u
    <3>1. CASE u = t
      BY <1>1, <1>3, <3>1 DEF IInv, ThreadOK
    <3>2. CASE u # t
      BY <1>1, <1>3, <3>2 DEF IInv, ThreadOK
    <3> QED BY <3>1, <3>2
  <2> QED BY <1>1, <1>7, <1>8, <2>1 DEF IInv, ThreadOK
<1>10. CoreOK'
  BY <1>1, <1>3, <1>8, PoolSame
<1>11. MutexOK' /\ AssignOK'
  <2>1. stage[1] # "assign"
    BY <1>4 DEF IInv, MutexOK
  <2> QED BY <1>4, <1>5, <2>1 DEF MutexOK, AssignOK
<1>12. CountOK'
  <2>1. {u \in Procs : pc'[u] = "idle"} = {u \in Procs : pc[u] = "idle"}
    BY <1>1, <1>3
  <2> QED BY <1>1, <2>1 DEF IInv, CountOK
<1>13. OutputOK'
  <2>1. \A u \in Procs : pc'[u] \in Over <=> pc[u] \in Over
    BY <1>1, <1>3 DEF Over
  <2>2. {u \in Procs : pc'[u] \in Over} = {u \in Procs : pc[u] \in Over}
    BY <2>1
  <2> QED BY <1>1, <1>5, <2>1, <2>2 DEF IInv, OutputOK
<1> QED
  BY <1>6, <1>7, <1>9, <1>10, <1>11, <1>12, <1>13 DEF IInv

\* The id of a thread that has ended is free.
LEMMA ExitKeeps == ASSUME IInv, NEW t \in Procs, Exit(t) PROVE IInv'
<1>1. /\ pc[t] = "exit" /\ pc' = [pc EXCEPT ![t] = "end"]
      /\ id' = [id EXCEPT ![t] = None] /\ p' = [p EXCEPT ![t] = None]
      /\ stage' = stage /\ missed' = missed
      /\ idleCPU' = idleCPU /\ CPU' = CPU /\ pool' = pool
      /\ arrived' = arrived /\ pPQ' = pPQ /\ pQueue' = pQueue /\ outLine' = outLine
      /\ outInfo' = outInfo /\ coreCPU' = coreCPU /\ outfile' = outfile
  BY DEF Exit, Goes, schedVars, coreVars, outVars
<1>2. /\ pc \in [Procs -> {"none", "start", "work", "idle", "output", "signal", "exit", "end"}]
      /\ p \in [Procs -> Procs \union {None}] /\ id \in [Procs -> Ids \union {None}]
  BY DEF IInv, TypeOK
<1>3. /\ pc'[t] = "end" /\ \A u \in Procs \ {t} : pc'[u] = pc[u]
      /\ p'[t] = None /\ \A u \in Procs \ {t} : p'[u] = p[u]
      /\ \A u \in Procs \ {t} : id'[u] = id[u]
  BY <1>1, <1>2
<1>4. InMutex' = InMutex
  BY <1>1, <1>3 DEF InMutex
<1>5. TypeOK'
  <2>1. /\ pc' \in [Procs -> {"none", "start", "work", "idle", "output", "signal", "exit", "end"}]
        /\ p' \in [Procs -> Procs \union {None}] /\ id' \in [Procs -> Ids \union {None}]
    BY <1>1, <1>2
  <2> QED BY <1>1, <2>1 DEF IInv, TypeOK
<1>6. HeapOK' /\ Queued' = Queued
  BY <1>1, HeapSame
<1>7. Live' = Live \ {t} /\ Started' = Started /\ t \notin Started
  BY <1>1, <1>3 DEF Live, Started
<1>8. ThreadOK'
  <2>1. ASSUME NEW u \in Procs
        PROVE  /\ pc'[u] = "none" <=> u > arrived \/ u \in Queued
               /\ p'[u] = IF pc'[u] \in {"none", "start", "end"} THEN None ELSE u
    <3>1. CASE u = t
      BY <1>1, <1>3, <3>1 DEF IInv, ThreadOK
    <3>2. CASE u # t
      BY <1>1, <1>3, <3>2 DEF IInv, ThreadOK
    <3> QED BY <3>1, <3>2
  <2>2. \A u \in Live' : u \in Live /\ id'[u] = id[u]
    BY <1>3, <1>7 DEF Live
  <2>3. Live' \subseteq Procs
    BY DEF Live
  <2>4. /\ \A u \in Live' : id'[u] \in Ids
        /\ \A u, w \in Live' : id'[u] = id'[w] => u = w
    BY <2>2, <2>3, <1>7 DEF IInv, ThreadOK
  <2> QED BY <1>1, <1>6, <2>1, <2>4 DEF ThreadOK
<1>9. CoreOK'
  <2>1. \A u \in Started : u \in Procs \ {t}
    BY <1>7 DEF Started
  <2>2. \A u \in Started : id'[u] = id[u]
    BY <1>3, <2>1
  <2> QED BY <1>1, <1>3, <1>7, <2>2, PoolSame
<1>10. MutexOK' /\ AssignOK'
  BY <1>1, <1>4 DEF IInv, MutexOK, AssignOK
<1>11. CountOK'
  <2>1. {u \in Procs : pc'[u] = "idle"} = {u \in Procs : pc[u] = "idle"}
    BY <1>1, <1>3
  <2> QED BY <1>1, <2>1 DEF IInv, CountOK
<1>12. OutputOK'
  <2>1. \A u \in Procs : pc'[u] \in Over <=> pc[u] \in Over
    BY <1>1, <1>3 DEF Over
  <2>2. {u \in Procs : pc'[u] \in Over} = {u \in Procs : pc[u] \in Over}
    BY <2>1
  <2> QED BY <1>1, <2>1, <2>2 DEF IInv, OutputOK
<1> QED
  BY <1>5, <1>6, <1>8, <1>9, <1>10, <1>11, <1>12 DEF IInv

\* A core gets a process: the thread's id is not one that getCore meets on the
\* cores before.
LEMMA AssignKeeps == ASSUME IInv, NEW c \in Cores, Assign(c) PROVE IInv'
<1> DEFINE r == PQ!DelMin(Dt, pPQ)
<1>a. stage = <<"assign", c>> /\ c \notin CPU /\ pPQ.pq # << >>
  BY DEF Assign, Turn, Served, PQ!IsEmpty
<1>b. /\ PQ!Min(pPQ) \in Queued /\ PQ!Min(pPQ) \in Procs
      /\ r \in [pq : Seq(Procs), length : Nat]
      /\ Holds(r.pq, Queued \ {PQ!Min(pPQ)}) /\ Ordered(Dt, r.pq)
      /\ r.length >= 2 /\ Len(r.pq) < r.length
  BY <1>a, HeapIs, DelMinKeeps
<1>c. PICK q \in Procs : q = PQ!Min(pPQ)
  BY <1>b
<1>1. /\ stage = <<"assign", c>> /\ c \notin CPU /\ pPQ.pq # << >>
      /\ pool' = [pool EXCEPT ![c] = q] /\ pc' = [pc EXCEPT ![q] = "start"]
      /\ pPQ' = r /\ CPU' = CPU \union {c} /\ idleCPU' = idleCPU - 1
      /\ arrived' = arrived /\ outLine' = outLine /\ outInfo' = outInfo
      /\ outfile' = outfile /\ p' = p /\ pQueue' = pQueue /\ missed' = missed
  BY <1>a, <1>c DEF Assign, StartProcess, Goes, outVars
<1>2. PICK i \in Ids : /\ \A t \in Live : id[t] # i
                       /\ coreCPU' = [coreCPU EXCEPT ![c] = i]
                       /\ id' = [id EXCEPT ![q] = i]
  BY <1>c DEF Assign, StartProcess
<1>3. stage' = IF c < NumCPU THEN <<"assign", c + 1>> ELSE <<"check", 0>>
  BY DEF Assign, NextCore, SchedGoes
<1>4. /\ q \in Queued /\ q \in Procs /\ r \in [pq : Seq(Procs), length : Nat]
      /\ Holds(r.pq, Queued \ {q}) /\ Ordered(Dt, r.pq)
      /\ r.length >= 2 /\ Len(r.pq) < r.length
  BY <1>b, <1>c
<1> HIDE DEF r
<1>5. /\ pc \in [Procs -> {"none", "start", "work", "idle", "output", "signal", "exit", "end"}]
      /\ id \in [Procs -> Ids \union {None}] /\ pool \in [Cores -> Procs \union {None}]
      /\ coreCPU \in [Cores -> Ids] /\ CPU \subseteq Cores
  BY DEF IInv, TypeOK
<1>6. /\ pc'[q] = "start" /\ \A t \in Procs \ {q} : pc'[t] = pc[t]
      /\ id'[q] = i /\ \A t \in Procs \ {q} : id'[t] = id[t]
      /\ pool'[c] = q /\ \A d \in Cores \ {c} : pool'[d] = pool[d]
      /\ coreCPU'[c] = i /\ \A d \in Cores \ {c} : coreCPU'[d] = coreCPU[d]
  BY <1>1, <1>2, <1>4, <1>5
<1>7. pc[q] = "none" /\ p[q] = None
  BY <1>4 DEF IInv, ThreadOK
<1>8. stage[1] = "assign" /\ stage[2] = c /\ InMutex = {}
  <2>1. stage[1] = "assign" /\ stage[2] = c
    BY <1>1
  <2> QED BY <2>1 DEF IInv, MutexOK
<1>9. InMutex' = {}
  BY <1>6, <1>8 DEF InMutex
<1>10. Live' = Live \union {q} /\ Started' = Started \union {q} /\ q \notin Live /\ q \notin Started
  BY <1>4, <1>6, <1>7 DEF Live, Started
<1>11. Queued' = Queued \ {q} /\ Dt' = Dt
  BY <1>1, <1>4 DEF Queued, Holds, Dt
<1>12. HeapOK'
  <2>1. Queued' \subseteq 1 .. arrived'
    BY <1>1, <1>11 DEF IInv, HeapOK
  <2> QED BY <1>1, <1>4, <1>11, <2>1 DEF HeapOK, Holds
<1>13. idleCPU' \in 0 .. NumCPU /\ CountOK'
  <2> DEFINE idle == {u \in Procs : pc[u] = "idle"}
             idle2 == {u \in Procs : pc'[u] = "idle"}
  <2>1. idle = {} /\ idle2 = {}
    BY <1>8, <1>9 DEF InMutex
  <2>2. Cardinality(idle) = 0 /\ Cardinality(idle2) = 0
    BY <2>1, FS_EmptySet
  <2>3. IsFiniteSet(CPU) /\ CPU \union {c} \in SUBSET Cores
    BY <1>5, Finite, FS_Subset
  <2>4. /\ Cardinality(CPU) \in Nat /\ Cardinality(CPU \union {c}) = Cardinality(CPU) + 1
        /\ Cardinality(CPU \union {c}) <= NumCPU
    BY <1>1, <2>3, Finite, FS_CardinalityType, FS_AddElement, FS_Subset
  <2>5. idleCPU \in Nat /\ NumCPU \in Nat
    BY Finite DEF IInv, TypeOK
  <2>6. idleCPU + Cardinality(CPU) + Cardinality(idle) = NumCPU
    BY DEF IInv, CountOK
  <2> HIDE DEF idle, idle2
  <2>7. /\ idleCPU' + Cardinality(CPU') + Cardinality(idle2) = NumCPU
        /\ idleCPU' \in 0 .. NumCPU
    BY <1>1, <2>2, <2>4, <2>5, <2>6
  <2> QED BY <2>7 DEF CountOK, idle2
<1>14. TypeOK'
  <2>1. /\ pc' \in [Procs -> {"none", "start", "work", "idle", "output", "signal", "exit", "end"}]
        /\ id' \in [Procs -> Ids \union {None}] /\ pool' \in [Cores -> Procs \union {None}]
        /\ coreCPU' \in [Cores -> Ids] /\ CPU' \subseteq Cores
    BY <1>1, <1>2, <1>4, <1>5
  <2>2. stage' \in Stages \X (0 .. NumCPU)
    BY <1>3, Finite DEF Stages, Cores
  <2> QED BY <1>1, <1>4, <1>13, <2>1, <2>2 DEF IInv, TypeOK, Stages
<1>15. ThreadOK'
  <2>1. ASSUME NEW u \in Procs
        PROVE  /\ pc'[u] = "none" <=> u > arrived \/ u \in Queued'
               /\ p'[u] = IF pc'[u] \in {"none", "start", "end"} THEN None ELSE u
    <3>1. CASE u = q
      <4>1. q \in 1 .. arrived /\ arrived \in Nat
        BY <1>4, Finite DEF IInv, HeapOK, TypeOK
      <4>2. ~(u > arrived) /\ u \notin Queued'
        BY <1>11, <3>1, <4>1
      <4> QED BY <1>1, <1>6, <1>7, <3>1, <4>2
    <3>2. CASE u # q
      BY <1>1, <1>6, <1>11, <3>2 DEF IInv, ThreadOK
    <3> QED BY <3>1, <3>2
  <2>2. \A u \in Live : u \in Procs \ {q} /\ id'[u] = id[u] /\ id[u] # i
    BY <1>2, <1>6, <1>10 DEF Live
  <2>3. /\ \A u \in Live' : id'[u] \in Ids
        /\ \A u, w \in Live' : id'[u] = id'[w] => u = w
    <3>1. \A u \in Live : id[u] \in Ids /\ \A w \in Live : id[u] = id[w] => u = w
      BY DEF IInv, ThreadOK, Live
    <3> QED BY <1>6, <1>10, <2>2, <3>1
  <2> QED BY <1>1, <2>1, <2>3 DEF ThreadOK
<1>16. ASSUME NEW t \in Started, NEW d \in CPU, Finds(t, d) PROVE Finds(t, d)'
  <2>1. id'[t] = id[t] /\ id[t] # i
    BY <1>2, <1>6, <1>10 DEF Started, Live
  <2>2. d \in Cores \ {c} /\ coreCPU'[d] = coreCPU[d]
    BY <1>1, <1>5, <1>6
  <2>3. \A e \in 1 .. d - 1 : e \in Cores
    BY <2>2, Finite DEF Cores
  <2>4. \A e \in 1 .. d - 1 : coreCPU'[e] # id[t]
    BY <1>6, <1>16, <2>1, <2>3 DEF Finds
  <2> QED BY <1>16, <2>1, <2>2, <2>4 DEF Finds
<1>17. Finds(q, c)'
  <2>1. ASSUME NEW d \in 1 .. c - 1 PROVE coreCPU'[d] # i
    <3>1. d \in CPU
      BY <1>1, <1>8 DEF IInv, AssignOK
    <3>2. PICK t \in Started : Finds(t, d)
      BY <3>1 DEF IInv, CoreOK
    <3>3. d \in Cores \ {c} /\ t \in Live
      BY <1>1, <1>5, <3>1, <3>2 DEF Started, Live
    <3> QED BY <1>2, <1>6, <3>2, <3>3 DEF Finds
  <2> QED BY <1>6, <2>1 DEF Finds
<1>18. CoreOK'
  <2>1. ASSUME NEW t \in Started' PROVE \E d \in CPU' : Finds(t, d)'
    <3>1. CASE t = q
      BY <1>1, <1>17, <3>1
    <3>2. CASE t # q
      <4>1. t \in Started
        BY <1>10, <3>2
      <4>2. PICK d \in CPU : Finds(t, d)
        BY <4>1 DEF IInv, CoreOK
      <4>3. Finds(t, d)'
        BY <1>16, <4>1, <4>2
      <4> QED BY <1>1, <4>3
    <3> QED BY <3>1, <3>2
  <2>2. ASSUME NEW d \in CPU' PROVE \E t \in Started' : Finds(t, d)'
    <3>1. CASE d = c
      BY <1>10, <1>17, <3>1
    <3>2. CASE d # c
      <4>1. d \in CPU
        BY <1>1, <3>2
      <4>2. PICK t \in Started : Finds(t, d)
        BY <4>1 DEF IInv, CoreOK
      <4>3. Finds(t, d)'
        BY <1>16, <4>1, <4>2
      <4> QED BY <1>10, <4>3
    <3> QED BY <3>1, <3>2
  <2>3. ASSUME NEW d \in Cores, pool[d] # None
        PROVE  pool[d] \in Started /\ d \in CPU /\ pc[pool[d]] = "start" /\ Finds(pool[d], d)
    <3>1. pool[d] \in Procs /\ pc[pool[d]] = "start" /\ Finds(pool[d], d)
      BY <1>5, <2>3 DEF IInv, CoreOK
    <3>2. pool[d] \in Started
      BY <3>1 DEF Started
    <3>3. d = GetCore(id[pool[d]])
      BY <3>1, GetCoreIs
    <3> QED BY <3>1, <3>2, <3>3, CoreOf
  <2>4. ASSUME NEW d \in Cores, pool'[d] # None
        PROVE  pc'[pool'[d]] = "start" /\ Finds(pool[d], d)'
    <3>1. CASE d = c
      BY <1>6, <1>17, <3>1 DEF Finds
    <3>2. CASE d # c
      <4>0. PICK t \in Procs : t = pool[d]
        BY <1>5, <1>6, <2>4, <3>2
      <4>1. pool'[d] = t /\ t # None
        BY <1>6, <2>4, <3>2, <4>0
      <4>2. t \in Started /\ d \in CPU /\ pc[t] = "start" /\ Finds(t, d)
        BY <2>3, <4>0, <4>1
      <4>3. t # q /\ t \in Procs
        BY <1>10, <4>2 DEF Started
      <4>4. Finds(t, d)'
        BY <1>16, <4>2
      <4> QED BY <1>6, <4>1, <4>2, <4>3, <4>4 DEF Finds
    <3> QED BY <3>1, <3>2
  <2>5. ASSUME NEW t \in Procs, pc'[t] = "start" PROVE \E d \in Cores : pool'[d] = t
    <3>1. CASE t = q
      BY <1>6, <3>1
    <3>2. CASE t # q
      <4>1. pc[t] = "start"
        BY <1>6, <2>5, <3>2
      <4>2. PICK d \in Cores : pool[d] = t
        BY <4>1 DEF IInv, CoreOK
      <4>3. pool[d] # None
        BY <4>2, Finite DEF Procs, None
      <4>4. d # c
        BY <1>1, <2>3, <4>3
      <4> QED BY <1>6, <4>2, <4>4
    <3> QED BY <3>1, <3>2
  <2> QED BY <2>1, <2>2, <2>4, <2>5 DEF CoreOK
<1>19. MutexOK'
  BY <1>9 DEF MutexOK
<1>20. AssignOK'
  <2>1. CASE c < NumCPU
    <3>1. stage'[1] = "assign" /\ stage'[2] = c + 1
      BY <1>3, <2>1
    <3>2. c + 1 \in Cores /\ \A d \in 1 .. (c + 1) - 1 : d \in 1 .. c - 1 \/ d = c
      BY <2>1, Finite DEF Cores
    <3>3. 1 .. c - 1 \subseteq CPU
      BY <1>1, <1>8 DEF IInv, AssignOK
    <3> QED BY <1>1, <3>1, <3>2, <3>3 DEF AssignOK
  <2>2. CASE ~(c < NumCPU)
    <3>1. stage'[1] = "check"
      BY <1>3, <2>2
    <3> QED BY <3>1 DEF AssignOK
  <2> QED BY <2>1, <2>2
<1>21. OutputOK'
  <2>1. \A u \in Procs : pc'[u] \in Over <=> pc[u] \in Over
    BY <1>6, <1>7 DEF Over
  <2>2. {u \in Procs : pc'[u] \in Over} = {u \in Procs : pc[u] \in Over}
    BY <2>1
  <2>3. stage'[1] \notin {"free", "main", "done"}
    BY <1>3
  <2> QED BY <1>1, <2>1, <2>2, <2>3 DEF IInv, OutputOK
<1> QED
  BY <1>12, <1>13, <1>14, <1>15, <1>18, <1>19, <1>20, <1>21 DEF IInv

\* Every line of the trace is the line of a process.
LEMMA LineOf ==
    ASSUME IInv
    PROVE  \A l \in Procs : \E q \in Procs : pQueue.v[q].nLine = l
<1> DEFINE f == [q \in Procs |-> pQueue.v[q].nLine]
<1>1. pQueue.v \in [Procs -> [t0 : Nat, dt : Nat \ {0}, nLine : Procs]]
  BY DEF IInv, TypeOK
<1>2. \A q, r \in Procs : pQueue.v[q].nLine = pQueue.v[r].nLine => q = r
  BY DEF IInv, OutputOK
<1>3. f \in [Procs -> Procs]
  BY <1>1
<1>4. IsInjective(f)
  BY <1>2, <1>3 DEF IsInjective
<1> HIDE DEF f
<1>5. f \in Surjection(Procs, Procs)
  BY <1>3, <1>4, Finite, FS_Injection DEF Injection
<1> QED
  BY <1>5 DEF Surjection, f

LEMMA WriteOutputKeeps == ASSUME IInv, WriteOutput PROVE IInv'
<1> USE DEF OnlyStage, SchedGoes, coreVars, threadVars
<1>1. CASE \A q \in Procs : outInfo[q] # NULL
  <2>1. /\ OnlyStage /\ missed' \in BOOLEAN /\ stage' = <<"free", 0>>
        /\ \E sorted \in SetToSeqs(Range(outInfo)) :
              outfile' = [i \in DOMAIN sorted |-> sorted[i].name]
    BY <1>1, StageType DEF WriteOutput
  <2>2. /\ pQueue.v \in [Procs -> [t0 : Nat, dt : Nat \ {0}, nLine : Procs]]
        /\ outInfo \in [Procs -> OutputData \union {NULL}]
    BY DEF IInv, TypeOK
  <2>3. \A q \in Procs : pc[q] \in Over /\ outInfo[pQueue.v[q].nLine].name = q
    BY <1>1, <2>2 DEF IInv, OutputOK
  <2>4. \A l \in Procs : \E q \in Procs : pQueue.v[q].nLine = l /\ outInfo[l].name = q
    BY <2>3, LineOf
  <2> DEFINE S == Range(outInfo)
  <2>5. IsInjective(outInfo)
    <3>1. DOMAIN outInfo = Procs
      BY <2>2
    <3>2. ASSUME NEW l \in Procs, NEW m \in Procs, outInfo[l] = outInfo[m] PROVE l = m
      <4>1. PICK q \in Procs : pQueue.v[q].nLine = l /\ outInfo[l].name = q
        BY <2>4
      <4>2. PICK r \in Procs : pQueue.v[r].nLine = m /\ outInfo[m].name = r
        BY <2>4
      <4> QED BY <3>2, <4>1, <4>2
    <3> QED BY <3>1, <3>2 DEF IsInjective
  <2>6. IsFiniteSet(S) /\ Cardinality(S) = NumProcs
    BY <2>2, <2>5, Finite, RangeSize
  <2>7. \A q \in Procs : \E x \in S : x.name = q
    BY <2>2, <2>3 DEF Range
  <2>8. \A x \in S : x.name \in Procs
    BY <2>2, <2>4 DEF Range
  <2>9. PICK sorted \in SetToSeqs(S) : outfile' = [i \in DOMAIN sorted |-> sorted[i].name]
    BY <2>1
  <2> HIDE DEF S
  <2>10. /\ sorted \in [1 .. NumProcs -> S]
         /\ \A x \in S : \E i \in 1 .. NumProcs : sorted[i] = x
    BY <2>6, <2>9, ListingIs
  <2>11. /\ outfile' \in [1 .. NumProcs -> Procs]
         /\ \A q \in Procs : \E i \in 1 .. NumProcs : outfile'[i] = q
    <3>1. \A i \in 1 .. NumProcs : outfile'[i] = sorted[i].name
      BY <2>9, <2>10
    <3>2. outfile' \in [1 .. NumProcs -> Procs]
      BY <2>8, <2>9, <2>10
    <3>3. ASSUME NEW q \in Procs PROVE \E i \in 1 .. NumProcs : outfile'[i] = q
      <4>1. PICK x \in S : x.name = q
        BY <2>7
      <4>2. PICK i \in 1 .. NumProcs : sorted[i] = x
        BY <2>10
      <4> QED BY <3>1, <4>1, <4>2
    <3> QED BY <3>2, <3>3
  <2>12. outfile' \in Seq(Procs) /\ Written(outfile')
    <3>1. NumProcs \in Nat
      BY Finite
    <3>2. outfile' \in Seq(Procs) /\ Len(outfile') = NumProcs /\ DOMAIN outfile' = 1 .. NumProcs
      BY <2>11, <3>1
    <3> QED BY <2>11, <3>2 DEF Written, ToSet
  <2> QED BY <2>1, <2>3, <2>12, StageMoves, StageType DEF Stages
<1>2. CASE ~(\A q \in Procs : outInfo[q] # NULL)
  BY <1>2, StageMoves, StageType DEF WriteOutput, Stages
<1> QED
  BY <1>1, <1>2

LEMMA NextKeeps == IInv /\ [Next]_vars => IInv'
<1> SUFFICES ASSUME IInv, [Next]_vars PROVE IInv'
  OBVIOUS
<1>1. CASE Scheduler
  <2>1. 1 \in Cores
    BY Finite DEF Cores
  <2> QED BY <1>1, <2>1, MovesKeep, AdmitKeeps, AssignKeeps, WriteOutputKeeps DEF Scheduler
<1>2. CASE WakeUp
  <2>1. 1 \in Cores
    BY Finite DEF Cores
  <2> QED BY <1>2, <2>1, MovesKeep
<1>3. ASSUME NEW t \in Procs, Thread(t) PROVE IInv'
  BY <1>3, TakeKeeps, FinishKeeps, CountKeeps, OutputKeeps, SignalKeeps, ExitKeeps DEF Thread
<1>4. CASE UNCHANGED vars
  <2>1. OnlyStage /\ stage' = stage /\ missed' = missed /\ outfile' = outfile
    BY <1>4 DEF vars, schedVars, coreVars, outVars, threadVars, OnlyStage
  <2>2. /\ stage[1] = "assign" => /\ InMutex = {} /\ stage[2] \in Cores
                                  /\ pPQ.pq # << >> => 1 .. stage[2] - 1 \subseteq CPU
    BY DEF IInv, MutexOK, AssignOK
  <2> QED BY <2>1, <2>2, StageMoves, StageType
<1> QED
  BY <1>1, <1>2, <1>3, <1>4 DEF Next, Terminated

\* The inductive invariant.
THEOREM Invariant == Spec => []IInv
<1> QED
  BY InitIInv, NextKeeps, PTL DEF Spec

\* The types hold.
THEOREM TypeCorrect == Spec => []TypeOK
<1>1. IInv => TypeOK
  BY DEF IInv
<1> QED
  BY <1>1, Invariant, PTL

\* A thread finds by its id the core it was started for, although ids are
\* used again and those of dead threads are not removed from coreCPU.
THEOREM OwnCore == Spec => []GetCoreFindsOwn
<1>1. IInv => GetCoreFindsOwn
  <2> SUFFICES ASSUME IInv, NEW t \in Started
               PROVE  /\ \E c \in CPU : coreCPU[c] = id[t]
                      /\ pc[t] = "start" => pool[GetCore(id[t])] = t
                      /\ \A u \in Started \ {t} : GetCore(id[u]) # GetCore(id[t])
    BY DEF GetCoreFindsOwn
  <2>1. GetCore(id[t]) \in CPU /\ coreCPU[GetCore(id[t])] = id[t]
    BY CoreOf DEF Finds
  <2>2. ASSUME NEW u \in Started \ {t} PROVE GetCore(id[u]) # GetCore(id[t])
    <3>1. coreCPU[GetCore(id[u])] = id[u]
      BY CoreOf DEF Finds
    <3>2. u \in Live /\ t \in Live
      BY DEF Started, Live
    <3>3. id[u] # id[t]
      BY <3>2 DEF IInv, ThreadOK
    <3> QED BY <2>1, <3>1, <3>3
  <2> QED BY <2>1, <2>2, CoreOf
<1> QED
  BY <1>1, Invariant, PTL

\* While nobody holds mutex idleCPU is the number of idle cores, and the busy
\* ones are those of the threads that have not finished.
THEOREM IdleCounted == Spec => []IdleCountExact
<1>1. IInv => IdleCountExact
  <2> SUFFICES ASSUME IInv, MutexFree
               PROVE  /\ idleCPU = NumCPU - Cardinality(CPU)
                      /\ CPU = {GetCore(id[t]) : t \in Started}
    BY DEF IdleCountExact
  <2>1. idleCPU = NumCPU - Cardinality(CPU)
    <3>1. {t \in Procs : pc[t] = "idle"} = {}
      BY DEF MutexFree
    <3>2. Cardinality({t \in Procs : pc[t] = "idle"}) = 0
      BY <3>1, FS_EmptySet
    <3>3. IsFiniteSet(CPU)
      BY Finite, FS_Subset DEF IInv, TypeOK
    <3>4. Cardinality(CPU) \in Nat /\ idleCPU \in Nat /\ NumCPU \in Nat
      BY <3>3, Finite, FS_CardinalityType DEF IInv, TypeOK
    <3>5. idleCPU + Cardinality(CPU) + Cardinality({t \in Procs : pc[t] = "idle"}) = NumCPU
      BY DEF IInv, CountOK
    <3> QED BY <3>2, <3>4, <3>5
  <2>2. \A t \in Started : GetCore(id[t]) \in CPU
    BY CoreOf
  <2>3. ASSUME NEW c \in CPU PROVE \E t \in Started : c = GetCore(id[t])
    <3>1. PICK t \in Started : Finds(t, c)
      BY DEF IInv, CoreOK
    <3>2. c \in Cores
      BY DEF IInv, TypeOK
    <3> QED BY <3>1, <3>2, GetCoreIs
  <2> QED BY <2>1, <2>2, <2>3
<1> QED
  BY <1>1, Invariant, PTL

\* A step takes from the queue a process that none of those that stay is
\* shorter than.
LEMMA StepServesShortest ==
    ASSUME IInv, [Next]_vars
    PROVE  \A q \in Queued \ Queued' : \A r \in Queued' : pQueue.v[q].dt <= pQueue.v[r].dt
<1>1. ASSUME NEW c \in Cores, Assign(c)
      PROVE  \A q \in Queued \ Queued' : \A r \in Queued' : pQueue.v[q].dt <= pQueue.v[r].dt
  <2> DEFINE m == PQ!Min(pPQ)
             n == PQ!DelMin(Dt, pPQ)
  <2>1. pPQ' = n /\ pPQ.pq # << >>
    BY <1>1 DEF Assign, Served, PQ!IsEmpty
  <2>2. /\ m \in Queued /\ Holds(n.pq, Queued \ {m})
        /\ \A x \in Queued : Dt[m] <= Dt[x]
    BY <2>1, HeapIs, DelMinKeeps
  <2>3. Queued' = Queued \ {m}
    BY <2>1, <2>2 DEF Queued, Holds
  <2>4. \A x \in Queued : Dt[x] = pQueue.v[x].dt
    BY HeapIs, DtType DEF IInv
  <2> QED BY <2>2, <2>3, <2>4
<1>2. CASE Admit
  <2> DEFINE x == arrived + 1
             n == PQ!Insert(Dt, pPQ, x)
  <2>1. pPQ' = n /\ arrived \in 1 .. NumProcs /\ arrived < NumProcs
    BY <1>2 DEF Admit, IInv, TypeOK
  <2>2. x \in Procs \ Queued
    <3>1. Queued \subseteq 1 .. arrived
      BY DEF IInv, HeapOK
    <3> QED BY <2>1, <3>1, Finite DEF Procs
  <2> HIDE DEF x
  <2>3. Holds(n.pq, Queued \union {x})
    BY <2>2, HeapIs, InsertKeeps
  <2>4. Queued' = Queued \union {x}
    BY <2>1, <2>3 DEF Queued, Holds
  <2> QED BY <2>4
<1>3. ASSUME pPQ' = pPQ
      PROVE  \A q \in Queued \ Queued' : \A r \in Queued' : pQueue.v[q].dt <= pQueue.v[r].dt
  BY <1>3 DEF Queued
<1>4. ASSUME Scheduler PROVE Admit \/ (\E c \in Cores : Assign(c)) \/ pPQ' = pPQ
  BY <1>4 DEF Scheduler, Test, Admitted, LockMutex, Check, Wait, WriteOutput, Free, MainReturns,
              SkipCore, Collect, Join
<1>5. ASSUME WakeUp \/ Terminated \/ UNCHANGED vars PROVE pPQ' = pPQ
  BY <1>5 DEF WakeUp, Terminated, vars, schedVars
<1>6. ASSUME NEW t \in Procs, Thread(t) PROVE pPQ' = pPQ
  BY <1>6 DEF Thread, Take, Finish, Count, Output, Signal, Exit, schedVars
<1> QED
  BY <1>1, <1>2, <1>3, <1>4, <1>5, <1>6 DEF Next

\* The heap always gives out a shortest process of those that wait, and never
\* writes past its array.
THEOREM ShortestFirst == Spec => ServesShortest
<1>1. IInv /\ IInv' /\ [Next]_vars =>
         [/\ Len(pPQ'.pq) < pPQ'.length
          /\ \A q \in Queued \ Queued' : \A r \in Queued' :
                pQueue.v[q].dt <= pQueue.v[r].dt]_vars
  BY StepServesShortest DEF IInv, HeapOK
<1> QED
  BY <1>1, Invariant, PTL DEF Spec, ServesShortest

\* The four places a process can be in, as in NobodyLost.
InQueue(q) == {i \in DOMAIN pPQ.pq : pPQ.pq[i] = q}
InPool(q) == {c \in Cores : pool[c] = q}
InHands(q) == {t \in Procs : p[t] = q /\ pc[t] \in {"work", "idle", "output"}}
InOutput(q) == {l \in Procs : outInfo[l].name = q}

\* Where its thread is tells which of them it is.
LEMMA OnePlace ==
    ASSUME IInv, NEW q \in 1 .. arrived
    PROVE  Cardinality(InQueue(q)) + Cardinality(InPool(q)) + Cardinality(InHands(q))
             + Cardinality(InOutput(q)) = 1
<1>1. q \in Procs /\ ~(q > arrived) /\ q # None
  <2>1. arrived \in 1 .. NumProcs /\ NumProcs \in Nat
    BY Finite DEF IInv, TypeOK
  <2> QED BY <2>1 DEF Procs, None
<1>2. /\ pc[q] \in {"none", "start", "work", "idle", "output", "signal", "exit", "end"}
      /\ pQueue.v \in [Procs -> [t0 : Nat, dt : Nat \ {0}, nLine : Procs]]
  BY <1>1 DEF IInv, TypeOK
<1>3. IF pc[q] = "none" THEN \E i : InQueue(q) = {i} ELSE InQueue(q) = {}
  <2>1. pc[q] = "none" <=> q \in Queued
    BY <1>1 DEF IInv, ThreadOK
  <2>2. CASE q \in Queued
    <3>1. PICK i \in DOMAIN pPQ.pq : pPQ.pq[i] = q
      BY <2>2 DEF Queued, ToSet
    <3>2. InQueue(q) = {i}
      BY <3>1 DEF IInv, HeapOK, IsInjective, InQueue
    <3> QED BY <2>1, <2>2, <3>2
  <2>3. CASE q \notin Queued
    BY <2>1, <2>3 DEF Queued, ToSet, InQueue
  <2> QED BY <2>2, <2>3
<1>4. IF pc[q] = "start" THEN \E c : InPool(q) = {c} ELSE InPool(q) = {}
  <2>1. \A c \in Cores : pool[c] = q => pc[q] = "start" /\ Finds(q, c)
    BY <1>1 DEF IInv, CoreOK
  <2>2. CASE pc[q] = "start"
    <3>1. PICK c \in Cores : pool[c] = q
      BY <1>1, <2>2 DEF IInv, CoreOK
    <3>2. InPool(q) = {c}
      BY <2>1, <3>1, GetCoreIs DEF InPool
    <3> QED BY <2>2, <3>2
  <2>3. CASE pc[q] # "start"
    BY <2>1, <2>3 DEF InPool
  <2> QED BY <2>2, <2>3
<1>5. IF pc[q] \in {"work", "idle", "output"} THEN InHands(q) = {q} ELSE InHands(q) = {}
  <2>1. \A t \in Procs : pc[t] \in {"work", "idle", "output"} => p[t] = t
    BY DEF IInv, ThreadOK
  <2> QED BY <1>1, <2>1 DEF InHands
<1>6. IF pc[q] \in Over THEN \E l : InOutput(q) = {l} ELSE InOutput(q) = {}
  <2>1. ASSUME NEW l \in Procs, outInfo[l].name = q
        PROVE  pc[q] \in Over /\ l = pQueue.v[q].nLine
    <3>1. PICK r \in Procs : pQueue.v[r].nLine = l
      BY LineOf
    <3>2. pc[r] \in Over
      BY <1>1, <2>1, <3>1 DEF IInv, OutputOK, NULL
    <3>3. r = q
      BY <2>1, <3>1, <3>2 DEF IInv, OutputOK
    <3> QED BY <3>1, <3>2, <3>3
  <2>2. CASE pc[q] \in Over
    <3> DEFINE l == pQueue.v[q].nLine
    <3>1. l \in Procs /\ outInfo[l].name = q
      BY <1>1, <1>2, <2>2 DEF IInv, OutputOK
    <3>2. InOutput(q) = {l}
      BY <2>1, <3>1 DEF InOutput
    <3> QED BY <2>2, <3>2
  <2>3. CASE pc[q] \notin Over
    BY <2>1, <2>3 DEF InOutput
  <2> QED BY <2>2, <2>3
<1>7. Cardinality({}) = 0 /\ \A x : Cardinality({x}) = 1
  BY FS_EmptySet, FS_Singleton
<1>8. /\ Cardinality(InQueue(q)) = IF pc[q] = "none" THEN 1 ELSE 0
      /\ Cardinality(InPool(q)) = IF pc[q] = "start" THEN 1 ELSE 0
      /\ Cardinality(InHands(q)) = IF pc[q] \in {"work", "idle", "output"} THEN 1 ELSE 0
      /\ Cardinality(InOutput(q)) = IF pc[q] \in Over THEN 1 ELSE 0
  BY <1>3, <1>4, <1>5, <1>6, <1>7
<1> QED
  BY <1>2, <1>8 DEF Over

\* Every process that has arrived is in one place, and none is missing at the
\* end.
THEOREM NoneLost == Spec => []NobodyLost
<1>1. IInv => NobodyLost
  <2> SUFFICES ASSUME IInv PROVE NobodyLost
    OBVIOUS
  <2>1. \A q \in 1 .. arrived :
           Cardinality({i \in DOMAIN pPQ.pq : pPQ.pq[i] = q})
             + Cardinality({c \in Cores : pool[c] = q})
             + Cardinality({t \in Procs : p[t] = q /\ pc[t] \in {"work", "idle", "output"}})
             + Cardinality({l \in Procs : outInfo[l].name = q}) = 1
    BY OnePlace DEF InQueue, InPool, InHands, InOutput
  <2>2. stage[1] \in {"free", "main", "done"} =>
           /\ Len(outfile) = NumProcs /\ ToSet(outfile) = Procs
           /\ \A t \in Procs : pc[t] \in {"signal", "exit", "end"}
    BY DEF IInv, OutputOK, Over
  <2> QED BY <2>1, <2>2 DEF NobodyLost
<1> QED
  BY <1>1, Invariant, PTL

=============================================================================
