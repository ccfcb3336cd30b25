----------------------- MODULE DependencyGraphProofs -----------------------
(***************************************************************************)
(* Proofs about DependencyGraph for every number of bikers and lanes,      *)
(* every Threshold and every sequence of graphs.  The inductive invariant  *)
(* is the conjunction of                                                   *)
(*   Typed     the types;                                                  *)
(*   StageOK   between two rounds no node has been seen;                   *)
(*   StackOK   the stack is in the order of the numbers of its nodes;      *)
(*   CallsOK   so are the nodes of the calls, which are on the stack;      *)
(*   EdgesOK   where the edges lead that were looked at, and that no edge  *)
(*             leaves the finished components;                             *)
(*   PathsOK   the node of a call reaches all above it on the stack, and   *)
(*             every node on the stack reaches one of a call below it;     *)
(*   LowOK     low of a call's node is the number of a node it reaches,    *)
(*             and bounds those that edges lead to from above it;          *)
(*   ListOK    the list of stacks has the finished components that are     *)
(*             large, each once.                                           *)
(* Of Reach four facts are used (ReachIs): it contains the edges, is       *)
(* reflexive and transitive, and leaves no set that no edge leaves.        *)
(***************************************************************************)
EXTENDS DependencyGraph, ProofLemmas

LEMMA Sizes ==
    /\ V \in Nat \ {0} /\ Threshold \in Nat \ {0} /\ NumLanes \in Nat \ {0}
    /\ Nodes = 1 .. V /\ Nodes \subseteq Nat
    /\ IsFiniteSet(Nodes) /\ Cardinality(Nodes) = V
<1>1. V \in Nat \ {0} /\ Threshold \in Nat \ {0} /\ NumLanes \in Nat \ {0}
  BY GraphAssumption
<1>2. Cardinality(1 .. V) = IF 1 > V THEN 0 ELSE V - 1 + 1
  BY <1>1, FS_Interval
<1>3. IsFiniteSet(1 .. V)
  BY <1>1, FS_Interval
<1> QED
  BY <1>1, <1>2, <1>3 DEF Nodes

-----------------------------------------------------------------------------
(* Reachability. *)

\* A set that no edge leaves.
Closed(S) == \A x \in S : adj[x] \subseteq S

\* r knows the edges and the paths through 1 .. k, and leads no further than
\* the edges.
Through(r, k) ==
    /\ r \in [Nodes -> SUBSET Nodes]
    /\ \A u \in Nodes : u \in r[u] /\ adj[u] \subseteq r[u]
    /\ \A u, w \in Nodes : w <= k /\ w \in r[u] => r[w] \subseteq r[u]
    /\ \A S \in SUBSET Nodes : Closed(S) => \A u \in S : r[u] \subseteq S

Direct == [u \in Nodes |-> adj[u] \union {u}]

\* One more node to go through.
Longer(r, k) == [u \in Nodes |-> r[u] \union (IF k \in r[u] THEN r[k] ELSE {})]

ReachLoop(via) ==
    via = [k \in 0 .. V |-> IF k = 0 THEN Direct ELSE Longer(via[k - 1], k)]

LEMMA ReachIsLoop == Reach = (CHOOSE via : ReachLoop(via))[V]
BY DEF Reach, ReachLoop, Direct, Longer

LEMMA LongerIs ==
    ASSUME NEW k \in Nodes, NEW r, Through(r, k - 1)
    PROVE  Through(Longer(r, k), k)
<1> DEFINE n == Longer(r, k)
<1>1. r \in [Nodes -> SUBSET Nodes]
  BY DEF Through
<1>2. \A u \in Nodes : n[u] = r[u] \union (IF k \in r[u] THEN r[k] ELSE {})
  BY DEF Longer
<1>3. n \in [Nodes -> SUBSET Nodes]
  <2>1. \A u \in Nodes : r[u] \union (IF k \in r[u] THEN r[k] ELSE {}) \in SUBSET Nodes
    BY <1>1
  <2> QED BY <2>1 DEF Longer
<1> HIDE DEF n
<1>4. \A u \in Nodes : u \in n[u] /\ adj[u] \subseteq n[u]
  BY <1>2 DEF Through
<1>5. ASSUME NEW u \in Nodes, NEW w \in Nodes, w <= k, w \in n[u]
      PROVE  n[w] \subseteq n[u]
  <2>1. w # k => \A x \in Nodes : w \in r[x] => r[w] \subseteq r[x]
    <3>1. w # k => w <= k - 1
      BY <1>5, Sizes
    <3> QED BY <3>1 DEF Through
  <2>2. n[w] = r[w] \union (IF k \in r[w] THEN r[k] ELSE {})
    BY <1>2
  <2>3. n[u] = r[u] \union (IF k \in r[u] THEN r[k] ELSE {})
    BY <1>2
  <2>4. CASE w = k
    <3>1. k \in r[u]
      BY <1>5, <2>3, <2>4
    <3> QED BY <2>2, <2>3, <2>4, <3>1
  <2>5. CASE w # k /\ w \in r[u]
    BY <2>1, <2>2, <2>3, <2>5
  <2>6. CASE w # k /\ w \notin r[u]
    <3>1. k \in r[u] /\ w \in r[k]
      BY <1>5, <2>3, <2>6
    <3>2. r[w] \subseteq r[k]
      BY <2>1, <2>6, <3>1
    <3> QED BY <2>2, <2>3, <3>1, <3>2
  <2> QED BY <2>4, <2>5, <2>6
<1>6. ASSUME NEW S \in SUBSET Nodes, Closed(S), NEW u \in S
      PROVE  n[u] \subseteq S
  <2>1. r[u] \subseteq S /\ (k \in S => r[k] \subseteq S)
    BY <1>6 DEF Through
  <2> QED BY <1>2, <2>1
<1> QED
  BY <1>3, <1>4, <1>5, <1>6 DEF Through, n

LEMMA DirectIs ==
    ASSUME adj \in [Nodes -> SUBSET Nodes]
    PROVE  Through(Direct, 0)
<1>1. \A u \in Nodes : Direct[u] = adj[u] \union {u}
  BY DEF Direct
<1>2. Direct \in [Nodes -> SUBSET Nodes]
  <2>1. \A u \in Nodes : adj[u] \union {u} \in SUBSET Nodes
    OBVIOUS
  <2> QED BY <2>1 DEF Direct
<1>3. \A w \in Nodes : ~(w <= 0)
  BY Sizes
<1> QED
  BY <1>1, <1>2, <1>3 DEF Through, Closed

LEMMA ReachThrough ==
    ASSUME adj \in [Nodes -> SUBSET Nodes]
    PROVE  Through(Reach, V)
<1>1. PICK n \in Nat : n = V
  BY Sizes
<1> DEFINE I == [k \in 0 .. n |-> {r \in [Nodes -> SUBSET Nodes] : Through(r, k)}]
           turn == [k \in 1 .. n |-> [r \in [Nodes -> SUBSET Nodes] |-> Longer(r, k)]]
           e == CHOOSE via : ReachLoop(via)
<1>2. Direct \in I[0]
  <2>1. 0 \in 0 .. n
    BY <1>1
  <2>2. Direct \in {r \in [Nodes -> SUBSET Nodes] : Through(r, 0)}
    BY DirectIs DEF Through
  <2> QED BY <2>1, <2>2
<1>3. \A k \in 1 .. n : \A r \in I[k - 1] : Longer(r, k) \in I[k] /\ turn[k][r] = Longer(r, k)
  <2> TAKE k \in 1 .. n
  <2>1. k \in Nodes /\ k \in 0 .. n /\ k - 1 \in 0 .. n
    BY <1>1, Sizes
  <2> TAKE r \in I[k - 1]
  <2>2. r \in [Nodes -> SUBSET Nodes] /\ Through(r, k - 1)
    BY <2>1
  <2>3. Through(Longer(r, k), k)
    BY <2>1, <2>2, LongerIs
  <2>4. Longer(r, k) \in [Nodes -> SUBSET Nodes]
    BY <2>3 DEF Through
  <2> QED BY <2>1, <2>2, <2>3, <2>4
<1> HIDE DEF I, turn
<1>4. PICK f : Staged(n, I, Direct, turn, f)
  BY <1>2, <1>3, StagedLoop
<1>5. /\ f[0] = Direct /\ f = [k \in 0 .. n |-> f[k]]
      /\ \A k \in 1 .. n : f[k] = turn[k][f[k - 1]]
      /\ \A k \in 0 .. n : f[k] \in I[k]
  BY <1>4 DEF Staged
<1>6. \A k \in 1 .. n : f[k] = Longer(f[k - 1], k)
  <2> TAKE k \in 1 .. n
  <2>1. f[k - 1] \in I[k - 1]
    BY <1>5
  <2> QED BY <1>3, <1>5, <2>1
<1>7. ReachLoop(f)
  <2>1. \A k \in 0 .. n : f[k] = IF k = 0 THEN Direct ELSE Longer(f[k - 1], k)
    <3> TAKE k \in 0 .. n
    <3>1. CASE k = 0
      BY <1>5, <3>1
    <3>2. CASE k # 0
      <4>1. k \in 1 .. n
        BY <3>2
      <4> QED BY <1>6, <3>2, <4>1
    <3> QED BY <3>1, <3>2
  <2> QED BY <1>1, <1>5, <2>1 DEF ReachLoop
<1>8. ReachLoop(e)
  BY <1>7
<1> HIDE DEF e
<1>9. e[0] = Direct /\ \A k \in 1 .. n : e[k] = Longer(e[k - 1], k)
  BY <1>1, <1>8 DEF ReachLoop
<1>10. \A k \in 0 .. n : e[k] \in I[k]
  <2>1. e[0] \in I[0]
    BY <1>2, <1>9
  <2>2. \A k \in 1 .. n : e[k - 1] \in I[k - 1] => e[k] \in I[k]
    BY <1>3, <1>9
  <2> QED BY <2>1, <2>2, LoopInvariant
<1>11. Reach = e[n] /\ n \in 0 .. n
  BY <1>1, ReachIsLoop DEF e
<1> QED
  BY <1>1, <1>10, <1>11 DEF I

\* Reach is reflexive, transitive, contains the edges, and leaves no closed set.
LEMMA ReachIs ==
    ASSUME adj \in [Nodes -> SUBSET Nodes]
    PROVE  /\ Reach \in [Nodes -> SUBSET Nodes]
           /\ \A u \in Nodes : u \in Reach[u] /\ adj[u] \subseteq Reach[u]
           /\ \A u, w \in Nodes : w \in Reach[u] => Reach[w] \subseteq Reach[u]
           /\ \A S \in SUBSET Nodes : Closed(S) => \A u \in S : Reach[u] \subseteq S
<1>1. Through(Reach, V)
  BY ReachThrough
<1>2. \A w \in Nodes : w <= V
  BY Sizes
<1> QED
  BY <1>1, <1>2 DEF Through

\* Components are the classes of the nodes that reach each other.
LEMMA ComponentIs ==
    ASSUME adj \in [Nodes -> SUBSET Nodes]
    PROVE  /\ \A u \in Nodes : Component(u) \subseteq Nodes /\ u \in Component(u)
           /\ \A u, v \in Nodes : v \in Component(u) <=> v \in Reach[u] /\ u \in Reach[v]
           /\ \A u, v \in Nodes : v \in Component(u) => Component(v) = Component(u)
<1>1. /\ Reach \in [Nodes -> SUBSET Nodes]
      /\ \A u \in Nodes : u \in Reach[u]
      /\ \A u, w \in Nodes : w \in Reach[u] => Reach[w] \subseteq Reach[u]
  BY ReachIs
<1>2. \A u : Component(u) = {v \in Reach[u] : u \in Reach[v]}
  BY DEF Component
<1>3. \A u \in Nodes : Component(u) \subseteq Nodes /\ u \in Component(u)
  BY <1>1, <1>2
<1>4. \A u, v \in Nodes : v \in Component(u) <=> v \in Reach[u] /\ u \in Reach[v]
  BY <1>2
<1>5. ASSUME NEW u \in Nodes, NEW v \in Nodes, v \in Component(u)
      PROVE  Component(v) = Component(u)
  <2>1. v \in Reach[u] /\ u \in Reach[v]
    BY <1>4, <1>5
  <2>2. Reach[v] = Reach[u]
    BY <1>1, <2>1
  <2>3. \A x \in Nodes : x \in Reach[u] /\ u \in Reach[x] => v \in Reach[x]
    BY <1>1, <2>1
  <2>4. \A x \in Nodes : x \in Reach[v] /\ v \in Reach[x] => u \in Reach[x]
    BY <1>1, <2>1
  <2>5. \A x \in Nodes : x \in Component(u) <=> x \in Component(v)
    BY <1>4, <2>2, <2>3, <2>4
  <2> QED BY <1>3, <2>5
<1> QED
  BY <1>3, <1>4, <1>5

-----------------------------------------------------------------------------
(* The inductive invariant. *)

Frames == [u : Nodes, rest : SUBSET Nodes]

Typed ==
    /\ stage \in {"ride", "SCC"}
    /\ adj \in [Nodes -> SUBSET Nodes]
    /\ calls \in Seq(Frames)
    /\ timeG \in Nat
    /\ disc \in [Nodes -> Nat]
    /\ low \in [Nodes -> Nat]
    /\ st \in Seq(Nodes)
    /\ stackMember \in [Nodes -> BOOLEAN]
    /\ sccl \in Seq(Seq(Nodes))

\* The nodes on the stack, those in finished components, those whose calls
\* have not returned.
On == {x \in Nodes : stackMember[x]}
Done == {x \in Nodes : disc[x] # Unseen /\ ~stackMember[x]}
Active == {calls[i].u : i \in 1 .. Len(calls)}

\* Between two rounds no node has been seen.
StageOK == stage = "ride" => calls = << >> /\ \A x \in Nodes : disc[x] = Unseen

\* st is in the order in which its nodes were discovered.
StackOK ==
    /\ ToSet(st) = On
    /\ \A i, j \in 1 .. Len(st) : i < j => disc[st[i]] < disc[st[j]]
    /\ \A x \in Nodes : disc[x] <= timeG
    /\ \A x \in On : disc[x] # Unseen

CallsOK ==
    /\ \A i \in 1 .. Len(calls) : calls[i].u \in On /\ calls[i].rest \subseteq adj[calls[i].u]
    /\ \A i, j \in 1 .. Len(calls) : i < j => disc[calls[i].u] < disc[calls[j].u]

\* Edges that were looked at lead to nodes seen, those of finished components
\* to finished components.
EdgesOK ==
    /\ \A x \in Nodes : disc[x] # Unseen /\ x \notin Active => \A t \in adj[x] : disc[t] # Unseen
    /\ \A i \in 1 .. Len(calls) : \A t \in adj[calls[i].u] \ calls[i].rest : disc[t] # Unseen
    /\ \A x \in Done : adj[x] \subseteq Done

\* The node of a call reaches all nodes above it on the stack, and every node
\* on the stack reaches that of a call below it, or its own.
PathsOK ==
    /\ \A x \in Active, y \in On : disc[x] <= disc[y] => y \in Reach[x]
    /\ \A y \in On : \E x \in Active : disc[x] <= disc[y] /\ x \in Reach[y]

\* The nodes on the stack whose calls were made by call i and have returned.
Returned(i) ==
    {y \in On : /\ disc[calls[i].u] < disc[y]
                /\ i # Len(calls) => disc[y] < disc[calls[i + 1].u]}

\* low of a call's node is the number of a node on the stack that it reaches,
\* and at most those of the nodes on the stack to which edges that were looked at lead.
LowOK ==
    \A i \in 1 .. Len(calls) :
       /\ low[calls[i].u] <= disc[calls[i].u]
       /\ \E y \in On : disc[y] = low[calls[i].u] /\ y \in Reach[calls[i].u]
       /\ \A y \in Returned(i) : \A z \in adj[y] \intersect On : low[calls[i].u] <= disc[z]
       /\ \A z \in (adj[calls[i].u] \ calls[i].rest) \intersect On : low[calls[i].u] <= disc[z]

\* The list has the large components of the nodes in D, each once.
Holds(list, D) ==
    /\ \A i \in 1 .. Len(list) : list[i] # << >> =>
          /\ IsInjective(list[i]) /\ Cardinality(ToSet(list[i])) >= Threshold
          /\ \E x \in D : ToSet(list[i]) = Component(x)
    /\ \A i, j \in 1 .. Len(list) : list[i] # << >> /\ ToSet(list[i]) = ToSet(list[j]) => i = j
    /\ \A x \in D : Cardinality(Component(x)) >= Threshold =>
          \E i \in 1 .. Len(list) : ToSet(list[i]) = Component(x)

ListOK == Holds(sccl, Done) /\ Len(sccl) <= V \div Threshold + 1

IInv == Typed /\ StageOK /\ StackOK /\ CallsOK /\ EdgesOK /\ PathsOK /\ LowOK /\ ListOK

-----------------------------------------------------------------------------
(* Calls and steps. *)

LEMMA PrefixIs ==
    ASSUME NEW S, NEW s \in Seq(S), NEW k \in Nat, k <= Len(s)
    PROVE  /\ SubSeq(s, 1, k) \in Seq(S) /\ Len(SubSeq(s, 1, k)) = k
           /\ \A i \in 1 .. k : SubSeq(s, 1, k)[i] = s[i]
<1>1. \A i \in 1 .. k : s[i] \in S
  <2>1. Len(s) \in Nat /\ \A i \in 1 .. k : i \in 1 .. Len(s)
    BY LenProperties
  <2> QED BY <2>1, ElementOfSeq
<1>2. /\ SubSeq(s, 1, k) \in Seq(S)
      /\ Len(SubSeq(s, 1, k)) = IF 1 <= k THEN k - 1 + 1 ELSE 0
      /\ \A i \in 1 .. k - 1 + 1 : SubSeq(s, 1, k)[i] = s[1 + i - 1]
  <2>1. 1 \in Int /\ k \in Int
    OBVIOUS
  <2> QED BY <1>1, <2>1, SubSeqProperties
<1>3. k - 1 + 1 = k /\ (~(1 <= k) => k = 0) /\ \A i \in 1 .. k : 1 + i - 1 = i
  OBVIOUS
<1> QED
  BY <1>2, <1>3

LEMMA CallIs ==
    ASSUME Typed, calls # << >>
    PROVE  /\ Len(calls) \in Nat \ {0}
           /\ Call = calls[Len(calls)] /\ Call.u \in Nodes /\ Call.rest \subseteq Nodes
           /\ Front(calls) \in Seq(Frames) /\ Len(Front(calls)) = Len(calls) - 1
           /\ \A i \in 1 .. Len(calls) - 1 : Front(calls)[i] = calls[i]
           /\ \A t : /\ After(t) \in Seq(Frames) /\ Len(After(t)) = Len(calls)
                     /\ \A i \in 1 .. Len(calls) :
                           /\ After(t)[i].u = calls[i].u
                           /\ After(t)[i].rest = IF i = Len(calls) THEN calls[i].rest \ {t}
                                                 ELSE calls[i].rest
<1>1. calls \in Seq(Frames) /\ Len(calls) \in Nat
  BY DEF Typed
<1>2. Len(calls) # 0 /\ Len(calls) \in 1 .. Len(calls)
  BY <1>1
<1>3. \A i \in 1 .. Len(calls) : calls[i] \in Frames
  BY <1>1
<1>4. Call = calls[Len(calls)] /\ Call \in Frames
  BY <1>2, <1>3 DEF Call, Last
<1>5. /\ Front(calls) \in Seq(Frames) /\ Len(Front(calls)) = Len(calls) - 1
      /\ \A i \in 1 .. Len(calls) - 1 : Front(calls)[i] = calls[i]
  <2>1. Len(calls) - 1 \in Nat /\ Len(calls) - 1 <= Len(calls)
    BY <1>1, <1>2
  <2>2. Front(calls) = SubSeq(calls, 1, Len(calls) - 1)
    BY DEF Front
  <2> QED BY <1>1, <2>1, <2>2, PrefixIs
<1>6. ASSUME NEW t
      PROVE  /\ After(t) \in Seq(Frames) /\ Len(After(t)) = Len(calls)
             /\ \A i \in 1 .. Len(calls) :
                   /\ After(t)[i].u = calls[i].u
                   /\ After(t)[i].rest = IF i = Len(calls) THEN calls[i].rest \ {t}
                                         ELSE calls[i].rest
  <2> DEFINE n == Len(calls)
             top == [calls[n] EXCEPT !.rest = @ \ {t}]
  <2>1. After(t) = [calls EXCEPT ![n] = top]
    BY DEF After
  <2>2. /\ top \in Frames /\ top.u = calls[n].u /\ top.rest = calls[n].rest \ {t}
    <3>1. calls[n] \in Frames
      BY <1>2, <1>3
    <3> QED BY <3>1 DEF Frames
  <2>3. n \in 1 .. n
    BY <1>2
  <2> HIDE DEF top
  <2>4. After(t) \in Seq(Frames) /\ Len(After(t)) = n
    BY <1>1, <2>1, <2>2, <2>3
  <2>5. \A i \in 1 .. n : After(t)[i] = IF i = n THEN top ELSE calls[i]
    BY <1>1, <2>1, <2>3
  <2> QED BY <2>2, <2>4, <2>5
<1> QED
  BY <1>1, <1>2, <1>4, <1>5, <1>6 DEF Frames

LEMMA ReachSame ==
    ASSUME adj' = adj
    PROVE  Reach' = Reach /\ \A x : Component(x)' = Component(x)
<1>1. Reach' = Reach
  BY DEF Reach
<1> QED
  BY <1>1 DEF Component

LEMMA SmallerIs ==
    ASSUME NEW a \in Nat, NEW b \in Nat
    PROVE  /\ Smaller(a, b) \in Nat /\ Smaller(a, b) <= a /\ Smaller(a, b) <= b
           /\ Smaller(a, b) = a \/ Smaller(a, b) = b
<1>1. {a, b} \subseteq Nat /\ {a, b} # {}
  OBVIOUS
<1>2. Min({a, b}) \in {a, b} /\ \A y \in {a, b} : Min({a, b}) <= y
  BY <1>1, MinIn
<1> QED
  BY <1>2 DEF Smaller

\* Nodes that have been seen are on the stack or in a finished component.
LEMMA Nowhere ==
    ASSUME Typed, PathsOK, calls = << >>
    PROVE  On = {}
<1>1. Active = {}
  BY DEF Active
<1> QED
  BY <1>1 DEF PathsOK

\* Nodes on the stack with the same number are the same.
LEMMA OneNumber ==
    ASSUME Typed, StackOK, NEW x \in On, NEW y \in On, disc[x] = disc[y]
    PROVE  x = y
<1>1. st \in Seq(Nodes) /\ Len(st) \in Nat /\ ToSet(st) = {st[i] : i \in 1 .. Len(st)}
  BY DEF Typed, ToSet
<1>2. PICK i \in 1 .. Len(st) : st[i] = x
  BY <1>1 DEF StackOK
<1>3. PICK j \in 1 .. Len(st) : st[j] = y
  BY <1>1 DEF StackOK
<1>4. i = j \/ i < j \/ j < i
  OBVIOUS
<1>5. \A k \in 1 .. Len(st) : disc[st[k]] \in Nat
  <2>1. \A k \in 1 .. Len(st) : st[k] \in Nodes
    BY <1>1, ElementOfSeq
  <2> QED BY <2>1 DEF Typed
<1>6. ~(i < j) /\ ~(j < i)
  BY <1>2, <1>3, <1>5 DEF StackOK
<1> QED
  BY <1>2, <1>3, <1>4, <1>6

\* The nodes of different calls are different, later ones have higher numbers.
LEMMA ActiveIs ==
    ASSUME Typed, CallsOK
    PROVE  /\ Active \subseteq On
           /\ \A i, j \in 1 .. Len(calls) : calls[i].u = calls[j].u => i = j
           /\ calls # << >> => \A x \in Active : x = Call.u \/ disc[x] < disc[Call.u]
<1>1. calls \in Seq(Frames) /\ Len(calls) \in Nat
  BY DEF Typed
<1>2. \A i \in 1 .. Len(calls) : calls[i].u \in Nodes /\ disc[calls[i].u] \in Nat
  <2> TAKE i \in 1 .. Len(calls)
  <2>1. calls[i] \in Frames
    BY <1>1, ElementOfSeq
  <2>2. calls[i].u \in Nodes
    BY <2>1 DEF Frames
  <2> QED BY <2>2 DEF Typed
<1>3. Active \subseteq On
  BY DEF Active, CallsOK
<1>4. ASSUME NEW i \in 1 .. Len(calls), NEW j \in 1 .. Len(calls), calls[i].u = calls[j].u
      PROVE  i = j
  <2>1. ~(i < j) /\ ~(j < i)
    BY <1>2, <1>4 DEF CallsOK
  <2> QED BY <2>1
<1>5. ASSUME calls # << >>, NEW x \in Active
      PROVE  x = Call.u \/ disc[x] < disc[Call.u]
  <2>1. PICK i \in 1 .. Len(calls) : calls[i].u = x
    BY <1>5 DEF Active
  <2>2. Call = calls[Len(calls)] /\ Len(calls) \in 1 .. Len(calls)
    BY <1>5, CallIs
  <2>3. i = Len(calls) \/ i < Len(calls)
    BY <2>1, <1>1
  <2> QED BY <2>1, <2>2, <2>3 DEF CallsOK
<1> QED
  BY <1>3, <1>4, <1>5

\* The call of SCC_aux(t) keeps the invariant.
LEMMA EnterKeeps ==
    ASSUME IInv, stage = "SCC", NEW t \in Nodes, disc[t] = Unseen,
           NEW below \in Seq(Frames), Len(below) = Len(calls),
           \A i \in 1 .. Len(calls) :
              /\ below[i].u = calls[i].u /\ below[i].rest \subseteq calls[i].rest
              /\ calls[i].rest \ below[i].rest \subseteq {t},
           \A x \in Active : t \in Reach[x],
           Enter(t, below, low)
    PROVE  IInv'
<1>0. Typed /\ StageOK /\ StackOK /\ CallsOK /\ EdgesOK /\ PathsOK /\ LowOK /\ ListOK
  BY DEF IInv
<1>1. PICK n \in Nat : n = Len(calls)
  BY <1>0 DEF Typed
<1>2. /\ stage' = stage /\ adj' = adj /\ sccl' = sccl
      /\ calls' = Append(below, [u |-> t, rest |-> adj[t]])
      /\ timeG' = timeG + 1 /\ st' = Append(st, t)
      /\ disc' = [disc EXCEPT ![t] = timeG + 1]
      /\ low' = [low EXCEPT ![t] = timeG + 1]
      /\ stackMember' = [stackMember EXCEPT ![t] = TRUE]
  BY DEF Enter, Push
<1>3. /\ timeG \in Nat /\ disc \in [Nodes -> Nat] /\ low \in [Nodes -> Nat]
      /\ stackMember \in [Nodes -> BOOLEAN] /\ adj \in [Nodes -> SUBSET Nodes]
      /\ st \in Seq(Nodes) /\ calls \in Seq(Frames)
  BY <1>0 DEF Typed
<1>4. /\ \A x \in Nodes : disc'[x] = IF x = t THEN timeG + 1 ELSE disc[x]
      /\ \A x \in Nodes : low'[x] = IF x = t THEN timeG + 1 ELSE low[x]
      /\ \A x \in Nodes : stackMember'[x] <=> x = t \/ stackMember[x]
      /\ \A x \in Nodes : disc[x] <= timeG /\ disc[x] \in Nat
  BY <1>0, <1>2, <1>3 DEF StackOK
<1>5. On' = On \union {t} /\ t \notin On /\ Done' = Done /\ On \subseteq Nodes
  <2>1. t \notin On
    BY <1>0 DEF StackOK
  <2>2. On' = On \union {t}
    BY <1>4 DEF On
  <2>3. Done' = {x \in Nodes : disc'[x] # Unseen /\ ~stackMember'[x]}
    BY DEF Done
  <2>4. \A x \in Nodes : disc'[x] # Unseen /\ ~stackMember'[x] <=> disc[x] # Unseen /\ ~stackMember[x]
    BY <1>4
  <2> QED BY <2>1, <2>2, <2>3, <2>4 DEF Done, On
<1>6. /\ calls' \in Seq(Frames) /\ Len(calls') = n + 1
      /\ \A i \in 1 .. n : calls'[i] = below[i]
      /\ calls'[n + 1] = [u |-> t, rest |-> adj[t]]
  <2>1. [u |-> t, rest |-> adj[t]] \in Frames
    BY <1>3 DEF Frames
  <2> QED BY <1>1, <1>2, <2>1
<1>7. /\ \A i \in 1 .. n : calls'[i].u = calls[i].u /\ calls'[i].rest \subseteq calls[i].rest
      /\ \A i \in 1 .. n : calls[i].rest \ calls'[i].rest \subseteq {t}
      /\ calls'[n + 1].u = t /\ calls'[n + 1].rest = adj[t]
      /\ \A i \in 1 .. n : calls[i].u \in On /\ calls[i].u # t
  <2>1. \A i \in 1 .. n : calls[i].u \in On
    BY <1>0, <1>1 DEF CallsOK
  <2> QED BY <1>1, <1>5, <1>6, <2>1
<1>8. \A i \in 1 .. n + 1 : i = n + 1 \/ i \in 1 .. n
  OBVIOUS
<1>9. Active' = Active \union {t}
  <2>1. Active' = {calls'[i].u : i \in 1 .. n + 1}
    BY <1>6 DEF Active
  <2>2. Active = {calls[i].u : i \in 1 .. n}
    BY <1>1 DEF Active
  <2>3. \A x \in Active' : x \in Active \union {t}
    BY <1>7, <1>8, <2>1, <2>2
  <2>4. t \in Active'
    <3>1. n + 1 \in 1 .. n + 1
      OBVIOUS
    <3> QED BY <1>7, <2>1, <3>1
  <2>5. \A x \in Active : x \in Active'
    <3>1. \A i \in 1 .. n : i \in 1 .. n + 1
      OBVIOUS
    <3> QED BY <1>7, <2>1, <2>2, <3>1
  <2> QED BY <2>3, <2>4, <2>5
<1>10. Reach' = Reach /\ \A x : Component(x)' = Component(x)
  BY <1>2, ReachSame
<1>11. Reach \in [Nodes -> SUBSET Nodes] /\ \A u \in Nodes : u \in Reach[u]
  BY <1>3, ReachIs
<1>12. Typed'
  <2>1. timeG' \in Nat /\ disc' \in [Nodes -> Nat] /\ low' \in [Nodes -> Nat]
    BY <1>2, <1>3
  <2>2. stackMember' \in [Nodes -> BOOLEAN] /\ st' \in Seq(Nodes)
    BY <1>2, <1>3
  <2> QED BY <1>0, <1>2, <1>6, <2>1, <2>2 DEF Typed
<1>13. StageOK'
  BY <1>2 DEF StageOK
<1>14. StackOK'
  <2>1. ToSet(st') = On'
    BY <1>0, <1>2, <1>3, <1>5, AppendQueue DEF StackOK
  <2>0. Len(st) \in Nat /\ \A i \in 1 .. Len(st) : st[i] \in ToSet(st)
    BY <1>3, LenProperties DEF ToSet
  <2>2. PICK m \in Nat : m = Len(st)
    BY <2>0
  <2>3. /\ Len(st') = m + 1 /\ st'[m + 1] = t
        /\ \A i \in 1 .. m : st'[i] = st[i] /\ st[i] \in On /\ st[i] # t
    <3>1. \A i \in 1 .. m : st[i] \in ToSet(st)
      BY <2>0, <2>2
    <3>2. \A i \in 1 .. m : st[i] \in On /\ st[i] # t
      BY <1>0, <1>5, <3>1 DEF StackOK
    <3> QED BY <1>2, <1>3, <2>2, <3>2
  <2>4. ASSUME NEW i \in 1 .. m + 1, NEW j \in 1 .. m + 1, i < j
        PROVE  disc'[st'[i]] < disc'[st'[j]]
    <3>1. i \in 1 .. m /\ (j = m + 1 \/ j \in 1 .. m)
      BY <2>4
    <3>2. st'[i] = st[i] /\ st[i] \in Nodes /\ disc'[st[i]] = disc[st[i]] /\ disc[st[i]] <= timeG
      BY <1>4, <1>5, <2>3, <3>1
    <3>3. CASE j = m + 1
      <4>1. disc'[st'[j]] = timeG + 1
        BY <1>4, <2>3, <3>3
      <4> QED BY <1>3, <1>4, <3>2, <4>1
    <3>4. CASE j \in 1 .. m
      <4>1. st'[j] = st[j] /\ disc'[st[j]] = disc[st[j]]
        BY <1>4, <1>5, <2>3, <3>4
      <4>2. disc[st[i]] < disc[st[j]]
        BY <1>0, <2>2, <2>4, <3>1, <3>4 DEF StackOK
      <4> QED BY <3>2, <4>1, <4>2
    <3> QED BY <3>1, <3>3, <3>4
  <2>5. \A x \in Nodes : disc'[x] <= timeG'
    BY <1>2, <1>3, <1>4
  <2>6. \A x \in On' : disc'[x] # Unseen
    BY <1>0, <1>3, <1>4, <1>5 DEF StackOK, Unseen
  <2> QED BY <2>1, <2>3, <2>4, <2>5, <2>6 DEF StackOK
<1>15. CallsOK'
  <2>1. \A i \in 1 .. n + 1 : calls'[i].u \in On' /\ calls'[i].rest \subseteq adj[calls'[i].u]
    <3>1. \A i \in 1 .. n : calls[i].rest \subseteq adj[calls[i].u]
      BY <1>0, <1>1 DEF CallsOK
    <3> QED BY <1>5, <1>7, <1>8, <3>1
  <2>2. ASSUME NEW i \in 1 .. n + 1, NEW j \in 1 .. n + 1, i < j
        PROVE  disc'[calls'[i].u] < disc'[calls'[j].u]
    <3>1. i \in 1 .. n /\ (j = n + 1 \/ j \in 1 .. n)
      BY <2>2
    <3>2. calls'[i].u = calls[i].u /\ disc'[calls[i].u] = disc[calls[i].u] /\ disc[calls[i].u] <= timeG
          /\ disc[calls[i].u] \in Nat
      BY <1>4, <1>5, <1>7, <3>1
    <3>3. CASE j = n + 1
      <4>1. disc'[calls'[j].u] = timeG + 1
        BY <1>4, <1>7, <3>3
      <4> QED BY <1>3, <3>2, <4>1
    <3>4. CASE j \in 1 .. n
      <4>1. calls'[j].u = calls[j].u /\ disc'[calls[j].u] = disc[calls[j].u]
        BY <1>4, <1>5, <1>7, <3>4
      <4>2. disc[calls[i].u] < disc[calls[j].u]
        BY <1>0, <1>1, <2>2, <3>1, <3>4 DEF CallsOK
      <4> QED BY <3>2, <4>1, <4>2
    <3> QED BY <3>1, <3>3, <3>4
  <2> QED BY <1>2, <1>6, <2>1, <2>2 DEF CallsOK
<1>16. \A x \in Nodes : disc[x] # Unseen => disc'[x] # Unseen
  BY <1>3, <1>4 DEF Unseen
<1>17. EdgesOK'
  <2>1. ASSUME NEW x \in Nodes, disc'[x] # Unseen, x \notin Active', NEW z \in adj[x]
        PROVE  disc'[z] # Unseen
    <3>1. x # t /\ x \notin Active
      BY <1>9, <2>1
    <3>2. disc[x] # Unseen
      BY <1>4, <2>1, <3>1
    <3>3. disc[z] # Unseen
      BY <1>0, <2>1, <3>1, <3>2 DEF EdgesOK
    <3> QED BY <1>3, <1>16, <3>3
  <2>2. ASSUME NEW i \in 1 .. n + 1, NEW z \in adj[calls'[i].u] \ calls'[i].rest
        PROVE  disc'[z] # Unseen
    <3>1. i \in 1 .. n
      BY <1>7, <1>8, <2>2
    <3>2. z = t \/ z \in adj[calls[i].u] \ calls[i].rest
      BY <1>7, <2>2, <3>1
    <3>3. z \in Nodes
      BY <1>3, <1>5, <1>7, <2>2, <3>1
    <3>4. z # t => disc[z] # Unseen
      BY <1>0, <1>1, <3>1, <3>2 DEF EdgesOK
    <3>5. z = t => disc'[z] # Unseen
      BY <1>3, <1>4 DEF Unseen
    <3> QED BY <1>16, <3>3, <3>4, <3>5
  <2>3. \A x \in Done' : adj[x] \subseteq Done'
    BY <1>0, <1>5 DEF EdgesOK
  <2> QED BY <1>2, <1>6, <2>1, <2>2, <2>3 DEF EdgesOK
<1>18. Active \subseteq On
  BY <1>0, ActiveIs
<1>19. PathsOK'
  <2>1. ASSUME NEW x \in Active', NEW y \in On', disc'[x] <= disc'[y]
        PROVE  y \in Reach[x]
    <3>1. x \in Nodes /\ y \in Nodes
      BY <1>5, <1>9, <1>18
    <3>2. CASE y = t
      BY <1>9, <1>11, <3>2
    <3>3. CASE y # t /\ x = t
      BY <1>3, <1>4, <2>1, <3>1, <3>3
    <3>4. CASE y # t /\ x # t
      <4>1. x \in Active /\ y \in On /\ disc[x] <= disc[y]
        BY <1>4, <1>5, <1>9, <2>1, <3>1, <3>4
      <4> QED BY <1>0, <4>1 DEF PathsOK
    <3> QED BY <3>2, <3>3, <3>4
  <2>2. ASSUME NEW y \in On'
        PROVE  \E x \in Active' : disc'[x] <= disc'[y] /\ x \in Reach[y]
    <3>1. CASE y = t
      <4>1. t \in Active' /\ disc'[t] <= disc'[y] /\ t \in Reach[y]
        BY <1>3, <1>4, <1>9, <1>11, <3>1
      <4> QED BY <4>1
    <3>2. CASE y # t
      <4>1. y \in On
        BY <1>5, <3>2
      <4>2. PICK x \in Active : disc[x] <= disc[y] /\ x \in Reach[y]
        BY <1>0, <4>1 DEF PathsOK
      <4>3. x \in On /\ x # t /\ x \in Nodes /\ y \in Nodes
        BY <1>5, <1>18, <4>1
      <4>4. disc'[x] <= disc'[y] /\ x \in Active'
        BY <1>4, <1>9, <3>2, <4>2, <4>3
      <4> QED BY <4>2, <4>4
    <3> QED BY <3>1, <3>2
  <2> QED BY <1>10, <2>1, <2>2 DEF PathsOK
<1>20. LowOK'
  <2>1. ASSUME NEW i \in 1 .. n + 1
        PROVE  /\ low'[calls'[i].u] <= disc'[calls'[i].u]
               /\ \E y \in On' : disc'[y] = low'[calls'[i].u] /\ y \in Reach[calls'[i].u]
               /\ \A y \in Returned(i)' : \A z \in adj[y] \intersect On' : low'[calls'[i].u] <= disc'[z]
               /\ \A z \in (adj[calls'[i].u] \ calls'[i].rest) \intersect On' : low'[calls'[i].u] <= disc'[z]
    <3>0. Returned(i)' = {y \in On' : /\ disc'[calls'[i].u] < disc'[y]
                                      /\ i # n + 1 => disc'[y] < disc'[calls'[i + 1].u]}
      BY <1>6 DEF Returned
    <3>1. CASE i = n + 1
      <4>1. /\ calls'[i].u = t /\ calls'[i].rest = adj[t] /\ t \in On'
            /\ low'[t] = timeG + 1 /\ disc'[t] = timeG + 1
        BY <1>4, <1>5, <1>7, <3>1
      <4>2. \A y \in On' : ~(timeG + 1 < disc'[y])
        BY <1>3, <1>4, <1>5
      <4>3. Returned(i)' = {}
        BY <3>0, <4>1, <4>2
      <4>4. timeG + 1 <= timeG + 1
        BY <1>3
      <4> QED BY <1>11, <4>1, <4>3, <4>4
    <3>2. CASE i \in 1 .. n
      <4>1. PICK u \in On : u = calls[i].u
        BY <1>7, <3>2
      <4>2. /\ u \in Nodes /\ u # t /\ calls'[i].u = u
            /\ low'[u] = low[u] /\ disc'[u] = disc[u]
        BY <1>4, <1>5, <1>7, <3>2, <4>1
      <4>3. /\ low[u] <= disc[u]
            /\ \E y \in On : disc[y] = low[u] /\ y \in Reach[u]
            /\ \A y \in Returned(i) : \A z \in adj[y] \intersect On : low[u] <= disc[z]
            /\ \A z \in (adj[u] \ calls[i].rest) \intersect On : low[u] <= disc[z]
        BY <1>0, <1>1, <3>2, <4>1 DEF LowOK
      <4>4. \E y \in On' : disc'[y] = low'[u] /\ y \in Reach[u]
        <5>1. PICK y \in On : disc[y] = low[u] /\ y \in Reach[u]
          BY <4>3
        <5>2. y \in On' /\ disc'[y] = disc[y]
          BY <1>4, <1>5
        <5> QED BY <4>2, <5>1, <5>2
      <4>5. low[u] <= disc'[t]
        <5>1. disc'[t] = timeG + 1 /\ disc[u] <= timeG /\ low[u] \in Nat /\ disc[u] \in Nat
          BY <1>3, <1>4, <4>2
        <5> QED BY <1>3, <4>3, <5>1
      <4>6. \A z \in On : disc'[z] = disc[z]
        BY <1>4, <1>5
      <4>7. ASSUME NEW y \in Returned(i)', NEW z \in adj[y] \intersect On'
            PROVE  low[u] <= disc'[z]
        <5>1. CASE z = t
          BY <4>5, <5>1
        <5>2. CASE z # t
          <6>1. z \in On
            BY <1>5, <4>7, <5>2
          <6>2. y \in On' /\ disc'[u] < disc'[y] /\ disc'[y] < disc'[calls'[i + 1].u]
            BY <3>0, <3>2, <4>2
          <6>3. i + 1 \in 1 .. n + 1
            BY <3>2
          <6>4. calls'[i + 1].u \in Nodes
            <7>1. i + 1 \in 1 .. n => calls'[i + 1].u \in Nodes
              BY <1>5, <1>7
            <7>2. i + 1 = n + 1 => calls'[i + 1].u \in Nodes
              BY <1>7
            <7> QED BY <6>3, <7>1, <7>2
          <6>5. y # t
            <7>1. disc'[calls'[i + 1].u] <= timeG + 1 /\ disc'[calls'[i + 1].u] \in Nat
              <8>1. PICK w \in Nodes : w = calls'[i + 1].u
                BY <6>4
              <8>2. disc'[w] = (IF w = t THEN timeG + 1 ELSE disc[w]) /\ disc[w] <= timeG /\ disc[w] \in Nat
                BY <1>4
              <8>3. disc'[w] <= timeG + 1 /\ disc'[w] \in Nat
                BY <1>3, <8>2
              <8> QED BY <8>1, <8>3
            <7>2. disc'[t] = timeG + 1
              BY <1>4
            <7> QED BY <1>3, <6>2, <7>1, <7>2
          <6>6. y \in On /\ disc'[y] = disc[y]
            BY <1>5, <4>6, <6>2, <6>5
          <6>7. i # n => disc[y] < disc[calls[i + 1].u]
            <7>1. i # n => i + 1 \in 1 .. n
              BY <3>2
            <7>2. i # n => disc'[calls'[i + 1].u] = disc[calls[i + 1].u]
              BY <1>7, <4>6, <7>1
            <7> QED BY <6>2, <6>6, <7>2
          <6>8. y \in Returned(i)
            BY <1>1, <4>1, <4>2, <6>2, <6>6, <6>7 DEF Returned
          <6> QED BY <4>3, <4>6, <4>7, <6>1, <6>8
        <5> QED BY <5>1, <5>2
      <4>8. ASSUME NEW z \in (adj[u] \ calls'[i].rest) \intersect On'
            PROVE  low[u] <= disc'[z]
        <5>1. CASE z = t
          BY <4>5, <5>1
        <5>2. CASE z # t
          <6>1. z \in On /\ z \in adj[u] \ calls[i].rest
            BY <1>5, <1>7, <3>2, <4>8, <5>2
          <6> QED BY <4>3, <4>6, <6>1
        <5> QED BY <5>1, <5>2
      <4> QED BY <4>2, <4>3, <4>4, <4>7, <4>8
    <3> QED BY <1>8, <3>1, <3>2
  <2> QED BY <1>2, <1>6, <1>10, <2>1 DEF LowOK
<1>21. ListOK'
  BY <1>0, <1>2, <1>5, <1>10 DEF ListOK, Holds
<1> QED
  BY <1>12, <1>13, <1>14, <1>15, <1>17, <1>19, <1>20, <1>21 DEF IInv

-----------------------------------------------------------------------------
(* The steps of the search. *)

LEMMA RootKeeps == ASSUME IInv, Root PROVE IInv'
<1>0. Typed /\ PathsOK
  BY DEF IInv
<1>1. PICK t : t = Min(UnseenNodes)
  OBVIOUS
<1>2. t \in UnseenNodes
  <2>1. UnseenNodes \subseteq Nat /\ UnseenNodes # {}
    BY Sizes DEF UnseenNodes, Root
  <2> QED BY <1>1, <2>1, MinIn
<1>3. t \in Nodes /\ disc[t] = Unseen
  BY <1>2 DEF UnseenNodes
<1>4. stage = "SCC" /\ calls = << >> /\ Enter(t, << >>, low)
  BY <1>1 DEF Root
<1>5. Active = {} /\ Len(calls) = 0 /\ << >> \in Seq(Frames) /\ Len(<< >>) = Len(calls)
  BY <1>4 DEF Active
<1> QED
  BY <1>3, <1>4, <1>5, EnterKeeps

LEMMA DescendKeeps == ASSUME IInv, NEW t \in Nodes, Descend(t) PROVE IInv'
<1>0. Typed /\ StackOK /\ StageOK /\ CallsOK /\ PathsOK
  BY DEF IInv
<1>1. calls # << >> /\ t \in Call.rest /\ disc[t] = Unseen /\ Enter(t, After(t), low)
  BY DEF Descend
<1>2. stage = "SCC"
  BY <1>0, <1>1 DEF StageOK, Typed
<1>3. /\ Len(calls) \in Nat \ {0} /\ Call = calls[Len(calls)] /\ Call.u \in Nodes
      /\ After(t) \in Seq(Frames) /\ Len(After(t)) = Len(calls)
      /\ \A i \in 1 .. Len(calls) :
            /\ After(t)[i].u = calls[i].u
            /\ After(t)[i].rest = IF i = Len(calls) THEN calls[i].rest \ {t} ELSE calls[i].rest
  BY <1>0, <1>1, CallIs
<1>4. \A i \in 1 .. Len(calls) :
         /\ After(t)[i].u = calls[i].u /\ After(t)[i].rest \subseteq calls[i].rest
         /\ calls[i].rest \ After(t)[i].rest \subseteq {t}
  BY <1>3
<1>5. Call.u \in Active /\ Call.u \in On /\ t \in adj[Call.u]
  <2>1. Len(calls) \in 1 .. Len(calls)
    BY <1>3
  <2> QED BY <1>0, <1>1, <1>3, <2>1 DEF Active, CallsOK
<1>6. ASSUME NEW x \in Active PROVE t \in Reach[x]
  <2>1. adj \in [Nodes -> SUBSET Nodes] /\ On \subseteq Nodes /\ disc \in [Nodes -> Nat]
    BY <1>0 DEF Typed, On
  <2>2. Active \subseteq On
    BY <1>0, ActiveIs
  <2>3. x \in Nodes /\ disc[x] <= disc[Call.u]
    <3>1. x = Call.u \/ disc[x] < disc[Call.u]
      BY <1>0, <1>1, ActiveIs
    <3>2. x \in Nodes /\ disc[x] \in Nat /\ disc[Call.u] \in Nat
      BY <1>5, <2>1, <2>2
    <3> QED BY <3>1, <3>2
  <2>4. Call.u \in Reach[x]
    BY <1>0, <1>5, <2>3 DEF PathsOK
  <2>5. t \in Reach[Call.u]
    BY <1>3, <1>5, <2>1, ReachIs
  <2> QED BY <1>3, <2>1, <2>3, <2>4, <2>5, ReachIs
<1> QED
  BY <1>1, <1>2, <1>3, <1>4, <1>6, EnterKeeps

LEMMA LookBackKeeps == ASSUME IInv, NEW t \in Nodes, LookBack(t) PROVE IInv'
<1>0. Typed /\ StageOK /\ StackOK /\ CallsOK /\ EdgesOK /\ PathsOK /\ LowOK /\ ListOK
  BY DEF IInv
<1>1. /\ calls # << >> /\ t \in Call.rest /\ disc[t] # Unseen
      /\ calls' = After(t) /\ low' = [low EXCEPT ![Call.u] = LowOf(Call.u, t)]
      /\ stage' = stage /\ adj' = adj /\ timeG' = timeG /\ disc' = disc /\ st' = st
      /\ stackMember' = stackMember /\ sccl' = sccl
  BY DEF LookBack
<1>2. PICK n \in Nat \ {0} : n = Len(calls)
  BY <1>0, <1>1, CallIs
<1>3. PICK u \in Nodes : u = Call.u
  BY <1>0, <1>1, CallIs
<1>4. /\ calls[n].u = u /\ n \in 1 .. n /\ t \in calls[n].rest
      /\ calls' \in Seq(Frames) /\ Len(calls') = n
      /\ \A i \in 1 .. n : calls'[i].u = calls[i].u
      /\ \A i \in 1 .. n : calls'[i].rest = IF i = n THEN calls[i].rest \ {t} ELSE calls[i].rest
  <2>1. /\ Call = calls[Len(calls)] /\ After(t) \in Seq(Frames) /\ Len(After(t)) = Len(calls)
        /\ \A i \in 1 .. Len(calls) :
              /\ After(t)[i].u = calls[i].u
              /\ After(t)[i].rest = IF i = Len(calls) THEN calls[i].rest \ {t} ELSE calls[i].rest
    BY <1>0, <1>1, CallIs
  <2>2. Call = calls[n] /\ calls[n].u = u /\ t \in calls[n].rest /\ n \in 1 .. n
    BY <1>1, <1>2, <1>3, <2>1
  <2> QED BY <1>1, <1>2, <2>1, <2>2
<1>5. /\ disc \in [Nodes -> Nat] /\ low \in [Nodes -> Nat] /\ adj \in [Nodes -> SUBSET Nodes]
      /\ On \subseteq Nodes
  BY <1>0 DEF Typed, On
<1>6. PICK l \in Nat : l = LowOf(u, t) /\ l <= low[u] /\ (t \in On => l <= disc[t])
                       /\ (l = low[u] \/ (t \in On /\ l = disc[t]))
  <2>1. disc[t] \in Nat /\ low[u] \in Nat
    BY <1>5
  <2>2. /\ Smaller(low[u], disc[t]) \in Nat /\ Smaller(low[u], disc[t]) <= low[u]
        /\ Smaller(low[u], disc[t]) <= disc[t]
        /\ Smaller(low[u], disc[t]) = low[u] \/ Smaller(low[u], disc[t]) = disc[t]
    BY <2>1, SmallerIs
  <2>3. CASE stackMember[t]
    <3>1. LowOf(u, t) = Smaller(low[u], disc[t]) /\ t \in On
      BY <2>3 DEF LowOf, On
    <3> QED BY <2>2, <3>1
  <2>4. CASE ~stackMember[t]
    <3>1. LowOf(u, t) = low[u] /\ t \notin On /\ low[u] <= low[u]
      BY <2>1, <2>4 DEF LowOf, On
    <3> QED BY <2>1, <3>1
  <2> QED BY <2>3, <2>4
<1>7. low' \in [Nodes -> Nat] /\ \A x \in Nodes : low'[x] = IF x = u THEN l ELSE low[x]
  BY <1>1, <1>3, <1>5, <1>6
<1>8. On' = On /\ Done' = Done
  BY <1>1 DEF On, Done
<1>9. Active' = Active /\ u \in Active
  BY <1>2, <1>4 DEF Active
<1>10. Reach' = Reach /\ \A x : Component(x)' = Component(x)
  BY <1>1, ReachSame
<1>11. \A i \in 1 .. n : calls[i].u \in On /\ calls[i].rest \subseteq adj[calls[i].u]
  BY <1>0, <1>2 DEF CallsOK
<1>12. Typed'
  BY <1>0, <1>1, <1>4, <1>7 DEF Typed
<1>13. StageOK'
  BY <1>0, <1>1, <1>2, <1>4 DEF StageOK, Typed
<1>14. StackOK'
  BY <1>0, <1>1, <1>8 DEF StackOK
<1>15. CallsOK'
  <2>1. \A i \in 1 .. n : calls'[i].u \in On' /\ calls'[i].rest \subseteq adj[calls'[i].u]
    BY <1>4, <1>8, <1>11
  <2>2. \A i, j \in 1 .. n : i < j => disc[calls'[i].u] < disc[calls'[j].u]
    BY <1>0, <1>2, <1>4 DEF CallsOK
  <2> QED BY <1>1, <1>4, <2>1, <2>2 DEF CallsOK
<1>16. EdgesOK'
  <2>1. ASSUME NEW i \in 1 .. n, NEW z \in adj[calls'[i].u] \ calls'[i].rest
        PROVE  disc[z] # Unseen
    <3>1. z = t \/ z \in adj[calls[i].u] \ calls[i].rest
      BY <1>4, <2>1
    <3> QED BY <1>0, <1>1, <1>2, <3>1 DEF EdgesOK
  <2> QED BY <1>0, <1>1, <1>4, <1>8, <1>9, <2>1 DEF EdgesOK
<1>17. PathsOK'
  BY <1>0, <1>1, <1>8, <1>9, <1>10 DEF PathsOK
<1>18. LowOK'
  <2>1. ASSUME NEW i \in 1 .. n
        PROVE  /\ low'[calls'[i].u] <= disc[calls'[i].u]
               /\ \E y \in On : disc[y] = low'[calls'[i].u] /\ y \in Reach[calls'[i].u]
               /\ \A y \in Returned(i)' : \A z \in adj[y] \intersect On : low'[calls'[i].u] <= disc[z]
               /\ \A z \in (adj[calls'[i].u] \ calls'[i].rest) \intersect On : low'[calls'[i].u] <= disc[z]
    <3>1. PICK w \in On : w = calls[i].u
      BY <1>11
    <3>2. calls'[i].u = w /\ w \in Nodes
      BY <1>4, <1>5, <3>1
    <3>3. /\ low[w] <= disc[w]
          /\ \E y \in On : disc[y] = low[w] /\ y \in Reach[w]
          /\ \A y \in Returned(i) : \A z \in adj[y] \intersect On : low[w] <= disc[z]
          /\ \A z \in (adj[w] \ calls[i].rest) \intersect On : low[w] <= disc[z]
      BY <1>0, <1>2, <3>1 DEF LowOK
    <3>4. Returned(i)' = Returned(i)
      <4>1. Returned(i)' = {y \in On : /\ disc[calls'[i].u] < disc[y]
                                       /\ i # n => disc[y] < disc[calls'[i + 1].u]}
        BY <1>1, <1>4, <1>8 DEF Returned
      <4>2. Returned(i) = {y \in On : /\ disc[calls[i].u] < disc[y]
                                      /\ i # n => disc[y] < disc[calls[i + 1].u]}
        BY <1>2 DEF Returned
      <4>3. i # n => i + 1 \in 1 .. n
        OBVIOUS
      <4>4. calls'[i].u = calls[i].u /\ (i # n => calls'[i + 1].u = calls[i + 1].u)
        BY <1>4, <4>3
      <4> QED BY <4>1, <4>2, <4>4
    <3>5. CASE i # n
      <4>1. w # u
        BY <1>0, <1>2, <1>4, <3>1, <3>5, ActiveIs
      <4>2. low'[w] = low[w] /\ calls'[i].rest = calls[i].rest
        BY <1>4, <1>7, <3>2, <3>5, <4>1
      <4> QED BY <3>2, <3>3, <3>4, <4>2
    <3>6. CASE i = n
      <4>1. w = u /\ low'[w] = l /\ calls'[i].rest = calls[i].rest \ {t}
        BY <1>4, <1>7, <3>1, <3>2, <3>6
      <4>2. low[w] \in Nat /\ \A z \in On : disc[z] \in Nat
        BY <1>5, <3>2
      <4>3. \A z \in On : low[w] <= disc[z] => l <= disc[z]
        BY <1>6, <4>1, <4>2
      <4>4. low'[w] <= disc[w]
        BY <3>3, <4>1, <4>3
      <4>5. \E y \in On : disc[y] = low'[w] /\ y \in Reach[w]
        <5>1. CASE l = low[u]
          BY <3>3, <4>1, <5>1
        <5>2. CASE t \in On /\ l = disc[t]
          <6>1. t \in adj[u]
            BY <1>4, <1>11
          <6>2. t \in Reach[u]
            BY <1>5, <6>1, ReachIs
          <6> QED BY <4>1, <5>2, <6>2
        <5> QED BY <1>6, <5>1, <5>2
      <4>6. \A y \in Returned(i) : \A z \in adj[y] \intersect On : low'[w] <= disc[z]
        BY <3>3, <4>1, <4>3
      <4>7. \A z \in (adj[w] \ calls'[i].rest) \intersect On : low'[w] <= disc[z]
        BY <1>6, <3>3, <4>1, <4>3
      <4> QED BY <3>2, <3>4, <4>4, <4>5, <4>6, <4>7
    <3> QED BY <3>5, <3>6
  <2> QED BY <1>1, <1>4, <1>8, <1>10, <2>1 DEF LowOK
<1>19. ListOK'
  BY <1>0, <1>1, <1>8, <1>10 DEF ListOK, Holds
<1> QED
  BY <1>12, <1>13, <1>14, <1>15, <1>16, <1>17, <1>18, <1>19 DEF IInv

-----------------------------------------------------------------------------
(* Calls that return. *)

LEMMA ReturnIs ==
    ASSUME Typed, CallsOK, calls # << >>, calls' = Front(calls)
    PROVE  /\ calls' \in Seq(Frames) /\ Len(calls') = Len(calls) - 1
           /\ \A i \in 1 .. Len(calls) - 1 : calls'[i] = calls[i]
           /\ Active' = Active \ {Call.u} /\ Call.u \in Active
           /\ CallsOK => \A i, j \in 1 .. Len(calls) - 1 : i < j => disc[calls[i].u] < disc[calls[j].u]
<1>1. /\ Len(calls) \in Nat \ {0} /\ Call = calls[Len(calls)]
      /\ calls' \in Seq(Frames) /\ Len(calls') = Len(calls) - 1
      /\ \A i \in 1 .. Len(calls) - 1 : calls'[i] = calls[i]
  BY CallIs
<1>2. PICK n \in Nat \ {0} : n = Len(calls)
  BY <1>1
<1>3. \A i \in 1 .. n - 1 : i \in 1 .. n /\ i # n /\ calls'[i] = calls[i]
  BY <1>1, <1>2
<1>4. \A i \in 1 .. n : i = n \/ i \in 1 .. n - 1
  OBVIOUS
<1>5. n \in 1 .. n
  OBVIOUS
<1>6. Active = {calls[i].u : i \in 1 .. n} /\ Active' = {calls'[i].u : i \in 1 .. n - 1}
  BY <1>1, <1>2 DEF Active
<1>7. \A i \in 1 .. n - 1 : calls[i].u # Call.u
  BY <1>1, <1>2, <1>3, <1>5, ActiveIs
<1>8. Call.u \in Active
  BY <1>1, <1>2, <1>5, <1>6
<1>9. \A x \in Active' : x \in Active \ {Call.u}
  BY <1>3, <1>6, <1>7
<1>10. \A x \in Active \ {Call.u} : x \in Active'
  <2> TAKE x \in Active \ {Call.u}
  <2>1. PICK i \in 1 .. n : x = calls[i].u
    BY <1>6
  <2>2. i # n
    BY <1>1, <1>2, <2>1
  <2> QED BY <1>3, <1>4, <1>6, <2>1, <2>2
<1> QED
  BY <1>1, <1>2, <1>3, <1>8, <1>9, <1>10 DEF CallsOK

\* The node of a call whose low is smaller reaches that of an earlier call.
LEMMA EarlierReached ==
    ASSUME IInv, calls # << >>, low[Call.u] # disc[Call.u]
    PROVE  \E x \in Active : disc[x] < disc[Call.u] /\ x \in Reach[Call.u]
<1>0. Typed /\ StackOK /\ CallsOK /\ PathsOK /\ LowOK
  BY DEF IInv
<1>1. PICK u \in Nodes : u = Call.u /\ u = calls[Len(calls)].u /\ Len(calls) \in 1 .. Len(calls)
  BY <1>0, CallIs
<1>2. low[u] <= disc[u]
  BY <1>0, <1>1 DEF LowOK
<1>3. PICK y \in On : disc[y] = low[u] /\ y \in Reach[u]
  BY <1>0, <1>1 DEF LowOK
<1>4. PICK x \in Active : disc[x] <= disc[y] /\ x \in Reach[y]
  BY <1>0 DEF PathsOK
<1>5. /\ adj \in [Nodes -> SUBSET Nodes] /\ On \subseteq Nodes /\ Active \subseteq On
      /\ disc \in [Nodes -> Nat] /\ low \in [Nodes -> Nat]
  BY <1>0, ActiveIs DEF Typed, On
<1>6. disc[x] \in Nat /\ disc[y] \in Nat /\ disc[u] \in Nat /\ low[u] \in Nat
  BY <1>5
<1>7. disc[x] < disc[u]
  BY <1>1, <1>2, <1>3, <1>4, <1>6
<1>8. x \in Reach[u]
  BY <1>3, <1>4, <1>5, ReachIs
<1> QED
  BY <1>1, <1>7, <1>8

LEMMA LeaveKeeps == ASSUME IInv, Leave PROVE IInv'
<1>0. Typed /\ StageOK /\ StackOK /\ CallsOK /\ EdgesOK /\ PathsOK /\ LowOK /\ ListOK
  BY DEF IInv
<1>1. /\ calls # << >> /\ Call.rest = {} /\ low[Call.u] # disc[Call.u]
      /\ calls' = Front(calls)
      /\ low' = IF Len(calls) = 1 THEN low
                ELSE [low EXCEPT ![calls[Len(calls) - 1].u] = Smaller(@, low[Call.u])]
      /\ stage' = stage /\ adj' = adj /\ timeG' = timeG /\ disc' = disc /\ st' = st
      /\ stackMember' = stackMember /\ sccl' = sccl
  BY DEF Leave, Return
<1>2. PICK n \in Nat \ {0} : n = Len(calls)
  BY <1>0, <1>1, CallIs
<1>3. PICK u \in Nodes : u = Call.u
  BY <1>0, <1>1, CallIs
<1>4. calls[n].u = u /\ n \in 1 .. n /\ calls[n].rest = {}
  BY <1>0, <1>1, <1>2, <1>3, CallIs
<1>5. /\ disc \in [Nodes -> Nat] /\ low \in [Nodes -> Nat] /\ adj \in [Nodes -> SUBSET Nodes]
      /\ On \subseteq Nodes /\ Active \subseteq On
  BY <1>0, ActiveIs DEF Typed, On
<1>6. /\ calls' \in Seq(Frames) /\ Len(calls') = n - 1
      /\ \A i \in 1 .. n - 1 : calls'[i] = calls[i] /\ i \in 1 .. n
      /\ Active' = Active \ {u} /\ u \in Active
  BY <1>0, <1>1, <1>2, <1>3, ReturnIs
<1>7. PICK r \in Active : disc[r] < disc[u] /\ r \in Reach[u]
  BY <1>1, <1>3, EarlierReached
<1>8. n # 1
  <2>1. PICK i \in 1 .. n : calls[i].u = r
    BY <1>2 DEF Active
  <2>2. r \in Nodes /\ disc[r] \in Nat /\ disc[u] \in Nat
    BY <1>5
  <2>3. r # u
    BY <1>7, <2>2
  <2> QED BY <1>4, <2>1, <2>3
<1>9. PICK m \in Nat \ {0} : m = n - 1
  BY <1>8
<1>10. m \in 1 .. n /\ m # n /\ m + 1 = n /\ m \in 1 .. n - 1
  BY <1>9
<1>11. PICK w \in On : w = calls[m].u
  BY <1>0, <1>2, <1>10 DEF CallsOK
<1>12. disc[w] < disc[u] /\ w # u /\ w \in Nodes /\ w \in Active
  <2>1. m < n
    BY <1>9
  <2>2. disc[w] < disc[u]
    BY <1>0, <1>2, <1>4, <1>10, <1>11, <2>1 DEF CallsOK
  <2>3. w \in Active
    BY <1>2, <1>10, <1>11 DEF Active
  <2>4. disc[w] \in Nat
    BY <1>5
  <2> QED BY <1>5, <2>2, <2>3, <2>4
<1>13. PICK l \in Nat : /\ l <= low[w] /\ l <= low[u] /\ (l = low[w] \/ l = low[u])
                        /\ low' = [low EXCEPT ![w] = l]
  <2>1. low[w] \in Nat /\ low[u] \in Nat
    BY <1>5, <1>12
  <2>2. low' = [low EXCEPT ![w] = Smaller(low[w], low[u])]
    BY <1>1, <1>2, <1>3, <1>8, <1>9, <1>11
  <2> QED BY <2>1, <2>2, SmallerIs
<1>14. low' \in [Nodes -> Nat] /\ \A x \in Nodes : low'[x] = IF x = w THEN l ELSE low[x]
  BY <1>5, <1>12, <1>13
<1>15. On' = On /\ Done' = Done
  BY <1>1 DEF On, Done
<1>16. Reach' = Reach /\ \A x : Component(x)' = Component(x)
  BY <1>1, ReachSame
<1>17. Typed'
  BY <1>0, <1>1, <1>6, <1>14 DEF Typed
<1>18. StageOK'
  BY <1>0, <1>1 DEF StageOK, Typed
<1>19. StackOK'
  BY <1>0, <1>1, <1>15 DEF StackOK
<1>20. CallsOK'
  <2>1. \A i \in 1 .. n - 1 : calls'[i].u \in On /\ calls'[i].rest \subseteq adj[calls'[i].u]
    BY <1>0, <1>2, <1>6 DEF CallsOK
  <2>2. \A i, j \in 1 .. n - 1 : i < j => disc[calls'[i].u] < disc[calls'[j].u]
    BY <1>0, <1>2, <1>6 DEF CallsOK
  <2> QED BY <1>1, <1>6, <1>15, <2>1, <2>2 DEF CallsOK
<1>21. \A t \in adj[u] : disc[t] # Unseen
  BY <1>0, <1>2, <1>4 DEF EdgesOK
<1>22. EdgesOK'
  <2>1. ASSUME NEW x \in Nodes, disc[x] # Unseen, x \notin Active', NEW t \in adj[x]
        PROVE  disc[t] # Unseen
    <3>1. x = u \/ x \notin Active
      BY <1>6, <2>1
    <3> QED BY <1>0, <1>21, <2>1, <3>1 DEF EdgesOK
  <2>2. \A i \in 1 .. n - 1 : \A t \in adj[calls'[i].u] \ calls'[i].rest : disc[t] # Unseen
    BY <1>0, <1>2, <1>6 DEF EdgesOK
  <2> QED BY <1>0, <1>1, <1>6, <1>15, <2>1, <2>2 DEF EdgesOK
<1>23. PathsOK'
  <2>1. \A x \in Active', y \in On : disc[x] <= disc[y] => y \in Reach[x]
    BY <1>0, <1>6 DEF PathsOK
  <2>2. ASSUME NEW y \in On
        PROVE  \E x \in Active' : disc[x] <= disc[y] /\ x \in Reach[y]
    <3>1. PICK x \in Active : disc[x] <= disc[y] /\ x \in Reach[y]
      BY <1>0 DEF PathsOK
    <3>2. CASE x # u
      BY <1>6, <3>1, <3>2
    <3>3. CASE x = u
      <4>1. disc[r] \in Nat /\ disc[y] \in Nat /\ disc[u] \in Nat
        BY <1>5
      <4>2. disc[r] <= disc[y] /\ r # u
        BY <1>7, <3>1, <3>3, <4>1
      <4>3. r \in Reach[y]
        BY <1>5, <1>7, <3>1, <3>3, ReachIs
      <4> QED BY <1>6, <4>2, <4>3
    <3> QED BY <3>2, <3>3
  <2> QED BY <1>1, <1>15, <1>16, <2>1, <2>2 DEF PathsOK
<1>24. LowOK'
  <2>1. ASSUME NEW i \in 1 .. n - 1
        PROVE  /\ low'[calls'[i].u] <= disc[calls'[i].u]
               /\ \E y \in On : disc[y] = low'[calls'[i].u] /\ y \in Reach[calls'[i].u]
               /\ \A y \in Returned(i)' : \A z \in adj[y] \intersect On : low'[calls'[i].u] <= disc[z]
               /\ \A z \in (adj[calls'[i].u] \ calls'[i].rest) \intersect On : low'[calls'[i].u] <= disc[z]
    <3>1. PICK v \in On : v = calls[i].u
      BY <1>0, <1>2, <1>6 DEF CallsOK
    <3>2. calls'[i].u = v /\ calls'[i].rest = calls[i].rest /\ v \in Nodes /\ i \in 1 .. n
      BY <1>5, <1>6, <3>1
    <3>3. /\ low[v] <= disc[v]
          /\ \E y \in On : disc[y] = low[v] /\ y \in Reach[v]
          /\ \A y \in Returned(i) : \A z \in adj[y] \intersect On : low[v] <= disc[z]
          /\ \A z \in (adj[v] \ calls[i].rest) \intersect On : low[v] <= disc[z]
      BY <1>0, <1>2, <3>1, <3>2 DEF LowOK
    <3>4. Returned(i)' = {y \in On : /\ disc[v] < disc[y]
                                     /\ i # n - 1 => disc[y] < disc[calls'[i + 1].u]}
      BY <1>1, <1>6, <1>15, <3>2 DEF Returned
    <3>5. Returned(i) = {y \in On : /\ disc[v] < disc[y]
                                    /\ i # n => disc[y] < disc[calls[i + 1].u]}
      BY <1>2, <3>1 DEF Returned
    <3>6. CASE i # m
      <4>1. v # w
        BY <1>0, <1>2, <1>10, <1>11, <3>1, <3>2, <3>6, ActiveIs
      <4>2. low'[v] = low[v]
        BY <1>14, <3>2, <4>1
      <4>3. i # n /\ i # n - 1 /\ i + 1 \in 1 .. n - 1
        BY <1>9, <3>6
      <4>4. Returned(i)' = Returned(i)
        <5>1. calls'[i + 1] = calls[i + 1]
          BY <1>6, <4>3
        <5> QED BY <3>4, <3>5, <4>3, <5>1
      <4> QED BY <3>2, <3>3, <4>2, <4>4
    <3>7. CASE i = m
      <4>1. v = w /\ low'[v] = l
        BY <1>11, <1>14, <3>1, <3>2, <3>7
      <4>2. low[v] \in Nat /\ low[u] \in Nat /\ \A z \in On : disc[z] \in Nat
        BY <1>5, <3>2
      <4>3. l <= low[v] /\ l <= low[u]
        BY <1>13, <4>1
      <4>4. low'[v] <= disc[v]
        BY <3>3, <4>1, <4>2, <4>3
      <4>5. \E y \in On : disc[y] = low'[v] /\ y \in Reach[v]
        <5>1. CASE l = low[w]
          BY <3>3, <4>1, <5>1
        <5>2. CASE l = low[u]
          <6>1. PICK y \in On : disc[y] = low[u] /\ y \in Reach[u]
            BY <1>0, <1>2, <1>4 DEF LowOK
          <6>2. u \in On /\ disc[w] <= disc[u]
            BY <1>5, <1>6, <1>12
          <6>3. u \in Reach[w]
            BY <1>0, <1>12, <6>2 DEF PathsOK
          <6>4. y \in Reach[w]
            BY <1>5, <1>12, <6>1, <6>3, ReachIs
          <6> QED BY <4>1, <5>2, <6>1, <6>4
        <5> QED BY <1>13, <5>1, <5>2
      <4>6. ASSUME NEW y \in Returned(i)', NEW z \in adj[y] \intersect On
            PROVE  low'[v] <= disc[z]
        <5>1. y \in On /\ disc[v] < disc[y]
          BY <3>4
        <5>2. disc[y] \in Nat /\ disc[u] \in Nat /\ disc[z] \in Nat
          BY <1>5, <5>1
        <5>3. CASE disc[y] < disc[u]
          <6>1. i + 1 = n /\ i # n
            BY <1>10, <3>7
          <6>2. y \in Returned(i)
            BY <1>4, <3>5, <5>1, <5>3, <6>1
          <6>3. low[v] <= disc[z]
            BY <3>3, <4>6, <6>2
          <6> QED BY <4>1, <4>2, <4>3, <5>2, <6>3
        <5>4. CASE disc[y] = disc[u]
          <6>1. y = u
            BY <1>0, <1>5, <1>6, <5>1, <5>4, OneNumber
          <6>2. low[u] <= disc[z]
            BY <1>0, <1>2, <1>4, <4>6, <6>1 DEF LowOK
          <6> QED BY <4>1, <4>2, <4>3, <5>2, <6>2
        <5>5. CASE disc[u] < disc[y]
          <6>1. y \in Returned(n)
            BY <1>2, <1>4, <5>1, <5>5 DEF Returned
          <6>2. low[u] <= disc[z]
            BY <1>0, <1>2, <1>4, <4>6, <6>1 DEF LowOK
          <6> QED BY <4>1, <4>2, <4>3, <5>2, <6>2
        <5> QED BY <5>2, <5>3, <5>4, <5>5
      <4>7. ASSUME NEW z \in (adj[v] \ calls[i].rest) \intersect On
            PROVE  low'[v] <= disc[z]
        <5>1. low[v] <= disc[z] /\ disc[z] \in Nat
          BY <3>3, <4>2
        <5> QED BY <4>1, <4>2, <4>3, <5>1
      <4> QED BY <3>2, <4>4, <4>5, <4>6, <4>7
    <3> QED BY <3>6, <3>7
  <2> QED BY <1>1, <1>6, <1>15, <1>16, <2>1 DEF LowOK
<1>25. ListOK'
  BY <1>0, <1>1, <1>15, <1>16 DEF ListOK, Holds
<1> QED
  BY <1>17, <1>18, <1>19, <1>20, <1>22, <1>23, <1>24, <1>25 DEF IInv

-----------------------------------------------------------------------------
(* A component is collected. *)

\* The nodes from x to the top of the stack.
Above(x) == {y \in On : disc[x] <= disc[y]}

LEMMA UpToIs ==
    ASSUME Typed, StackOK, NEW u \in On
    PROVE  /\ UpTo(u, << >>).st \in Seq(Nodes)
           /\ ToSet(UpTo(u, << >>).st) = On \ Above(u)
           /\ \A i, j \in 1 .. Len(UpTo(u, << >>).st) :
                 i < j => disc[UpTo(u, << >>).st[i]] < disc[UpTo(u, << >>).st[j]]
           /\ UpTo(u, << >>).newscc \in Seq(Nodes)
           /\ ToSet(UpTo(u, << >>).newscc) = Above(u)
           /\ IsInjective(UpTo(u, << >>).newscc)
<1>1. st \in Seq(Nodes) /\ Len(st) \in Nat /\ DOMAIN st = 1 .. Len(st)
  BY LenProperties DEF Typed
<1>2. PICK n \in Nat : n = Len(st)
  BY <1>1
<1>3. On = {st[i] : i \in 1 .. n}
  BY <1>1, <1>2 DEF StackOK, ToSet
<1>4. \A i \in 1 .. n : st[i] \in Nodes /\ st[i] \in On /\ disc[st[i]] \in Nat
  BY <1>1, <1>2, <1>3, ElementOfSeq DEF Typed
<1>5. \A i, j \in 1 .. n : i < j => disc[st[i]] < disc[st[j]]
  BY <1>2 DEF StackOK
<1> DEFINE places == {i \in DOMAIN st : st[i] = u}
<1>6. places \in SUBSET (1 .. n) /\ places # {}
  BY <1>1, <1>2, <1>3
<1>7. IsFiniteSet(places) /\ places \subseteq Int
  <2>1. IsFiniteSet(1 .. n)
    BY FS_Interval
  <2> HIDE DEF places
  <2>2. IsFiniteSet(places)
    BY <1>6, <2>1, FS_Subset
  <2>3. 1 .. n \subseteq Int
    OBVIOUS
  <2> QED BY <1>6, <2>2, <2>3
<1>8. PICK at \in 1 .. n : at = Max(places) /\ st[at] = u
  <2>1. Max(places) \in places
    <3> HIDE DEF places
    <3> QED BY <1>6, <1>7, MaxIn
  <2> QED BY <1>6, <2>1
<1>9. UpTo(u, << >>) = [st |-> SubSeq(st, 1, at - 1), newscc |-> << >> \o Reverse(SubSeq(st, at, n))]
  BY <1>2, <1>8 DEF UpTo
<1> HIDE DEF places
<1>10. PICK below \in Seq(Nodes) : below = SubSeq(st, 1, at - 1) /\ Len(below) = at - 1
                                  /\ \A i \in 1 .. at - 1 : below[i] = st[i]
  <2>1. at - 1 \in Nat /\ at - 1 <= Len(st)
    BY <1>2
  <2> QED BY <1>1, <2>1, PrefixIs
<1>11. PICK c \in Nat : c = n - at + 1
  OBVIOUS
<1> DEFINE tail == SubSeq(st, at, n)
           top == [k \in 1 .. c |-> st[n + 1 - k]]
<1>12. Len(tail) = c /\ \A k \in 1 .. c : tail[k] = st[at + k - 1]
  <2>1. at \in Int /\ n \in Int
    OBVIOUS
  <2>2. \A k \in at .. n : st[k] \in Nodes
    BY <1>4
  <2>3. /\ Len(tail) = IF at <= n THEN n - at + 1 ELSE 0
        /\ \A k \in 1 .. n - at + 1 : tail[k] = st[at + k - 1]
    BY <2>1, <2>2, SubSeqProperties
  <2> QED BY <1>11, <2>3
<1>13. \A k \in 1 .. c : c - k + 1 \in 1 .. c /\ at + (c - k + 1) - 1 = n + 1 - k /\ n + 1 - k \in at .. n
  BY <1>11
<1>14. Reverse(tail) = top
  <2>1. Reverse(tail) = [k \in 1 .. c |-> tail[(c - k) + 1]]
    BY <1>12 DEF Reverse
  <2>2. \A k \in 1 .. c : tail[(c - k) + 1] = st[n + 1 - k]
    <3> TAKE k \in 1 .. c
    <3>1. tail[c - k + 1] = st[at + (c - k + 1) - 1]
      BY <1>12, <1>13
    <3> QED BY <1>13, <3>1
  <2> HIDE DEF tail
  <2> QED BY <2>1, <2>2
<1>15. top \in Seq(Nodes) /\ Len(top) = c /\ \A k \in 1 .. c : top[k] = st[n + 1 - k]
  <2>1. \A k \in 1 .. c : st[n + 1 - k] \in Nodes
    <3> TAKE k \in 1 .. c
    <3>1. n + 1 - k \in 1 .. n
      BY <1>13
    <3> QED BY <1>4, <3>1
  <2>2. top \in [1 .. c -> Nodes]
    BY <2>1
  <2> QED BY <2>2
<1> HIDE DEF tail, top
<1>16. << >> \o top = top
  BY <1>15, ConcatEmptySeq
<1>17. UpTo(u, << >>).st = below /\ UpTo(u, << >>).newscc = top
  BY <1>9, <1>10, <1>14, <1>16 DEF tail
<1>18. \A i \in 1 .. n : disc[u] <= disc[st[i]] <=> i \in at .. n
  <2> TAKE i \in 1 .. n
  <2>1. disc[st[i]] \in Nat /\ disc[u] \in Nat
    BY <1>4, <1>8
  <2>2. CASE i < at
    <3>1. disc[st[i]] < disc[u]
      BY <1>5, <1>8, <2>2
    <3> QED BY <2>1, <2>2, <3>1
  <2>3. CASE i = at
    BY <1>8, <2>1, <2>3
  <2>4. CASE i > at
    <3>1. disc[u] < disc[st[i]]
      BY <1>5, <1>8, <2>4
    <3> QED BY <2>1, <2>4, <3>1
  <2> QED BY <2>2, <2>3, <2>4
<1>19. Above(u) = {st[i] : i \in at .. n}
  <2>1. \A i \in at .. n : i \in 1 .. n
    OBVIOUS
  <2> QED BY <1>3, <1>18, <2>1 DEF Above
<1>20. \A i, j \in 1 .. n : st[i] = st[j] => i = j
  <2> TAKE i, j \in 1 .. n
  <2>1. ASSUME st[i] = st[j], i # j PROVE FALSE
    <3>1. disc[st[i]] \in Nat /\ disc[st[j]] \in Nat
      BY <1>4
    <3>2. disc[st[i]] < disc[st[j]] \/ disc[st[j]] < disc[st[i]]
      BY <1>5, <2>1
    <3> QED BY <2>1, <3>1, <3>2
  <2> QED BY <2>1
<1>21. ToSet(below) = On \ Above(u)
  <2>1. ToSet(below) = {st[i] : i \in 1 .. at - 1}
    <3>1. DOMAIN below = 1 .. at - 1
      BY <1>10, LenProperties
    <3> QED BY <1>10, <3>1 DEF ToSet
  <2>2. \A i \in 1 .. at - 1 : i \in 1 .. n /\ i \notin at .. n
    OBVIOUS
  <2>3. \A i \in 1 .. n : i \in 1 .. at - 1 \/ i \in at .. n
    OBVIOUS
  <2>4. \A x \in ToSet(below) : x \in On \ Above(u)
    BY <1>4, <1>18, <2>1, <2>2 DEF Above
  <2>5. \A x \in On \ Above(u) : x \in ToSet(below)
    BY <1>3, <1>19, <2>1, <2>3
  <2> QED BY <2>4, <2>5
<1>22. \A i, j \in 1 .. Len(below) : i < j => disc[below[i]] < disc[below[j]]
  <2>1. \A i \in 1 .. at - 1 : i \in 1 .. n
    OBVIOUS
  <2> QED BY <1>5, <1>10, <2>1
<1>23. ToSet(top) = Above(u)
  <2>1. ToSet(top) = {st[n + 1 - k] : k \in 1 .. c}
    <3>1. DOMAIN top = 1 .. c
      BY <1>15, LenProperties
    <3> QED BY <1>15, <3>1 DEF ToSet
  <2>2. \A i \in at .. n : n + 1 - i \in 1 .. c /\ n + 1 - (n + 1 - i) = i
    BY <1>11
  <2>3. \A x \in ToSet(top) : x \in Above(u)
    BY <1>13, <1>19, <2>1
  <2>4. ASSUME NEW x \in Above(u) PROVE x \in ToSet(top)
    <3>1. PICK i \in at .. n : x = st[i]
      BY <1>19
    <3>2. PICK k \in 1 .. c : k = n + 1 - i /\ n + 1 - k = i
      BY <2>2
    <3> QED BY <2>1, <3>1, <3>2
  <2> QED BY <2>3, <2>4
<1>24. IsInjective(top)
  <2>1. ASSUME NEW k \in 1 .. c, NEW m \in 1 .. c, top[k] = top[m] PROVE k = m
    <3>1. n + 1 - k \in 1 .. n /\ n + 1 - m \in 1 .. n
      BY <1>13
    <3>2. n + 1 - k = n + 1 - m
      BY <1>15, <1>20, <2>1, <3>1
    <3> QED BY <3>2
  <2>2. DOMAIN top = 1 .. c
    BY <1>15, LenProperties
  <2> QED BY <2>1, <2>2 DEF IsInjective
<1> QED
  BY <1>10, <1>15, <1>17, <1>21, <1>22, <1>23, <1>24

\* What is above the node of a call that returns with its own number is a
\* component, and no edge leaves it but to finished ones.
LEMMA CollectedIs ==
    ASSUME IInv, calls # << >>, Call.rest = {}, low[Call.u] = disc[Call.u]
    PROVE  /\ \A x \in Above(Call.u) : Component(x) = Above(Call.u)
           /\ Closed(Above(Call.u) \union Done)
<1>0. Typed /\ StackOK /\ CallsOK /\ EdgesOK /\ PathsOK /\ LowOK
  BY DEF IInv
<1>1. PICK u \in Nodes : u = Call.u /\ u = calls[Len(calls)].u /\ Len(calls) \in 1 .. Len(calls)
                         /\ calls[Len(calls)].rest = {}
  BY <1>0, CallIs
<1>2. /\ disc \in [Nodes -> Nat] /\ adj \in [Nodes -> SUBSET Nodes]
      /\ On \subseteq Nodes /\ Active \subseteq On /\ u \in Active
      /\ Done \subseteq Nodes
  <2>1. u \in Active
    BY <1>1 DEF Active
  <2> QED BY <1>0, <2>1, ActiveIs DEF Typed, On, Done
<1>3. PICK S : S = Above(u) /\ S = {y \in On : disc[u] <= disc[y]} /\ S \subseteq Nodes /\ u \in S
  <2>1. u \in On /\ disc[u] \in Nat
    BY <1>2
  <2>2. u \in Above(u)
    BY <2>1 DEF Above
  <2> QED BY <1>2, <2>2 DEF Above
<1>4. ASSUME NEW x \in S, NEW z \in adj[x] PROVE z \in S \union Done
  <2>1. x \in Nodes /\ z \in Nodes /\ x \in On
    BY <1>2, <1>3
  <2>2. disc[x] \in Nat /\ disc[u] \in Nat /\ disc[z] \in Nat
    BY <1>2, <2>1
  <2>3. disc[x] # Unseen
    BY <1>0, <2>1 DEF StackOK
  <2>4. x = u \/ disc[u] < disc[x]
    <3>1. disc[x] = disc[u] => x = u
      BY <1>0, <1>2, <2>1, OneNumber
    <3> QED BY <1>3, <2>2, <3>1
  <2>5. disc[z] # Unseen /\ (z \in On => disc[u] <= disc[z])
    <3>1. CASE x = u
      <4>1. z \in adj[u] \ calls[Len(calls)].rest
        BY <1>1, <1>4, <3>1
      <4> QED BY <1>0, <1>1, <4>1 DEF EdgesOK, LowOK
    <3>2. CASE disc[u] < disc[x]
      <4>1. x \notin Active
        <5>1. x \in Active => x = u \/ disc[x] < disc[u]
          BY <1>0, <1>1, ActiveIs
        <5> QED BY <2>2, <3>2, <5>1
      <4>2. disc[z] # Unseen
        BY <1>0, <1>4, <2>1, <2>3, <4>1 DEF EdgesOK
      <4>3. x \in Returned(Len(calls))
        BY <1>1, <2>1, <3>2 DEF Returned
      <4>4. z \in On => disc[u] <= disc[z]
        BY <1>0, <1>1, <1>4, <4>3 DEF LowOK
      <4> QED BY <4>2, <4>4
    <3> QED BY <2>4, <3>1, <3>2
  <2>6. z \in On \/ z \in Done
    BY <2>1, <2>5 DEF On, Done
  <2> QED BY <1>3, <2>5, <2>6
<1>5. Closed(S \union Done) /\ Closed(Done)
  <2>1. \A x \in Done : adj[x] \subseteq Done
    BY <1>0 DEF EdgesOK
  <2> QED BY <1>4, <2>1 DEF Closed
<1>6. Reach[u] \subseteq S \union Done /\ \A v \in Done : Reach[v] \subseteq Done
  <2>1. S \union Done \in SUBSET Nodes /\ Done \in SUBSET Nodes /\ u \in S \union Done
    BY <1>2, <1>3
  <2> QED BY <1>2, <1>5, <2>1, ReachIs
<1>7. \A w, v \in Nodes : v \in Component(w) <=> v \in Reach[w] /\ w \in Reach[v]
  BY <1>2, ComponentIs
<1>8. ASSUME NEW v \in Nodes, v \in Component(u) PROVE v \in S
  <2>1. v \in Reach[u] /\ u \in Reach[v]
    BY <1>7, <1>8
  <2>2. u \notin Done
    BY <1>2 DEF On, Done
  <2> QED BY <1>6, <2>1, <2>2
<1>9. ASSUME NEW y \in S PROVE y \in Component(u)
  <2>1. y \in On /\ disc[u] <= disc[y] /\ y \in Nodes
    BY <1>2, <1>3
  <2>2. y \in Reach[u]
    BY <1>0, <1>2, <2>1 DEF PathsOK
  <2>3. PICK x \in Active : disc[x] <= disc[y] /\ x \in Reach[y]
    BY <1>0, <2>1 DEF PathsOK
  <2>4. disc[x] <= disc[u] /\ x \in Nodes /\ u \in On
    <3>1. x = u \/ disc[x] < disc[u]
      BY <1>0, <1>1, ActiveIs
    <3>2. x \in Nodes /\ disc[x] \in Nat /\ disc[u] \in Nat
      BY <1>2
    <3> QED BY <1>2, <3>1, <3>2
  <2>5. u \in Reach[x]
    BY <1>0, <2>4 DEF PathsOK
  <2>6. u \in Reach[y]
    BY <1>2, <2>1, <2>3, <2>4, <2>5, ReachIs
  <2> QED BY <1>7, <2>1, <2>2, <2>6
<1>10. Component(u) = S
  <2>1. Component(u) \subseteq Nodes
    BY <1>2, ComponentIs
  <2> QED BY <1>8, <1>9, <2>1
<1>11. \A x \in S : Component(x) = S
  <2> TAKE x \in S
  <2>1. x \in Component(u) /\ x \in Nodes
    BY <1>3, <1>10
  <2> QED BY <1>2, <1>10, <2>1, ComponentIs
<1> QED
  BY <1>1, <1>3, <1>5, <1>11

-----------------------------------------------------------------------------
(* The list of stacks. *)

\* How many disjoint sets of some size there is room for.
LEMMA DisjointSizes ==
    ASSUME NEW U, IsFiniteSet(U), NEW n \in Nat, NEW size \in Nat, NEW f,
           \A i \in 1 .. n : f[i] \subseteq U /\ Cardinality(f[i]) >= size,
           \A i, j \in 1 .. n : i # j => f[i] \intersect f[j] = {}
    PROVE  n * size <= Cardinality(U)
<1> DEFINE B(k) == UNION {f[i] : i \in 1 .. k}
           G == {k \in Nat : k <= n => k * size <= Cardinality(B(k))}
<1>1. \A k \in Nat : k <= n => B(k) \in SUBSET U
  <2> SUFFICES ASSUME NEW k \in Nat, k <= n, NEW i \in 1 .. k PROVE f[i] \subseteq U
    OBVIOUS
  <2>1. i \in 1 .. n
    OBVIOUS
  <2> QED BY <2>1
<1>2. 0 \in G
  <2>1. B(0) = {}
    OBVIOUS
  <2>2. Cardinality(B(0)) = 0
    BY <2>1, FS_EmptySet
  <2> HIDE DEF B
  <2>3. 0 * size = 0
    OBVIOUS
  <2> QED BY <2>2, <2>3
<1>3. ASSUME NEW k \in Nat, k \in G PROVE k + 1 \in G
  <2> SUFFICES ASSUME k + 1 <= n PROVE (k + 1) * size <= Cardinality(B(k + 1))
    OBVIOUS
  <2>1. k + 1 \in 1 .. n /\ k <= n /\ k * size <= Cardinality(B(k))
    BY <1>3
  <2>2. B(k + 1) = B(k) \union f[k + 1]
    <3>1. \A i \in 1 .. k + 1 : i = k + 1 \/ i \in 1 .. k
      OBVIOUS
    <3>2. \A i \in 1 .. k : i \in 1 .. k + 1
      OBVIOUS
    <3>3. k + 1 \in 1 .. k + 1
      OBVIOUS
    <3> QED BY <3>1, <3>2, <3>3
  <2>3. B(k) \intersect f[k + 1] = {}
    <3>1. \A i \in 1 .. k : i \in 1 .. n /\ i # k + 1
      BY <2>1
    <3>2. \A i \in 1 .. k : f[i] \intersect f[k + 1] = {}
      BY <2>1, <3>1
    <3> QED BY <3>2
  <2>4. /\ IsFiniteSet(B(k)) /\ Cardinality(B(k)) \in Nat
        /\ IsFiniteSet(f[k + 1]) /\ Cardinality(f[k + 1]) \in Nat /\ Cardinality(f[k + 1]) >= size
    <3>1. B(k) \in SUBSET U /\ f[k + 1] \in SUBSET U /\ Cardinality(f[k + 1]) >= size
      BY <1>1, <2>1
    <3> HIDE DEF B
    <3>2. IsFiniteSet(B(k)) /\ IsFiniteSet(f[k + 1])
      BY <3>1, FS_Subset
    <3> QED BY <3>1, <3>2, FS_CardinalityType
  <2> HIDE DEF B
  <2>5. Cardinality(B(k + 1)) = Cardinality(B(k)) + Cardinality(f[k + 1])
    <3>1. Cardinality(B(k) \union f[k + 1])
            = Cardinality(B(k)) + Cardinality(f[k + 1]) - Cardinality(B(k) \intersect f[k + 1])
      BY <2>4, FS_Union
    <3>2. Cardinality(B(k) \intersect f[k + 1]) = 0
      BY <2>3, FS_EmptySet
    <3>3. PICK a \in Nat, b \in Nat : a = Cardinality(B(k)) /\ b = Cardinality(f[k + 1])
      BY <2>4
    <3>4. a + b - 0 = a + b
      OBVIOUS
    <3> QED BY <2>2, <3>1, <3>2, <3>3, <3>4
  <2>6. (k + 1) * size = k * size + size /\ k * size \in Int
    OBVIOUS
  <2> QED BY <2>1, <2>4, <2>5, <2>6
<1>4. \A k \in Nat : k \in G
  <2> HIDE DEF G
  <2> QED BY <1>2, <1>3, NaturalInduction
<1>5. n * size <= Cardinality(B(n)) /\ B(n) \in SUBSET U
  <2>1. n <= n /\ n \in G
    BY <1>4
  <2>2. B(n) \in SUBSET U
    BY <1>1, <2>1
  <2> HIDE DEF B
  <2> QED BY <2>1, <2>2
<1> HIDE DEF B
<1>6. Cardinality(B(n)) <= Cardinality(U) /\ Cardinality(B(n)) \in Nat /\ Cardinality(U) \in Nat
  BY <1>5, FS_Subset, FS_CardinalityType
<1>7. n * size \in Int
  OBVIOUS
<1> QED
  BY <1>5, <1>6, <1>7

\* Stacks that are all in use are no more than there is room for.
LEMMA UsedFew ==
    ASSUME Typed, NEW list \in Seq(Seq(Nodes)), NEW D \in SUBSET Nodes, Holds(list, D),
           \A i \in 1 .. Len(list) : list[i] # << >>
    PROVE  Len(list) <= V \div Threshold
<1>1. PICK n \in Nat : n = Len(list)
  OBVIOUS
<1> DEFINE f == [i \in 1 .. n |-> ToSet(list[i])]
<1>2. \A i \in 1 .. n : /\ f[i] = ToSet(list[i]) /\ Cardinality(f[i]) >= Threshold
                        /\ \E x \in D : f[i] = Component(x)
  BY <1>1 DEF Holds
<1>3. \A i, j \in 1 .. n : f[i] = f[j] => i = j
  BY <1>1 DEF Holds
<1> HIDE DEF f
<1>4. /\ \A u \in Nodes : Component(u) \subseteq Nodes /\ u \in Component(u)
      /\ \A u, v \in Nodes : v \in Component(u) => Component(v) = Component(u)
  BY ComponentIs DEF Typed
<1>5. ASSUME NEW i \in 1 .. n, NEW j \in 1 .. n, i # j PROVE f[i] \intersect f[j] = {}
  <2>1. PICK x \in Nodes : f[i] = Component(x)
    BY <1>2
  <2>2. PICK y \in Nodes : f[j] = Component(y)
    BY <1>2
  <2>3. \A z \in f[i] \intersect f[j] : z \in Nodes /\ f[i] = f[j]
    BY <1>4, <2>1, <2>2
  <2> QED BY <1>3, <1>5, <2>3
<1>6. \A i \in 1 .. n : f[i] \subseteq Nodes
  BY <1>2, <1>4
<1>7. n * Threshold <= V
  <2>1. Threshold \in Nat
    BY Sizes
  <2>2. n * Threshold <= Cardinality(Nodes)
    BY <1>2, <1>5, <1>6, <2>1, Sizes, DisjointSizes
  <2> QED BY <2>2, Sizes
<1>8. Threshold \in Nat \ {0} /\ V \in Nat
  BY Sizes
<1>9. PICK q \in Nat, r \in 0 .. Threshold - 1 : q = V \div Threshold /\ V = Threshold * q + r
  BY <1>8, DivMod
<1>10. ASSUME n > q PROVE FALSE
  <2>1. PICK d \in Nat : n = q + 1 + d
    <3>1. n - q - 1 \in Nat /\ n = q + 1 + (n - q - 1)
      BY <1>10
    <3> QED BY <3>1
  <2>2. n * Threshold = Threshold * q + Threshold + d * Threshold
    BY <1>8, <2>1
  <2>3. d * Threshold \in Nat /\ Threshold * q \in Nat
    BY <1>8
  <2> QED BY <1>7, <1>8, <1>9, <2>2, <2>3
<1> QED
  BY <1>1, <1>9, <1>10

LEMMA WithFreeIs ==
    ASSUME Typed, ListOK
    PROVE  /\ WithFree.list \in Seq(Seq(Nodes)) /\ WithFree.at \in 1 .. Len(WithFree.list)
           /\ WithFree.list[WithFree.at] = << >>
           /\ Len(WithFree.list) <= V \div Threshold + 1
           /\ Holds(WithFree.list, Done)
<1>1. PICK n \in Nat : n = Len(sccl)
  BY DEF Typed
<1>2. /\ sccl \in Seq(Seq(Nodes)) /\ DOMAIN sccl = 1 .. n /\ \A i \in 1 .. n : sccl[i] \in Seq(Nodes)
      /\ Holds(sccl, Done) /\ n <= V \div Threshold + 1 /\ Done \in SUBSET Nodes
  BY <1>1, LenProperties, ElementOfSeq DEF Typed, ListOK, Done
<1> DEFINE free == {i \in DOMAIN sccl : Empty(sccl[i])}
<1>3. CASE free # {}
  <2>1. WithFree = [list |-> sccl, at |-> Min(free)]
    BY <1>3 DEF WithFree
  <2>2. free \subseteq Nat /\ \A i \in free : i \in 1 .. n /\ sccl[i] = << >>
    BY <1>2 DEF Empty
  <2> HIDE DEF free
  <2>3. Min(free) \in free
    BY <1>3, <2>2, MinIn
  <2> QED BY <1>1, <1>2, <2>1, <2>2, <2>3
<1>4. CASE free = {}
  <2> DEFINE list == <<NewStack>> \o sccl
  <2>1. WithFree = [list |-> list, at |-> 1]
    BY <1>4 DEF WithFree
  <2>2. \A i \in 1 .. n : sccl[i] # << >>
    BY <1>2, <1>4 DEF Empty
  <2>3. n <= V \div Threshold
    BY <1>1, <1>2, <2>2, UsedFew
  <2>4. /\ list \in Seq(Seq(Nodes)) /\ Len(list) = n + 1 /\ list[1] = << >>
        /\ \A i \in 2 .. n + 1 : list[i] = sccl[i - 1]
    <3>1. <<NewStack>> \in Seq(Seq(Nodes)) /\ Len(<<NewStack>>) = 1 /\ <<NewStack>>[1] = << >>
      BY DEF NewStack
    <3>2. /\ list \in Seq(Seq(Nodes)) /\ Len(list) = 1 + n
          /\ \A i \in 1 .. 1 + n : list[i] = IF i <= 1 THEN <<NewStack>>[i] ELSE sccl[i - 1]
      <4> HIDE DEF list
      <4>1. PICK a \in Seq(Seq(Nodes)) : a = <<NewStack>>
        BY <3>1
      <4>2. list = a \o sccl
        BY <4>1 DEF list
      <4>3. Len(a) = 1
        BY <3>1, <4>1
      <4> QED BY <1>1, <1>2, <4>1, <4>2, <4>3, ConcatProperties
    <3> HIDE DEF list
    <3>3. 1 \in 1 .. 1 + n /\ \A i \in 2 .. n + 1 : i \in 1 .. 1 + n /\ ~(i <= 1)
      OBVIOUS
    <3> QED BY <3>1, <3>2, <3>3
  <2> HIDE DEF list
  <2>5. \A i \in 1 .. n + 1 : i = 1 \/ (i \in 2 .. n + 1 /\ i - 1 \in 1 .. n)
    OBVIOUS
  <2>6. /\ ToSet(list[1]) = {}
        /\ \A i \in 1 .. n : ToSet(sccl[i]) # {}
    BY <1>2, <2>2, <2>4, QueueMember
  <2>7. \A i \in 1 .. n + 1 : list[i] # << >> => i # 1 /\ list[i] = sccl[i - 1] /\ i - 1 \in 1 .. n
    BY <2>4, <2>5
  <2>8. \A i \in 1 .. n + 1 : list[i] # << >> =>
           /\ IsInjective(list[i]) /\ Cardinality(ToSet(list[i])) >= Threshold
           /\ \E x \in Done : ToSet(list[i]) = Component(x)
    <3> SUFFICES ASSUME NEW i \in 1 .. n + 1, list[i] # << >>
                 PROVE  /\ IsInjective(list[i]) /\ Cardinality(ToSet(list[i])) >= Threshold
                        /\ \E x \in Done : ToSet(list[i]) = Component(x)
      OBVIOUS
    <3>1. PICK k \in 1 .. n : list[i] = sccl[k] /\ sccl[k] # << >>
      BY <2>7
    <3> QED BY <1>1, <1>2, <3>1 DEF Holds
  <2>9. ASSUME NEW i \in 1 .. n + 1, NEW j \in 1 .. n + 1, list[i] # << >>, ToSet(list[i]) = ToSet(list[j])
        PROVE  i = j
    <3>1. i - 1 \in 1 .. n /\ list[i] = sccl[i - 1]
      BY <2>7, <2>9
    <3>2. j # 1
      BY <2>6, <2>9, <3>1
    <3>3. j - 1 \in 1 .. n /\ list[j] = sccl[j - 1]
      BY <2>4, <2>5, <3>2
    <3>4. i - 1 = j - 1
      BY <1>1, <1>2, <2>2, <2>9, <3>1, <3>3 DEF Holds
    <3> QED BY <3>4
  <2>10. ASSUME NEW x \in Done, Cardinality(Component(x)) >= Threshold
         PROVE  \E i \in 1 .. n + 1 : ToSet(list[i]) = Component(x)
    <3>1. PICK k \in 1 .. n : ToSet(sccl[k]) = Component(x)
      BY <1>1, <1>2, <2>10 DEF Holds
    <3>2. k + 1 \in 2 .. n + 1 /\ k + 1 \in 1 .. n + 1 /\ (k + 1) - 1 = k
      OBVIOUS
    <3>3. list[k + 1] = sccl[k]
      BY <2>4, <3>2
    <3> QED BY <3>1, <3>2, <3>3
  <2>11. Holds(list, Done)
    BY <2>4, <2>8, <2>9, <2>10 DEF Holds
  <2>12. 1 \in 1 .. n + 1 /\ n + 1 <= V \div Threshold + 1
    <3>1. V \div Threshold \in Nat
      BY Sizes, DivMod
    <3> QED BY <2>3, <3>1
  <2> QED BY <2>1, <2>4, <2>11, <2>12
<1> QED
  BY <1>3, <1>4

\* A free stack takes a component if it is large.
LEMMA HoldsMore ==
    ASSUME Typed, NEW list \in Seq(Seq(Nodes)), NEW D \in SUBSET Nodes, Holds(list, D),
           NEW at \in 1 .. Len(list), list[at] = << >>,
           NEW S \in SUBSET Nodes, S # {}, \A x \in S : Component(x) = S, S \intersect D = {},
           NEW c \in Seq(Nodes),
           Cardinality(S) < Threshold => c = << >>,
           ~(Cardinality(S) < Threshold) => IsInjective(c) /\ ToSet(c) = S
    PROVE  Holds([list EXCEPT ![at] = c], D \union S)
<1>1. PICK n \in Nat : n = Len(list)
  OBVIOUS
<1> DEFINE new == [list EXCEPT ![at] = c]
<1>2. /\ Len(new) = n /\ at \in 1 .. n
      /\ \A i \in 1 .. n : new[i] = IF i = at THEN c ELSE list[i]
  BY <1>1
<1> HIDE DEF new
<1>3. Cardinality(S) \in Nat /\ Threshold \in Nat
  BY Sizes, FS_Subset, FS_CardinalityType
<1>4. /\ \A u \in Nodes : u \in Component(u)
      /\ \A s \in Seq(Nodes) : s = << >> <=> ToSet(s) = {}
      /\ \A i \in 1 .. n : list[i] \in Seq(Nodes)
  BY <1>1, ComponentIs, QueueMember, ElementOfSeq DEF Typed
<1>5. /\ c # << >> => ToSet(c) = S /\ IsInjective(c) /\ Cardinality(ToSet(c)) >= Threshold
      /\ ToSet(c) = S \/ ToSet(c) = {}
  BY <1>3, <1>4
<1>6. \A i \in 1 .. n : list[i] # << >> => ToSet(list[i]) # S /\ ToSet(list[i]) # {}
  <2> SUFFICES ASSUME NEW i \in 1 .. n, list[i] # << >>
               PROVE  ToSet(list[i]) # S /\ ToSet(list[i]) # {}
    OBVIOUS
  <2>1. PICK x \in D : ToSet(list[i]) = Component(x)
    BY <1>1 DEF Holds
  <2>2. x \in Component(x) /\ x \notin S
    BY <1>4
  <2> QED BY <2>1, <2>2
<1>7. ASSUME NEW i \in 1 .. n, new[i] # << >>
      PROVE  /\ IsInjective(new[i]) /\ Cardinality(ToSet(new[i])) >= Threshold
             /\ \E x \in D \union S : ToSet(new[i]) = Component(x)
  <2>1. CASE i = at
    <3>1. new[i] = c
      BY <1>2, <2>1
    <3> QED BY <1>5, <1>7, <3>1
  <2>2. CASE i # at
    <3>1. new[i] = list[i]
      BY <1>2, <2>2
    <3> QED BY <1>1, <1>7, <3>1 DEF Holds
  <2> QED BY <2>1, <2>2
<1>8. ASSUME NEW i \in 1 .. n, NEW j \in 1 .. n, new[i] # << >>, ToSet(new[i]) = ToSet(new[j])
      PROVE  i = j
  <2>1. CASE i = at /\ j # at
    <3>1. ToSet(list[j]) = S /\ list[j] \in Seq(Nodes)
      BY <1>2, <1>4, <1>5, <1>8, <2>1
    <3>2. list[j] # << >>
      BY <1>4, <3>1
    <3> QED BY <1>6, <3>1, <3>2
  <2>2. CASE i # at /\ j = at
    <3>1. new[i] = list[i] /\ new[j] = c
      BY <1>2, <2>2
    <3> QED BY <1>5, <1>6, <1>8, <3>1
  <2>3. CASE i # at /\ j # at
    <3>1. new[i] = list[i] /\ new[j] = list[j]
      BY <1>2, <2>3
    <3> QED BY <1>1, <1>8, <3>1 DEF Holds
  <2> QED BY <2>1, <2>2, <2>3
<1>9. ASSUME NEW x \in D \union S, Cardinality(Component(x)) >= Threshold
      PROVE  \E i \in 1 .. n : ToSet(new[i]) = Component(x)
  <2>1. CASE x \in S
    <3>1. Component(x) = S
      BY <2>1
    <3>2. ToSet(new[at]) = S
      BY <1>2, <1>3, <1>9, <3>1
    <3> QED BY <1>2, <3>1, <3>2
  <2>2. CASE x \notin S
    <3>0. x \in D
      BY <2>2
    <3>1. PICK i \in 1 .. n : ToSet(list[i]) = Component(x)
      BY <1>1, <1>9, <3>0 DEF Holds
    <3>2. list[i] # << >>
      BY <1>4, <3>0, <3>1
    <3>3. new[i] = list[i]
      BY <1>2, <3>2
    <3> QED BY <3>1, <3>3
  <2> QED BY <2>1, <2>2
<1>10. Holds(new, D \union S)
  BY <1>2, <1>7, <1>8, <1>9 DEF Holds
<1> QED
  BY <1>10 DEF new
LEMMA CollectKeeps == ASSUME IInv, Collect PROVE IInv'
<1>0. Typed /\ StageOK /\ StackOK /\ CallsOK /\ EdgesOK /\ PathsOK /\ LowOK /\ ListOK
  BY DEF IInv
<1> DEFINE at == WithFree.at
           moved == UpTo(Call.u, WithFree.list[at])
           kept == IF Len(moved.newscc) < Threshold THEN Reset(WithFree.list[at]) ELSE moved.newscc
<1>1. /\ calls # << >> /\ Call.rest = {} /\ low[Call.u] = disc[Call.u]
      /\ calls' = Front(calls)
      /\ low' = IF Len(calls) = 1 THEN low
                ELSE [low EXCEPT ![calls[Len(calls) - 1].u] = Smaller(@, low[Call.u])]
      /\ stage' = stage /\ adj' = adj /\ timeG' = timeG /\ disc' = disc
  BY DEF Collect, Return
<1>2. /\ st' = moved.st
      /\ stackMember' = [x \in Nodes |-> stackMember[x] /\ x \notin ToSet(moved.newscc)]
      /\ sccl' = [WithFree.list EXCEPT ![at] = kept]
  BY DEF Collect
<1>3. /\ WithFree.list \in Seq(Seq(Nodes)) /\ at \in 1 .. Len(WithFree.list)
      /\ WithFree.list[at] = << >> /\ Len(WithFree.list) <= V \div Threshold + 1
      /\ Holds(WithFree.list, Done)
  BY <1>0, WithFreeIs
<1>4. PICK n \in Nat \ {0} : n = Len(calls)
  BY <1>0, <1>1, CallIs
<1>5. PICK u \in Nodes : u = Call.u
  BY <1>0, <1>1, CallIs
<1>6. calls[n].u = u /\ n \in 1 .. n /\ calls[n].rest = {} /\ low[u] = disc[u]
  BY <1>0, <1>1, <1>4, <1>5, CallIs
<1>7. /\ calls' \in Seq(Frames) /\ Len(calls') = n - 1
      /\ \A i \in 1 .. n - 1 : calls'[i] = calls[i] /\ i \in 1 .. n
      /\ Active' = Active \ {u} /\ u \in Active
  BY <1>0, <1>1, <1>4, <1>5, ReturnIs
<1>8. /\ disc \in [Nodes -> Nat] /\ low \in [Nodes -> Nat] /\ adj \in [Nodes -> SUBSET Nodes]
      /\ stackMember \in [Nodes -> BOOLEAN]
      /\ On \subseteq Nodes /\ Active \subseteq On /\ u \in On /\ Done \in SUBSET Nodes
  BY <1>0, <1>7, ActiveIs DEF Typed, On, Done
<1>9. PICK S \in SUBSET Nodes : /\ S = Above(u) /\ S = {y \in On : disc[u] <= disc[y]} /\ u \in S
                                /\ S \intersect Done = {}
  <2>1. disc[u] \in Nat
    BY <1>8
  <2>2. disc[u] <= disc[u]
    BY <2>1
  <2>3. On \intersect Done = {}
    BY DEF On, Done
  <2>4. Above(u) = {y \in On : disc[u] <= disc[y]}
    BY DEF Above
  <2> QED BY <1>8, <2>2, <2>3, <2>4
<1>10. (\A x \in S : Component(x) = S) /\ Closed(S \union Done)
  BY <1>1, <1>5, <1>9, CollectedIs
<1>11. /\ moved.st \in Seq(Nodes) /\ ToSet(moved.st) = On \ S
       /\ \A i, j \in 1 .. Len(moved.st) : i < j => disc[moved.st[i]] < disc[moved.st[j]]
       /\ moved.newscc \in Seq(Nodes) /\ ToSet(moved.newscc) = S /\ IsInjective(moved.newscc)
  BY <1>0, <1>3, <1>5, <1>8, <1>9, UpToIs
<1>12. Len(moved.newscc) = Cardinality(S)
  BY <1>11, SequenceSize
<1>13. /\ kept \in Seq(Nodes)
       /\ Cardinality(S) < Threshold => kept = << >>
       /\ ~(Cardinality(S) < Threshold) => IsInjective(kept) /\ ToSet(kept) = S
  <2>1. Reset(WithFree.list[at]) = << >> /\ << >> \in Seq(Nodes)
    BY DEF Reset
  <2> HIDE DEF moved, at
  <2> QED BY <1>11, <1>12, <2>1
<1> HIDE DEF moved, at, kept
<1>14. \A x \in Nodes : stackMember'[x] <=> stackMember[x] /\ x \notin S
  BY <1>2, <1>11
<1>15. On' = On \ S /\ Done' = Done \union S
  <2>1. On' = {x \in Nodes : stackMember'[x]}
    BY DEF On
  <2>2. Done' = {x \in Nodes : disc[x] # Unseen /\ ~stackMember'[x]}
    BY <1>1 DEF Done
  <2>3. On' = On \ S
    BY <1>14, <2>1 DEF On
  <2>4. \A x \in S : x \in Nodes /\ disc[x] # Unseen
    BY <1>0, <1>9 DEF StackOK
  <2>5. \A x \in Nodes : x \in Done' <=> x \in Done \/ x \in S
    BY <1>14, <2>2, <2>4 DEF Done
  <2> QED BY <1>8, <2>2, <2>3, <2>5
<1>16. Reach' = Reach /\ \A x : Component(x)' = Component(x)
  BY <1>1, ReachSame
<1>17. /\ \A i \in 1 .. n - 1 : disc[calls[i].u] < disc[u]
       /\ \A i \in 1 .. n - 1 : calls[i].u \in On'
  <2> SUFFICES ASSUME NEW i \in 1 .. n - 1
               PROVE  disc[calls[i].u] < disc[u] /\ calls[i].u \in On'
    OBVIOUS
  <2>1. i \in 1 .. n /\ i < n
    OBVIOUS
  <2>2. disc[calls[i].u] < disc[u] /\ calls[i].u \in On
    BY <1>0, <1>4, <1>6, <2>1 DEF CallsOK
  <2>3. disc[calls[i].u] \in Nat /\ disc[u] \in Nat
    BY <1>8, <2>2
  <2>4. calls[i].u \notin S
    BY <1>9, <2>2, <2>3
  <2> QED BY <1>15, <2>2, <2>4
<1>18. low' = low
  <2>1. CASE n = 1
    BY <1>1, <1>4, <2>1
  <2>2. CASE n # 1
    <3>1. n - 1 \in 1 .. n - 1
      BY <2>2
    <3>2. n - 1 \in 1 .. n
      BY <3>1
    <3>3. PICK w \in Nodes : w = calls[n - 1].u /\ disc[w] < disc[u] /\ low[w] <= disc[w]
      <4>1. calls[n - 1].u \in Nodes /\ disc[calls[n - 1].u] < disc[u]
        BY <1>8, <1>15, <1>17, <3>1
      <4>2. low[calls[n - 1].u] <= disc[calls[n - 1].u]
        BY <1>0, <1>4, <3>2 DEF LowOK
      <4> QED BY <4>1, <4>2
    <3>4. low[w] \in Nat /\ low[u] \in Nat /\ disc[w] \in Nat
      BY <1>8
    <3>5. Smaller(low[w], low[u]) = low[w]
      <4>1. low[w] < low[u]
        BY <1>6, <3>3, <3>4
      <4>2. /\ Smaller(low[w], low[u]) \in Nat /\ Smaller(low[w], low[u]) <= low[w]
            /\ Smaller(low[w], low[u]) = low[w] \/ Smaller(low[w], low[u]) = low[u]
        BY <3>4, SmallerIs
      <4> QED BY <3>4, <4>1, <4>2
    <3>6. low' = [low EXCEPT ![w] = Smaller(low[w], low[u])]
      BY <1>1, <1>4, <1>5, <2>2, <3>3
    <3> QED BY <1>8, <3>5, <3>6
  <2> QED BY <2>1, <2>2
<1>19. sccl' \in Seq(Seq(Nodes)) /\ Len(sccl') = Len(WithFree.list)
  BY <1>2, <1>3, <1>13
<1>20. Typed'
  <2>1. stackMember' \in [Nodes -> BOOLEAN]
    BY <1>2
  <2> QED BY <1>0, <1>1, <1>2, <1>7, <1>11, <1>18, <1>19, <2>1 DEF Typed
<1>21. StageOK'
  BY <1>0, <1>1 DEF StageOK
<1>22. StackOK'
  <2>1. \A x \in On' : disc[x] # Unseen
    BY <1>0, <1>15 DEF StackOK
  <2>2. \A x \in Nodes : disc[x] <= timeG
    BY <1>0 DEF StackOK
  <2> QED BY <1>1, <1>2, <1>11, <1>15, <2>1, <2>2 DEF StackOK
<1>23. CallsOK'
  <2>1. \A i \in 1 .. n - 1 : calls'[i].u \in On' /\ calls'[i].rest \subseteq adj[calls'[i].u]
    BY <1>0, <1>4, <1>7, <1>17 DEF CallsOK
  <2>2. \A i, j \in 1 .. n - 1 : i < j => disc[calls'[i].u] < disc[calls'[j].u]
    BY <1>0, <1>4, <1>7 DEF CallsOK
  <2> QED BY <1>1, <1>7, <2>1, <2>2 DEF CallsOK
<1>24. EdgesOK'
  <2>0. \A t \in adj[u] : disc[t] # Unseen
    BY <1>0, <1>4, <1>6 DEF EdgesOK
  <2>1. ASSUME NEW x \in Nodes, disc[x] # Unseen, x \notin Active', NEW t \in adj[x]
        PROVE  disc[t] # Unseen
    <3>1. x = u \/ x \notin Active
      BY <1>7, <2>1
    <3> QED BY <1>0, <2>0, <2>1, <3>1 DEF EdgesOK
  <2>2. \A i \in 1 .. n - 1 : \A t \in adj[calls'[i].u] \ calls'[i].rest : disc[t] # Unseen
    BY <1>0, <1>4, <1>7 DEF EdgesOK
  <2>3. \A x \in Done' : adj[x] \subseteq Done'
    BY <1>10, <1>15 DEF Closed
  <2> QED BY <1>1, <1>7, <2>1, <2>2, <2>3 DEF EdgesOK
<1>25. PathsOK'
  <2>1. \A x \in Active', y \in On' : disc[x] <= disc[y] => y \in Reach[x]
    BY <1>0, <1>7, <1>15 DEF PathsOK
  <2>2. ASSUME NEW y \in On'
        PROVE  \E x \in Active' : disc[x] <= disc[y] /\ x \in Reach[y]
    <3>1. y \in On /\ y \notin S
      BY <1>15
    <3>2. PICK x \in Active : disc[x] <= disc[y] /\ x \in Reach[y]
      BY <1>0, <3>1 DEF PathsOK
    <3>3. x # u
      BY <1>9, <3>1, <3>2
    <3> QED BY <1>7, <3>2, <3>3
  <2> QED BY <1>1, <1>16, <2>1, <2>2 DEF PathsOK
<1>26. LowOK'
  <2>1. ASSUME NEW i \in 1 .. n - 1
        PROVE  /\ low[calls'[i].u] <= disc[calls'[i].u]
               /\ \E y \in On' : disc[y] = low[calls'[i].u] /\ y \in Reach[calls'[i].u]
               /\ \A y \in Returned(i)' : \A z \in adj[y] \intersect On' : low[calls'[i].u] <= disc[z]
               /\ \A z \in (adj[calls'[i].u] \ calls'[i].rest) \intersect On' : low[calls'[i].u] <= disc[z]
    <3>1. PICK v \in On : v = calls[i].u /\ disc[v] < disc[u]
      BY <1>15, <1>17
    <3>2. calls'[i].u = v /\ calls'[i].rest = calls[i].rest /\ v \in Nodes /\ i \in 1 .. n
      BY <1>7, <1>8, <3>1
    <3>3. /\ low[v] <= disc[v]
          /\ \E y \in On : disc[y] = low[v] /\ y \in Reach[v]
          /\ \A y \in Returned(i) : \A z \in adj[y] \intersect On : low[v] <= disc[z]
          /\ \A z \in (adj[v] \ calls[i].rest) \intersect On : low[v] <= disc[z]
      BY <1>0, <1>4, <3>1, <3>2 DEF LowOK
    <3>4. \E y \in On' : disc[y] = low[v] /\ y \in Reach[v]
      <4>1. PICK y \in On : disc[y] = low[v] /\ y \in Reach[v]
        BY <3>3
      <4>2. disc[y] \in Nat /\ disc[v] \in Nat /\ disc[u] \in Nat
        BY <1>8, <3>2
      <4>3. y \notin S
        BY <1>9, <3>1, <3>3, <4>1, <4>2
      <4> QED BY <1>15, <4>1, <4>3
    <3>5. Returned(i)' = {y \in On' : /\ disc[v] < disc[y]
                                      /\ i # n - 1 => disc[y] < disc[calls'[i + 1].u]}
      BY <1>1, <1>7, <3>2 DEF Returned
    <3>6. Returned(i) = {y \in On : /\ disc[v] < disc[y]
                                    /\ i # n => disc[y] < disc[calls[i + 1].u]}
      BY <1>4, <3>1 DEF Returned
    <3>7. ASSUME NEW y \in Returned(i)' PROVE y \in Returned(i)
      <4>1. y \in On /\ y \notin S /\ disc[v] < disc[y]
        BY <1>15, <3>5
      <4>2. disc[y] < disc[u]
        <5>1. disc[y] \in Nat /\ disc[u] \in Nat
          BY <1>8, <4>1
        <5> QED BY <1>9, <4>1, <5>1
      <4>3. CASE i = n - 1
        <5>1. calls[i + 1].u = u
          BY <1>6, <4>3
        <5> QED BY <3>6, <4>1, <4>2, <5>1
      <4>4. CASE i # n - 1
        <5>1. i + 1 \in 1 .. n - 1
          BY <4>4
        <5>2. calls'[i + 1] = calls[i + 1]
          BY <1>7, <5>1
        <5> QED BY <3>5, <3>6, <4>1, <4>4, <5>2
      <4> QED BY <4>3, <4>4
    <3>8. \A z \in On' : z \in On
      BY <1>15
    <3> QED BY <3>2, <3>3, <3>4, <3>7, <3>8
  <2> QED BY <1>1, <1>7, <1>16, <1>18, <2>1 DEF LowOK
<1>27. ListOK'
  <2>1. Holds(sccl', Done \union S)
    <3>1. S # {}
      BY <1>9
    <3> QED BY <1>0, <1>2, <1>3, <1>8, <1>9, <1>10, <1>13, <3>1, HoldsMore
  <2> QED BY <1>3, <1>15, <1>16, <1>19, <2>1 DEF ListOK, Holds
<1> QED
  BY <1>20, <1>21, <1>22, <1>23, <1>24, <1>25, <1>26, <1>27 DEF IInv

-----------------------------------------------------------------------------
(* The steps of main. *)

\* No node has been seen and all stacks are empty.
Untouched ==
    /\ calls = << >> /\ st = << >> /\ On = {}
    /\ \A x \in Nodes : disc[x] = Unseen
    /\ \A i \in 1 .. Len(sccl) : sccl[i] = << >>
    /\ Len(sccl) <= V \div Threshold + 1

LEMMA UntouchedIs == Typed /\ Untouched => IInv
<1> SUFFICES ASSUME Typed, Untouched PROVE IInv
  OBVIOUS
<1>1. /\ calls = << >> /\ Len(calls) = 0 /\ st = << >> /\ Len(st) = 0 /\ On = {}
      /\ \A x \in Nodes : disc[x] = Unseen
      /\ \A i \in 1 .. Len(sccl) : sccl[i] = << >>
  BY DEF Untouched
<1>2. Active = {} /\ Done = {}
  BY <1>1 DEF Active, Done
<1>3. StageOK
  BY <1>1 DEF StageOK
<1>4. StackOK
  <2>1. ToSet(st) = On
    <3>1. << >> \in Seq(Nodes)
      OBVIOUS
    <3> QED BY <1>1, <3>1, QueueMember
  <2>2. \A x \in Nodes : disc[x] <= timeG
    BY <1>1 DEF Typed, Unseen
  <2>3. \A i, j \in 1 .. Len(st) : FALSE
    BY <1>1
  <2> QED BY <1>1, <2>1, <2>2, <2>3 DEF StackOK
<1>5. \A i \in 1 .. Len(calls) : FALSE
  BY <1>1
<1>6. CallsOK /\ LowOK
  BY <1>5 DEF CallsOK, LowOK
<1>7. EdgesOK
  BY <1>1, <1>2, <1>5 DEF EdgesOK
<1>8. PathsOK
  BY <1>1, <1>2 DEF PathsOK
<1>9. ListOK
  <2>1. Holds(sccl, Done)
    BY <1>1, <1>2 DEF Holds
  <2> QED BY <2>1 DEF ListOK, Untouched
<1> QED
  BY <1>3, <1>4, <1>6, <1>7, <1>8, <1>9 DEF IInv

LEMMA InitHolds == Init => IInv
<1> SUFFICES ASSUME Init PROVE IInv
  OBVIOUS
<1>1. /\ stage = "ride" /\ adj = [u \in Nodes |-> {}] /\ calls = << >> /\ st = << >> /\ timeG = 0
      /\ disc = [u \in Nodes |-> Unseen] /\ low = disc /\ stackMember = [u \in Nodes |-> FALSE]
      /\ sccl = << >>
  BY DEF Init, Start, NewGrafinho, NewStack, NewStacklist
<1>2. Typed
  <2>1. Unseen \in Nat
    BY DEF Unseen
  <2> QED BY <1>1, <2>1 DEF Typed
<1>3. Untouched
  <2>1. On = {}
    BY <1>1 DEF On
  <2>2. V \div Threshold \in Nat
    BY Sizes, DivMod
  <2>3. Len(sccl) = 0 /\ Len(sccl) <= V \div Threshold + 1
    BY <1>1, <2>2
  <2> QED BY <1>1, <2>1, <2>3 DEF Untouched
<1> QED
  BY <1>2, <1>3, UntouchedIs

\* At the end of the search, and before the next, st is empty.
LEMMA EmptyStack ==
    ASSUME IInv, calls = << >>
    PROVE  st = << >> /\ On = {}
<1>1. Typed /\ StackOK /\ PathsOK
  BY DEF IInv
<1>2. On = {}
  BY <1>1, Nowhere
<1>3. st \in Seq(Nodes) /\ ToSet(st) = {}
  BY <1>1, <1>2 DEF Typed, StackOK
<1> QED
  BY <1>2, <1>3, QueueMember

LEMMA ClassifyKeeps == ASSUME IInv, Classify PROVE IInv'
<1>1. /\ Typed /\ ListOK
  BY DEF IInv
<1>2. /\ calls = << >> /\ stage' = "ride" /\ adj' = [u \in Nodes |-> {}]
      /\ sccl' = [i \in DOMAIN sccl |-> << >>]
      /\ timeG' = 0 /\ disc' = [u \in Nodes |-> Unseen] /\ low' = disc'
      /\ calls' = calls /\ st' = st /\ stackMember' = stackMember
  BY DEF Classify, Freed, NewStack, ResetGrafinho
<1>3. st = << >> /\ On = {}
  BY <1>2, EmptyStack
<1>4. PICK n \in Nat : n = Len(sccl) /\ DOMAIN sccl = 1 .. n
  BY <1>1, LenProperties DEF Typed
<1>5. sccl' \in Seq(Seq(Nodes)) /\ Len(sccl') = n /\ \A i \in 1 .. n : sccl'[i] = << >>
  <2>1. << >> \in Seq(Nodes)
    OBVIOUS
  <2>2. sccl' \in [1 .. n -> Seq(Nodes)]
    BY <1>2, <1>4, <2>1
  <2> QED BY <1>2, <1>4, <2>2
<1>6. Typed'
  <2>1. Unseen \in Nat
    BY DEF Unseen
  <2> QED BY <1>1, <1>2, <1>5, <2>1 DEF Typed
<1>7. Untouched'
  <2>1. On' = On
    BY <1>2 DEF On
  <2>2. n <= V \div Threshold + 1
    BY <1>1, <1>4 DEF ListOK
  <2> QED BY <1>2, <1>3, <1>5, <2>1, <2>2 DEF Untouched
<1>8. Typed' /\ Untouched' => IInv'
  BY UntouchedIs, PTL
<1> QED
  BY <1>6, <1>7, <1>8

LEMMA NextRoundKeeps == ASSUME IInv, NextRound PROVE IInv'
<1>1. Typed /\ StageOK /\ ListOK
  BY DEF IInv
<1>2. /\ stage = "ride" /\ stage' = "SCC" /\ adj' \in Graphs
      /\ calls' = calls /\ st' = st /\ timeG' = timeG /\ disc' = disc /\ low' = low
      /\ stackMember' = stackMember /\ sccl' = sccl
  BY DEF NextRound, sccVars
<1>3. calls = << >> /\ \A x \in Nodes : disc[x] = Unseen
  BY <1>1, <1>2 DEF StageOK
<1>4. st = << >> /\ On = {} /\ Done = {}
  BY <1>3, EmptyStack DEF Done
<1>5. Typed'
  <2>1. adj' \in [Nodes -> SUBSET Nodes]
    BY <1>2 DEF Graphs
  <2> QED BY <1>1, <1>2, <2>1 DEF Typed
<1>6. Untouched'
  <2>1. On' = On
    BY <1>2 DEF On
  <2>2. Len(sccl) <= V \div Threshold + 1
    BY <1>1 DEF ListOK
  <2>3. \A i \in 1 .. Len(sccl) : sccl[i] = << >>
    BY <1>1, <1>4 DEF ListOK, Holds
  <2> QED BY <1>2, <1>3, <1>4, <2>1, <2>2, <2>3 DEF Untouched
<1>7. Typed' /\ Untouched' => IInv'
  BY UntouchedIs, PTL
<1> QED
  BY <1>5, <1>6, <1>7

LEMMA StutterKeeps == ASSUME IInv, UNCHANGED vars PROVE IInv'
<1>1. /\ stage' = stage /\ adj' = adj /\ calls' = calls /\ timeG' = timeG /\ disc' = disc
      /\ low' = low /\ st' = st /\ stackMember' = stackMember /\ sccl' = sccl
  BY DEF vars, sccVars
<1>2. Typed' /\ StageOK' /\ StackOK' /\ EdgesOK'
  BY <1>1 DEF IInv, Typed, StageOK, StackOK, EdgesOK, On, Done, Active
<1>3. Reach' = Reach /\ \A x : Component(x)' = Component(x)
  BY <1>1, ReachSame
<1>4. On' = On /\ Done' = Done /\ Active' = Active /\ \A i : Returned(i)' = Returned(i)
  BY <1>1 DEF On, Done, Active, Returned
<1>5. CallsOK' /\ PathsOK' /\ LowOK' /\ ListOK'
  BY <1>1, <1>3, <1>4 DEF IInv, CallsOK, PathsOK, LowOK, ListOK, Holds
<1> QED
  BY <1>2, <1>5 DEF IInv

LEMMA NextKeeps == IInv /\ [Next]_vars => IInv'
<1> SUFFICES ASSUME IInv, [Next]_vars PROVE IInv'
  OBVIOUS
<1>1. CASE Root
  BY <1>1, RootKeeps
<1>2. ASSUME NEW t \in Nodes, Descend(t) PROVE IInv'
  BY <1>2, DescendKeeps
<1>3. ASSUME NEW t \in Nodes, LookBack(t) PROVE IInv'
  BY <1>3, LookBackKeeps
<1>4. CASE Leave
  BY <1>4, LeaveKeeps
<1>5. CASE Collect
  BY <1>5, CollectKeeps
<1>6. CASE Classify
  BY <1>6, ClassifyKeeps
<1>7. CASE NextRound
  BY <1>7, NextRoundKeeps
<1>8. CASE UNCHANGED vars
  BY <1>8, StutterKeeps
<1> QED
  BY <1>1, <1>2, <1>3, <1>4, <1>5, <1>6, <1>7, <1>8 DEF Next

-----------------------------------------------------------------------------
(* The theorems. *)

\* In every state of the search (SCC_aux in graph.c) the invariant holds:
\* what is known of the paths along the stack, what low bounds, and that
\* finished components are closed and in the list of stacks.
THEOREM Invariant == Spec => []IInv
<1>1. Init => IInv
  BY InitHolds
<1>2. IInv /\ [Next]_vars => IInv'
  BY NextKeeps
<1> QED
  BY <1>1, <1>2, PTL DEF Spec

\* The stacks' parts of the invariant make them what main takes them for.
LEMMA StacksFromInvariant == IInv => StacksHoldComponents
<1> SUFFICES ASSUME IInv PROVE StacksHoldComponents
  OBVIOUS
<1>0. Typed /\ StackOK /\ ListOK
  BY DEF IInv
<1>1. PICK n \in Nat : n = Len(sccl)
  BY <1>0 DEF Typed
<1>2. DOMAIN sccl = 1 .. n /\ \A i \in 1 .. n : sccl[i] \in Seq(Nodes)
  BY <1>0, <1>1, LenProperties, ElementOfSeq DEF Typed
<1>3. ASSUME NEW s \in Seq(Nodes), s = << >> \/ IsInjective(s) PROVE Len(s) <= V
  <2>1. CASE s = << >>
    BY <2>1, Sizes
  <2>2. CASE IsInjective(s)
    <3>1. ToSet(s) \in SUBSET Nodes
      BY QueueMember
    <3>2. Cardinality(ToSet(s)) <= Cardinality(Nodes)
      BY <3>1, Sizes, FS_Subset
    <3> QED BY <2>2, <3>2, Sizes, SequenceSize
  <2> QED BY <1>3, <2>1, <2>2
<1>4. IsInjective(st) /\ st \in Seq(Nodes)
  <2>1. st \in Seq(Nodes) /\ DOMAIN st = 1 .. Len(st) /\ Len(st) \in Nat
    BY <1>0, LenProperties DEF Typed
  <2>2. \A i \in 1 .. Len(st) : disc[st[i]] \in Nat
    BY <1>0, <2>1, ElementOfSeq DEF Typed
  <2>3. ASSUME NEW i \in 1 .. Len(st), NEW j \in 1 .. Len(st), st[i] = st[j] PROVE i = j
    <3>1. ~(i < j) /\ ~(j < i)
      BY <1>0, <2>2, <2>3 DEF StackOK
    <3> QED BY <3>1
  <2> QED BY <2>1, <2>3 DEF IsInjective
<1>5. \A s \in ToSet(sccl) \union {st} : Len(s) <= V
  <2> SUFFICES ASSUME NEW s \in ToSet(sccl) PROVE Len(s) <= V
    BY <1>3, <1>4
  <2>1. PICK i \in 1 .. n : s = sccl[i]
    BY <1>2 DEF ToSet
  <2>2. s = << >> \/ IsInjective(s)
    BY <1>0, <1>1, <2>1 DEF ListOK, Holds
  <2> QED BY <1>2, <1>3, <2>1, <2>2
<1>6. Len(sccl) <= V \div Threshold + 1
  BY <1>0 DEF ListOK
<1> DEFINE large == {c \in {Component(u) : u \in Nodes} : Cardinality(c) >= Threshold}
           used == {i \in DOMAIN sccl : sccl[i] # << >>}
<1>7. ASSUME calls = << >>, UnseenNodes = {}
      PROVE  /\ {ToSet(sccl[i]) : i \in used} = large
             /\ Cardinality(used) = Cardinality(large)
             /\ \A i \in used : IsInjective(sccl[i])
  <2>1. Done = Nodes
    <3>1. On = {}
      BY <1>7, EmptyStack
    <3> QED BY <1>7, <3>1 DEF On, Done, UnseenNodes
  <2>2. /\ \A i \in used : /\ i \in 1 .. n /\ IsInjective(sccl[i]) /\ ToSet(sccl[i]) \in large
        /\ \A i, j \in used : ToSet(sccl[i]) = ToSet(sccl[j]) => i = j
    BY <1>0, <1>1, <1>2, <2>1 DEF ListOK, Holds
  <2>3. ASSUME NEW c \in large PROVE \E i \in used : ToSet(sccl[i]) = c
    <3>1. PICK u \in Nodes : c = Component(u) /\ Cardinality(Component(u)) >= Threshold
      OBVIOUS
    <3>2. PICK i \in 1 .. n : ToSet(sccl[i]) = c
      BY <1>0, <1>1, <2>1, <3>1 DEF ListOK, Holds
    <3>3. c # {}
      BY <1>0, <3>1, ComponentIs DEF Typed
    <3>4. sccl[i] # << >>
      BY <1>2, <3>2, <3>3, QueueMember
    <3> QED BY <1>2, <3>2, <3>4
  <2>4. IsFiniteSet(used)
    <3>1. used \in SUBSET (1 .. n) /\ IsFiniteSet(1 .. n)
      BY <1>2, FS_Interval
    <3> QED BY <3>1, FS_Subset
  <2> HIDE DEF used, large
  <2> DEFINE f == [i \in used |-> ToSet(sccl[i])]
  <2>5. f \in Bijection(used, large)
    <3>1. f \in [used -> large]
      BY <2>2
    <3>2. f \in Injection(used, large)
      BY <2>2, <3>1 DEF Injection, IsInjective
    <3>3. f \in Surjection(used, large)
      BY <2>3, <3>1 DEF Surjection
    <3> QED BY <3>2, <3>3 DEF Bijection
  <2>6. Cardinality(used) = Cardinality(large)
    <3>1. ExistsBijection(used, large)
      BY <2>5 DEF ExistsBijection
    <3> QED BY <2>4, <3>1, FS_Bijection
  <2> QED BY <2>2, <2>3, <2>6
<1> QED
  BY <1>5, <1>6, <1>7 DEF StacksHoldComponents

\* When main looks at the list of stacks after SCC, whatever the graph, each
\* large strongly connected component is in exactly one stack, each of its nodes
\* once, and nothing else is in the list; no stack overflows at any time.
THEOREM StacksAlwaysHoldComponents == Spec => []StacksHoldComponents
BY Invariant, StacksFromInvariant, PTL

-----------------------------------------------------------------------------
(* The moves of the lanes. *)

InvertedLoop(j, turns) ==
    turns = [i \in 0 .. NumLanes - 1 |->
               IF i = 0 THEN Blocked(j) ELSE Inverted(turns[i - 1], i)]

LEMMA MovesOfIsLoop == \A j : MovesOf(j) = (CHOOSE turns : InvertedLoop(j, turns))[NumLanes - 1]
BY DEF MovesOf, InvertedLoop

LaneTable == [Lanes -> SUBSET TopDown]

\* The lanes up to i have exchanged their moves with the next one.
Exchanged(b, m, i) ==
    /\ m \in LaneTable
    /\ \A l \in Lanes : "DOWN" \in m[l] <=> IF l <= i THEN "TOP" \in b[l + 1] ELSE "DOWN" \in b[l]
    /\ \A l \in Lanes : "TOP" \in m[l] <=>
                           IF l > 1 /\ l <= i + 1 THEN "DOWN" \in b[l - 1] ELSE "TOP" \in b[l]

\* Each turn exchanges what two lanes allow.
LEMMA InvertedIs ==
    ASSUME NEW m \in LaneTable, NEW i \in 1 .. NumLanes - 1
    PROVE  /\ Inverted(m, i) \in LaneTable
           /\ \A l \in Lanes : l # i => ("DOWN" \in Inverted(m, i)[l] <=> "DOWN" \in m[l])
           /\ \A l \in Lanes : l # i + 1 => ("TOP" \in Inverted(m, i)[l] <=> "TOP" \in m[l])
           /\ "DOWN" \in Inverted(m, i)[i] <=> "TOP" \in m[i + 1]
           /\ "TOP" \in Inverted(m, i)[i + 1] <=> "DOWN" \in m[i]
<1>1. NumLanes \in Nat \ {0} /\ Lanes = 1 .. NumLanes
  BY Sizes DEF Lanes
<1>2. i \in Lanes /\ i + 1 \in Lanes /\ i # i + 1
  BY <1>1
<1>3. "TOP" \in TopDown /\ "DOWN" \in TopDown /\ "TOP" # "DOWN"
  BY DEF TopDown
<1>4. m \in [Lanes -> SUBSET TopDown]
  BY DEF LaneTable
<1>5. CASE "DOWN" \in m[i] /\ "TOP" \notin m[i + 1]
  <2>1. Inverted(m, i) = [m EXCEPT ![i] = @ \ {"DOWN"}, ![i + 1] = @ \union {"TOP"}]
    BY <1>5 DEF Inverted
  <2>2. \A l \in Lanes : Inverted(m, i)[l] = IF l = i + 1 THEN m[l] \union {"TOP"}
                                             ELSE IF l = i THEN m[l] \ {"DOWN"} ELSE m[l]
    BY <1>2, <1>4, <2>1
  <2>3. Inverted(m, i) \in LaneTable
    BY <1>2, <1>3, <1>4, <2>1 DEF LaneTable
  <2> QED BY <1>2, <1>3, <1>5, <2>2, <2>3
<1>6. CASE "DOWN" \notin m[i] /\ "TOP" \in m[i + 1]
  <2>1. Inverted(m, i) = [m EXCEPT ![i] = @ \union {"DOWN"}, ![i + 1] = @ \ {"TOP"}]
    BY <1>6 DEF Inverted
  <2>2. \A l \in Lanes : Inverted(m, i)[l] = IF l = i + 1 THEN m[l] \ {"TOP"}
                                             ELSE IF l = i THEN m[l] \union {"DOWN"} ELSE m[l]
    BY <1>2, <1>4, <2>1
  <2>3. Inverted(m, i) \in LaneTable
    BY <1>2, <1>3, <1>4, <2>1 DEF LaneTable
  <2> QED BY <1>2, <1>3, <1>6, <2>2, <2>3
<1>7. CASE "DOWN" \in m[i] <=> "TOP" \in m[i + 1]
  <2>1. Inverted(m, i) = m
    BY <1>7 DEF Inverted
  <2> QED BY <1>7, <2>1
<1> QED
  BY <1>5, <1>6, <1>7

LEMMA ExchangedMore ==
    ASSUME NEW b, NEW m, NEW i \in 1 .. NumLanes - 1, Exchanged(b, m, i - 1)
    PROVE  Exchanged(b, Inverted(m, i), i)
<1>1. NumLanes \in Nat \ {0} /\ Lanes = 1 .. NumLanes /\ i \in Lanes /\ i + 1 \in Lanes
  BY Sizes DEF Lanes
<1>2. m \in LaneTable
  BY DEF Exchanged
<1>3. PICK x \in LaneTable :
         /\ x = Inverted(m, i)
         /\ \A l \in Lanes : l # i => ("DOWN" \in x[l] <=> "DOWN" \in m[l])
         /\ \A l \in Lanes : l # i + 1 => ("TOP" \in x[l] <=> "TOP" \in m[l])
         /\ "DOWN" \in x[i] <=> "TOP" \in m[i + 1]
         /\ "TOP" \in x[i + 1] <=> "DOWN" \in m[i]
  BY <1>2, InvertedIs
<1>4. ("DOWN" \in m[i] <=> "DOWN" \in b[i]) /\ ("TOP" \in m[i + 1] <=> "TOP" \in b[i + 1])
  <2>1. ~(i <= i - 1) /\ ~(i + 1 <= (i - 1) + 1)
    OBVIOUS
  <2> QED BY <1>1, <2>1 DEF Exchanged
<1>5. \A l \in Lanes : "DOWN" \in x[l] <=> IF l <= i THEN "TOP" \in b[l + 1] ELSE "DOWN" \in b[l]
  <2> TAKE l \in Lanes
  <2>1. CASE l = i
    <3>1. l <= i
      BY <2>1
    <3> QED BY <1>3, <1>4, <2>1, <3>1
  <2>2. CASE l # i
    <3>1. l <= i <=> l <= i - 1
      BY <1>1, <2>2
    <3> QED BY <1>3, <2>2, <3>1 DEF Exchanged
  <2> QED BY <2>1, <2>2
<1>6. \A l \in Lanes : "TOP" \in x[l] <=>
                          IF l > 1 /\ l <= i + 1 THEN "DOWN" \in b[l - 1] ELSE "TOP" \in b[l]
  <2> TAKE l \in Lanes
  <2>1. CASE l = i + 1
    <3>1. l > 1 /\ l <= i + 1 /\ l - 1 = i
      BY <2>1
    <3> QED BY <1>3, <1>4, <2>1, <3>1
  <2>2. CASE l # i + 1
    <3>1. l <= i + 1 <=> l <= (i - 1) + 1
      BY <1>1, <2>2
    <3> QED BY <1>3, <2>2, <3>1 DEF Exchanged
  <2> QED BY <2>1, <2>2
<1> QED
  BY <1>3, <1>5, <1>6 DEF Exchanged

\* A lane allows a move if the lane it leads to is not one of the circles.
LEMMA MovesOfIs ==
    ASSUME NEW j, NEW l \in Lanes
    PROVE  MovesOf(j)[l] =
              {m \in LaneMoves(l) :
                  (IF m = "TOP" THEN l - 1 ELSE l + 1) \notin {j[u] : u \in Circled}}
<1>1. PICK n \in Nat : n = NumLanes - 1
  BY Sizes
<1>2. Lanes = 1 .. n + 1 /\ NumLanes = n + 1
  BY <1>1, Sizes DEF Lanes
<1> DEFINE b == Blocked(j)
           I == [i \in 0 .. n |-> {m \in LaneTable : Exchanged(b, m, i)}]
           turn == [i \in 1 .. n |-> [m \in LaneTable |-> Inverted(m, i)]]
           e == CHOOSE turns : InvertedLoop(j, turns)
           lanes == {j[u] : u \in Circled}
<1>3. \A k \in Lanes : b[k] = IF k \in lanes THEN {} ELSE LaneMoves(k)
  BY DEF Blocked
<1>4. \A k \in Lanes : LaneMoves(k) \subseteq TopDown
  BY DEF LaneMoves, TopDown
<1>5. b \in LaneTable
  <2>1. \A k \in Lanes : (IF \E u \in Circled : j[u] = k THEN {} ELSE LaneMoves(k)) \in SUBSET TopDown
    BY <1>4
  <2> QED BY <2>1 DEF Blocked, LaneTable
<1> HIDE DEF lanes, b
<1>6. Exchanged(b, b, 0)
  <2>1. \A k \in Lanes : ~(k <= 0) /\ ~(k > 1 /\ k <= 0 + 1)
    BY <1>2
  <2> QED BY <1>5, <2>1 DEF Exchanged
<1>7. b \in I[0]
  BY <1>5, <1>6
<1>8. \A i \in 1 .. n : \A m \in I[i - 1] : Inverted(m, i) \in I[i] /\ turn[i][m] = Inverted(m, i)
  <2> TAKE i \in 1 .. n
  <2>1. i \in 0 .. n /\ i - 1 \in 0 .. n /\ i \in 1 .. NumLanes - 1
    BY <1>1
  <2> TAKE m \in I[i - 1]
  <2>2. m \in LaneTable /\ Exchanged(b, m, i - 1)
    BY <2>1
  <2>3. Exchanged(b, Inverted(m, i), i)
    BY <2>1, <2>2, ExchangedMore
  <2>4. Inverted(m, i) \in LaneTable
    BY <2>3 DEF Exchanged
  <2> QED BY <2>1, <2>2, <2>3, <2>4
<1> HIDE DEF I, turn
<1>9. PICK f : Staged(n, I, b, turn, f)
  BY <1>7, <1>8, StagedLoop
<1>10. /\ f[0] = b /\ f = [i \in 0 .. n |-> f[i]]
       /\ \A i \in 1 .. n : f[i] = turn[i][f[i - 1]]
       /\ \A i \in 0 .. n : f[i] \in I[i]
  BY <1>9 DEF Staged
<1>11. \A i \in 1 .. n : f[i] = Inverted(f[i - 1], i)
  <2> TAKE i \in 1 .. n
  <2>1. f[i - 1] \in I[i - 1]
    BY <1>10
  <2> QED BY <1>8, <1>10, <2>1
<1>12. InvertedLoop(j, f)
  <2>1. \A i \in 0 .. n : f[i] = IF i = 0 THEN Blocked(j) ELSE Inverted(f[i - 1], i)
    <3> TAKE i \in 0 .. n
    <3>1. CASE i = 0
      BY <1>10, <3>1 DEF b
    <3>2. CASE i # 0
      <4>1. i \in 1 .. n
        BY <3>2
      <4> QED BY <1>11, <3>2, <4>1
    <3> QED BY <3>1, <3>2
  <2> QED BY <1>1, <1>10, <2>1 DEF InvertedLoop
<1>13. InvertedLoop(j, e)
  BY <1>12
<1> HIDE DEF e
<1>14. e[0] = b /\ \A i \in 1 .. n : e[i] = Inverted(e[i - 1], i)
  BY <1>1, <1>13 DEF InvertedLoop, b
<1>15. \A i \in 0 .. n : e[i] \in I[i]
  <2>1. e[0] \in I[0]
    BY <1>7, <1>14
  <2>2. \A i \in 1 .. n : e[i - 1] \in I[i - 1] => e[i] \in I[i]
    BY <1>8, <1>14
  <2> QED BY <2>1, <2>2, LoopInvariant
<1>16. PICK x \in LaneTable : x = MovesOf(j) /\ Exchanged(b, x, n)
  <2>1. MovesOf(j) = e[n] /\ n \in 0 .. n
    BY <1>1, MovesOfIsLoop DEF e
  <2> QED BY <1>15, <2>1 DEF I
<1>17. "TOP" # "DOWN" /\ x[l] \subseteq TopDown
  BY <1>16 DEF LaneTable
<1>18. "DOWN" \in x[l] <=> l < NumLanes /\ l + 1 \notin lanes
  <2>1. CASE l <= n
    <3>1. l + 1 \in Lanes /\ l + 1 > 1 /\ l < NumLanes
      BY <1>2, <2>1
    <3>2. "TOP" \in b[l + 1] <=> l + 1 \notin lanes
      BY <1>3, <3>1 DEF LaneMoves
    <3> QED BY <1>16, <2>1, <3>1, <3>2 DEF Exchanged
  <2>2. CASE ~(l <= n)
    <3>1. ~(l < NumLanes)
      BY <1>2, <2>2
    <3>2. "DOWN" \notin b[l]
      BY <1>3, <1>17, <3>1 DEF LaneMoves
    <3> QED BY <1>16, <2>2, <3>1, <3>2 DEF Exchanged
  <2> QED BY <2>1, <2>2
<1>19. "TOP" \in x[l] <=> l > 1 /\ l - 1 \notin lanes
  <2>1. l <= n + 1
    BY <1>2
  <2>2. CASE l > 1
    <3>1. l - 1 \in Lanes /\ l - 1 < NumLanes
      BY <1>2, <2>2
    <3>2. "DOWN" \in b[l - 1] <=> l - 1 \notin lanes
      BY <1>3, <3>1 DEF LaneMoves
    <3> QED BY <1>16, <2>1, <2>2, <3>2 DEF Exchanged
  <2>3. CASE ~(l > 1)
    <3>1. "TOP" \notin b[l]
      BY <1>3, <1>17, <2>3 DEF LaneMoves
    <3> QED BY <1>16, <2>3, <3>1 DEF Exchanged
  <2> QED BY <2>2, <2>3
<1>20. /\ "TOP" \in LaneMoves(l) <=> l > 1
       /\ "DOWN" \in LaneMoves(l) <=> l < NumLanes
       /\ LaneMoves(l) \subseteq TopDown
  BY <1>4 DEF LaneMoves
<1> DEFINE open == {m \in LaneMoves(l) : (IF m = "TOP" THEN l - 1 ELSE l + 1) \notin lanes}
<1>21. ("TOP" \in open <=> "TOP" \in x[l]) /\ ("DOWN" \in open <=> "DOWN" \in x[l])
  BY <1>17, <1>18, <1>19, <1>20
<1>22. open \subseteq TopDown
  BY <1>20
<1> HIDE DEF open
<1>23. open = x[l]
  <2>1. \A m \in TopDown : m \in open <=> m \in x[l]
    BY <1>21 DEF TopDown
  <2> QED BY <1>17, <1>22, <2>1
<1> QED
  BY <1>16, <1>23 DEF open, lanes

LEMMA OnlyClassify ==
    ASSUME Next, stage = "SCC", stage' = "ride"
    PROVE  Classify
BY DEF Next, Root, Descend, LookBack, Enter, Leave, Collect, Return, NextRound

LEMMA CutFromInvariant ==
    ASSUME IInv, Next, stage = "SCC", stage' = "ride"
    PROVE  \A u \in Circled :
              moveType'[u] =
                 {m \in LaneMoves(lane'[u]) :
                     (IF m = "TOP" THEN lane'[u] - 1 ELSE lane'[u] + 1)
                        \notin {lane'[w] : w \in Circled}}
<1>1. Classify
  BY OnlyClassify
<1>2. Circled \subseteq Nodes
  <2>1. sccl \in Seq(Seq(Nodes))
    BY DEF IInv, Typed
  <2>2. \A i \in DOMAIN sccl : ToSet(sccl[i]) \subseteq Nodes
    BY <2>1, LenProperties, ElementOfSeq, QueueMember
  <2> QED BY <2>2 DEF Circled
<1>3. /\ lane' \in [Nodes -> Lanes]
      /\ moveType' = [u \in Nodes |-> IF u \in Circled THEN MovesOf(lane')[lane'[u]] ELSE moveType[u]]
  BY <1>1 DEF Classify
<1>4. \A u \in Circled : lane'[u] \in Lanes /\ moveType'[u] = MovesOf(lane')[lane'[u]]
  BY <1>2, <1>3
<1> QED
  BY <1>4, MovesOfIs

\* "Invert directions" (main in bikeSim.c): a biker in a circle may change to
\* a neighbouring lane exactly if nobody there is in a circle, for any number
\* of lanes and however the circles lie in them.
THEOREM CirclesAreAlwaysCut == Spec => CirclesAreCut
<1>1. IInv /\ [Next]_vars =>
         [stage = "SCC" /\ stage' = "ride" =>
            LET lanes == {lane'[u] : u \in Circled} IN
            \A u \in Circled :
               moveType'[u] =
                  {m \in LaneMoves(lane'[u]) :
                      (IF m = "TOP" THEN lane'[u] - 1 ELSE lane'[u] + 1) \notin lanes}]_vars
  BY CutFromInvariant
<1> QED
  BY <1>1, Invariant, PTL DEF Spec, CirclesAreCut

=============================================================================
