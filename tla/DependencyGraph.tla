--------------------------- MODULE DependencyGraph ---------------------------
(***************************************************************************)
(* How main breaks circles of waiting bikers between debugger_barr and     *)
(* prep_barr (bikeSim.c): the bikers have entered into a graph who is in   *)
(* front of whom (add_edge, graph.c), SCC looks for its large strongly     *)
(* connected components with Tarjan's algorithm, here with the calls of    *)
(* SCC_aux on an explicit stack, and the bikers of these get moves that    *)
(* depend on their lanes.  The stacks that hold the components are kept    *)
(* from round to round.                                                    *)
(***************************************************************************)
EXTENDS Integers, Sequences, SequencesExt, FiniteSetsExt

CONSTANTS
    V,          \* g->V, the number of bikers
    Threshold,  \* sl->threshold: speedway.length - 1
    NumLanes    \* NUM_LANES

ASSUME GraphAssumption == {V, Threshold, NumLanes} \subseteq Nat \ {0}

Nodes == 1 .. V
Lanes == 1 .. NumLanes
Unseen == 0     \* disc is -1 in the code, and counts from 1 on

VARIABLES
    stage,       \* where main is
    adj,         \* g->adj: the successors of a node, in any order
    calls,       \* the calls of SCC_aux: [u, the edges still to look at]
    timeG,
    disc,
    low,
    st,          \* the stack of the algorithm, its top last
    stackMember,
    sccl,        \* the stacks for the components, the head of the list first
    lane,        \* j of the bikers
    moveType     \* of the bikers: which of TOP and DOWN is allowed

sccVars == <<calls, timeG, disc, low, st, stackMember>>
vars == <<stage, adj, sccVars, sccl, lane, moveType>>

\* The stacks of graph.c.
NewStack == << >>
Empty(s) == s = << >>
Push(s, id) == Append(s, id)
Reset(s) == << >>

NewGrafinho == [u \in Nodes |-> {}]
ResetGrafinho == [u \in Nodes |-> {}]

\* What add_edge makes of an empty graph.  No biker is in front of itself.
Graphs == {g \in [Nodes -> SUBSET Nodes] : \A u \in Nodes : u \notin g[u]}

NewStacklist == << >>

TopDown == {"TOP", "DOWN"}

\* What SCC starts with.
Start ==
    /\ calls = << >> /\ st = NewStack /\ timeG = 0
    /\ disc = [u \in Nodes |-> Unseen] /\ low = disc
    /\ stackMember = [u \in Nodes |-> FALSE]

Init ==
    /\ stage = "ride"
    /\ adj = NewGrafinho
    /\ Start
    /\ sccl = NewStacklist
    /\ lane = [u \in Nodes |-> 1]
    /\ moveType = [u \in Nodes |-> TopDown]

-----------------------------------------------------------------------------
(* SCC and SCC_aux *)

\* The call SCC_aux(u), made by the calls below.
Enter(u, below, lowBelow) ==
    /\ calls' = Append(below, [u |-> u, rest |-> adj[u]])
    /\ timeG' = timeG + 1
    /\ disc' = [disc EXCEPT ![u] = timeG + 1]
    /\ low' = [lowBelow EXCEPT ![u] = timeG + 1]
    /\ st' = Push(st, u)
    /\ stackMember' = [stackMember EXCEPT ![u] = TRUE]
    /\ UNCHANGED <<stage, adj, sccl, lane, moveType>>

UnseenNodes == {u \in Nodes : disc[u] = Unseen}

\* The loop of SCC over the nodes.
Root ==
    /\ stage = "SCC" /\ calls = << >> /\ UnseenNodes # {}
    /\ Enter(Min(UnseenNodes), << >>, low)

Call == Last(calls)
After(t) == [calls EXCEPT ![Len(calls)].rest = @ \ {t}]

Smaller(a, b) == Min({a, b})

Descend(t) ==
    /\ calls # << >> /\ t \in Call.rest
    /\ disc[t] = Unseen
    /\ Enter(t, After(t), low)

\* Mutant: an edge into a finished component counts as well.
LowOfAny(u, t) == Smaller(low[u], disc[t])

\* low[u] after an edge to a node already seen.
LowOf(u, t) == IF stackMember[t] THEN Smaller(low[u], disc[t]) ELSE low[u]

LookBack(t) ==
    /\ calls # << >> /\ t \in Call.rest
    /\ disc[t] # Unseen
    /\ calls' = After(t)
    /\ low' = [low EXCEPT ![Call.u] = LowOf(Call.u, t)]
    /\ UNCHANGED <<stage, adj, timeG, disc, st, stackMember, sccl, lane, moveType>>

\* get_next_free_stack: the list of stacks, and which of them is free.
WithFree ==
    LET free == {i \in DOMAIN sccl : Empty(sccl[i])}
    IN  IF free # {} THEN [list |-> sccl, at |-> Min(free)]
        ELSE [list |-> <<NewStack>> \o sccl, at |-> 1]

\* The caller of a call that returns takes over its low.
Return ==
    /\ calls' = Front(calls)
    /\ low' = IF Len(calls) = 1 THEN low
              ELSE LET caller == calls[Len(calls) - 1].u
                   IN  [low EXCEPT ![caller] = Smaller(@, low[Call.u])]
    /\ UNCHANGED <<stage, adj, timeG, disc, lane, moveType>>

\* u is not the root of a component.
Leave ==
    /\ calls # << >> /\ Call.rest = {}
    /\ low[Call.u] # disc[Call.u]
    /\ Return
    /\ UNCHANGED <<st, stackMember, sccl>>

\* The nodes from the top of st down to u are moved to newscc, one by one.
UpTo(u, newscc) ==
    LET at == Max({i \in DOMAIN st : st[i] = u})
    IN  [st |-> SubSeq(st, 1, at - 1), newscc |-> newscc \o Reverse(SubSeq(st, at, Len(st)))]

\* u is: what is above it on st is a component, moved to a free stack and taken
\* out again if it is too small.
Collect ==
    /\ calls # << >> /\ Call.rest = {}
    /\ low[Call.u] = disc[Call.u]
    /\ LET sl == WithFree
           moved == UpTo(Call.u, sl.list[sl.at])
       IN  /\ st' = moved.st
           /\ stackMember' = [u \in Nodes |-> stackMember[u] /\ u \notin ToSet(moved.newscc)]
           /\ sccl' = [sl.list EXCEPT ![sl.at] =
                          IF Len(moved.newscc) < Threshold THEN Reset(@) ELSE moved.newscc]
    /\ Return

-----------------------------------------------------------------------------
(* main *)

\* The moves of the lanes before a component is looked at.
LaneMoves(l) ==
    (IF l > 1 THEN {"TOP"} ELSE {}) \union (IF l < NumLanes THEN {"DOWN"} ELSE {})

Circled == UNION {ToSet(sccl[i]) : i \in DOMAIN sccl}

\* Put NONE at the lanes of the components.
Blocked(j) ==
    [l \in Lanes |-> IF \E u \in Circled : j[u] = l THEN {} ELSE LaneMoves(l)]

\* Mutant: only moves to the next lane are exchanged.
InvertedDownOnly(m, i) ==
    IF "DOWN" \in m[i] /\ "TOP" \notin m[i + 1]
    THEN [m EXCEPT ![i] = @ \ {"DOWN"}, ![i + 1] = @ \union {"TOP"}]
    ELSE m

\* Invert directions between a lane and the next: a move that only one of the
\* two allows is allowed to the other only.
Inverted(m, i) ==
    CASE "DOWN" \in m[i] /\ "TOP" \notin m[i + 1] ->
           [m EXCEPT ![i] = @ \ {"DOWN"}, ![i + 1] = @ \union {"TOP"}]
      [] "DOWN" \notin m[i] /\ "TOP" \in m[i + 1] ->
           [m EXCEPT ![i] = @ \union {"DOWN"}, ![i + 1] = @ \ {"TOP"}]
      [] OTHER -> m

\* The lanes' moves, inverted between the first two lanes, the next two and so on.
MovesOf(j) ==
    LET inverted[i \in 0 .. NumLanes - 1] ==
          IF i = 0 THEN Blocked(j) ELSE Inverted(inverted[i - 1], i)
    IN  inverted[NumLanes - 1]

\* SCC frees what it allocated and returns; its next call starts anew.
Freed ==
    /\ timeG' = 0
    /\ disc' = [u \in Nodes |-> Unseen] /\ low' = disc'
    /\ UNCHANGED <<calls, st, stackMember>>

\* The bikers of the components get the moves of their lanes, the stacks are
\* emptied on the way and the graph is reset.
Classify ==
    /\ stage = "SCC" /\ calls = << >> /\ UnseenNodes = {}
    /\ lane' \in [Nodes -> Lanes]
    /\ LET moves == MovesOf(lane')
       IN  moveType' = [u \in Nodes |-> IF u \in Circled THEN moves[lane'[u]] ELSE moveType[u]]
    /\ sccl' = [i \in DOMAIN sccl |-> NewStack]
    /\ adj' = ResetGrafinho
    /\ stage' = "ride"
    /\ Freed

\* The next round: the bikers have moved, reset their moveType and entered
\* who is in front of them.
NextRound ==
    /\ stage = "ride"
    /\ stage' = "SCC"
    /\ adj' \in Graphs
    /\ moveType' = [u \in Nodes |-> TopDown]
    /\ lane' = [u \in Nodes |-> 1]
    /\ UNCHANGED <<sccVars, sccl>>

Next ==
    \/ Root
    \/ \E t \in Nodes : Descend(t) \/ LookBack(t)
    \/ Leave \/ Collect
    \/ Classify \/ NextRound

Spec == Init /\ [][Next]_vars

-----------------------------------------------------------------------------
(* Properties *)

\* The nodes that can be reached from a node on a path through 1 .. k.
Reach ==
    LET via[k \in 0 .. V] ==
          IF k = 0 THEN [u \in Nodes |-> adj[u] \union {u}]
          ELSE [u \in Nodes |-> via[k - 1][u] \union (IF k \in via[k - 1][u] THEN via[k - 1][k] ELSE {})]
    IN  via[V]

Component(u) == LET reach == Reach IN {v \in reach[u] : u \in reach[v]}

\* When main uses the stacks, whatever the graph and whatever earlier rounds
\* left of the list, they hold the strongly connected components of at least
\* Threshold nodes: each in one stack and each node once.  No stack is pushed
\* beyond the V nodes it has room for, and the list does not grow for ever.
StacksHoldComponents ==
    /\ \A s \in ToSet(sccl) \union {st} : Len(s) <= V
    /\ Len(sccl) <= V \div Threshold + 1
    /\ stage = "SCC" /\ calls = << >> /\ UnseenNodes = {} =>
          LET large == {c \in {Component(u) : u \in Nodes} : Cardinality(c) >= Threshold}
              used == {i \in DOMAIN sccl : sccl[i] # << >>}
          IN  /\ {ToSet(sccl[i]) : i \in used} = large
              /\ Cardinality(used) = Cardinality(large)
              /\ \A i \in used : IsInjective(sccl[i])

\* "Invert directions": a biker in a circle may move to a neighbouring lane if
\* and only if nobody there is in a circle, so that no two lanes of a circle
\* exchange bikers while every way out of it is open.
CirclesAreCut ==
    [][stage = "SCC" /\ stage' = "ride" =>
          LET lanes == {lane'[u] : u \in Circled} IN
          \A u \in Circled :
             moveType'[u] =
                {m \in LaneMoves(lane'[u]) :
                    (IF m = "TOP" THEN lane'[u] - 1 ELSE lane'[u] + 1) \notin lanes}]_vars

=============================================================================
