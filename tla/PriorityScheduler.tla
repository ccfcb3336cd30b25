-------------------------- MODULE PriorityScheduler --------------------------
(***************************************************************************)
(* The priority scheduler (priorityScheduler.c): the threads and the cores *)
(* of RoundRobin, whose actions are taken over, but the length of a turn   *)
(* follows from how far the priority of a process is from the average of   *)
(* all active ones, in standard deviations.  The scheduler thread keeps    *)
(* count, avg and var up to date in three assignments each time a process  *)
(* arrives or has finished; the processes read var and avg without a       *)
(* mutex, possibly between two of these.                                   *)
(*                                                                         *)
(* Arithmetic is exact: avg is kept in units of 1/Unit and var in units of *)
(* 1/Unit^2.  Rounding matters in one place, a variance that is zero.      *)
(***************************************************************************)
EXTENDS RoundRobin, Integers, FiniteSetsExt

CONSTANTS
    Priorities, \* the values of the polynomial of calculatePriority
    Default,    \* and the priority of a process that is late
    Unit        \* a common multiple of 1 .. NumProcs

ASSUME PriorityAssumption ==
    /\ Priorities \union {Default} \subseteq Nat \ {0}
    /\ Unit \in Nat \ {0} /\ \A k \in 1 .. NumProcs : Unit % k = 0

VARIABLES
    priority,   \* the priority of a process, None before it arrives
    count,      \* the number of active processes,
    avg,        \* the average of their priorities
    var,        \* and the variance
    step,       \* assignments made of an update of the three: 0 .. 3
    exact,      \* no rounding went into var
    seen,       \* what run has read of var and avg
    links       \* the nodes of the queue, None standing for its head

statVars == <<priority, count, avg, var, step, exact>>
allVars == <<vars, statVars, seen, links>>

Unread == <<"unread", 0>>

\* A ring of its head alone.
NewQueue ==
    LET self == [p \in Procs \union {None} |-> None] IN [next |-> self, prev |-> self]

\* Every process has some work (RoundRobin also has processes without).
PInit ==
    /\ Init
    /\ \A p \in Procs : dt0[p] > 0
    /\ priority = [p \in Procs |-> None]
    /\ count = 0 /\ avg = 0 /\ var = 0
    /\ step = 0
    /\ exact = TRUE
    /\ seen = [p \in Procs |-> Unread]
    /\ links = NewQueue

-----------------------------------------------------------------------------
(* queue.c: a ring of nodes through the head of the queue; queue_first is  *)
(* the node before the head.  The links of a node that is taken out are    *)
(* forgotten, queue_add sets both before anybody follows them.             *)

\* Mutant: the node that was last keeps its link to the head.
AddedUnlinked(l, p) ==
    [next |-> [l.next EXCEPT ![p] = @, ![None] = p],
     prev |-> [l.prev EXCEPT ![p] = None, ![l.next[None]] = p]]

\* queue_add
Added(l, p) ==
    [next |-> [l.next EXCEPT ![p] = l.next[None], ![None] = p],
     prev |-> [l.prev EXCEPT ![p] = None, ![l.next[None]] = p]]

\* queue_remove
Removed(l) ==
    LET p == l.prev[None] IN
    [next |-> [l.next EXCEPT ![l.prev[p]] = None, ![p] = None],
     prev |-> [l.prev EXCEPT ![None] = l.prev[p], ![p] = None]]

-----------------------------------------------------------------------------
(* The scheduler: addToStats and removeFromStats *)

Square(x) == x * x

Finished(c) == n[c] # None /\ ready[c] /\ dt[n[c]] = 0

UpdateDue ==
    \/ stage[1] = "admit" /\ StackTop # None
    \/ stage[1] = "serve" /\ Finished(stage[2])

Arriving == stage[1] = "admit"
Current == IF Arriving THEN StackTop ELSE n[stage[2]]

Change == IF Arriving THEN 1 ELSE -1

\* A mean of count values, after x came to them or went.
Mean(old, x) ==
    LET new == count + Change IN
    IF new = 0 THEN 0 ELSE (count * old + Change * x) \div new

\* A process whose deadline does not leave it its duration is late.
CalculatePriority == Priorities \union {Default}

\* var = the second moment; a process that arrives gets its priority before.
StoreMoment ==
    /\ UpdateDue /\ step = 0
    /\ \E x \in IF Arriving THEN CalculatePriority ELSE {priority[Current]} :
          /\ priority' = [priority EXCEPT ![Current] = x]
          /\ var' = Mean(var + Square(avg), Square(Unit * x))
    /\ exact' = (count + Change = 0 \/ (Arriving /\ count = 0))
    /\ step' = 1
    /\ UNCHANGED <<vars, count, avg, seen, links>>

StoreAverage ==
    /\ step = 1
    /\ avg' = Mean(avg, Unit * priority[Current])
    /\ step' = 2
    /\ UNCHANGED <<vars, priority, count, var, exact, seen, links>>

\* var -= avg^2, and the count, which nobody else reads.
StoreVariance ==
    /\ step = 2
    /\ var' = var - Square(avg)
    /\ count' = count + Change
    /\ step' = 3
    /\ UNCHANGED <<vars, priority, avg, exact, seen, links>>

\* The process joins the queue once it is counted.
AdmitCounted ==
    /\ Admit /\ step = 3
    /\ step' = 0
    /\ links' = Added(links, StackTop)
    /\ UNCHANGED <<priority, count, avg, var, exact, seen>>

StartPassOver == StartPass /\ step = 0 /\ UNCHANGED <<statVars, seen, links>>

\* Mutant: the pass does not look whether the process has finished.
StatsDoneUnchecked(c) == TRUE

\* A finished process is out of the statistics.
StatsDone(c) == Finished(c) => step = 3

RequeuedLinks(c) ==
    IF n[c] # None /\ ready[c] /\ dt[n[c]] > 0 THEN Added(links, n[c]) ELSE links

DispatchCore(c) ==
    /\ Dispatch(c) /\ StatsDone(c)
    /\ step' = 0
    /\ links' = Removed(RequeuedLinks(c))
    /\ UNCHANGED <<priority, count, avg, var, exact, seen>>

SkipCore(c) ==
    /\ LeaveCore(c) /\ StatsDone(c)
    /\ step' = 0
    /\ UNCHANGED <<priority, count, avg, var, exact, seen, links>>

-----------------------------------------------------------------------------
(* The thread of a process: calcQuanta *)

\* The mutex is locked, firstTime cleared, and if (!var) tested: a zero that
\* was computed with rounding may be seen as another value.
LockAndTest(p) ==
    /\ Lock(p)
    /\ \/ var = 0 /\ seen' = [seen EXCEPT ![p] = <<"even", 0>>]
       \/ ~(var = 0 /\ exact) /\ seen' = [seen EXCEPT ![p] = <<"uneven", 0>>]
    /\ UNCHANGED <<statVars, links>>

ReadAvg(p) ==
    /\ seen[p][1] = "uneven"
    /\ seen' = [seen EXCEPT ![p] = <<"avg", avg>>]
    /\ UNCHANGED <<vars, statVars, links>>

\* Mutant: the quantum that every turn has at least is not added.
QuantaWithoutOne(x, a, v) ==
    LET distance == 81 * Square(x * Unit - a)
        k == Max({j \in 0 .. 9 : 16 * Square(j) * v <= distance})
    IN  IF k = 9 \/ 16 * Square(k) * v = distance THEN {k} ELSE {k, k + 1}

\* 2.25 * fmin(4.0, |x - a| / sqrt(v)) + 1, rounded down or up: what is left
\* of dt is counted in quanta rounded up.  By fmin, infinity and NaN, which a
\* v that is zero by now gives, make it 10; rounding makes it anything when
\* both should be zero.
Quanta(x, a, v) ==
    LET distance == 81 * Square(x * Unit - a)
        k == Max({j \in 0 .. 9 : 16 * Square(j) * v <= distance})
    IN  IF v = 0 /\ distance = 0 THEN 1 .. 10
        ELSE IF k = 9 \/ 16 * Square(k) * v = distance THEN {k + 1} ELSE {k + 1, k + 2}

\* var is read once more; the process sleeps for its quantum, or for what is left.
RunQuantum(p) ==
    /\ pc[p] = "run" /\ seen[p][1] \in {"even", "avg"}
    /\ \E q \in IF seen[p][1] = "even" THEN {1} ELSE Quanta(priority[p], seen[p][2], var) :
          dt' = [dt EXCEPT ![p] = IF @ < q THEN 0 ELSE @ - q]
    /\ seen' = [seen EXCEPT ![p] = Unread]
    /\ Goes(p, "return")
    /\ UNCHANGED <<schedVars, ready, CPU, open, firstTime, history, statVars, links>>

-----------------------------------------------------------------------------
\* What is as in the round-robin scheduler.
Unchanged == UNCHANGED <<statVars, seen, links>>

PScheduler ==
    \/ StoreMoment \/ StoreAverage \/ StoreVariance
    \/ AdmitCounted \/ StartPassOver
    \/ \E c \in Cores : DispatchCore(c) \/ SkipCore(c)
    \/ (Test \/ Unlock \/ Wait \/ Join) /\ Unchanged

PProcess(p) ==
    \/ LockAndTest(p) \/ ReadAvg(p) \/ RunQuantum(p)
    \/ (Return(p) \/ Signal(p)) /\ Unchanged

PNext ==
    \/ PScheduler
    \/ \E p \in Procs : PProcess(p)
    \/ (WakeUp \/ Terminated) /\ Unchanged

PSpec == PInit /\ [][PNext]_allVars

-----------------------------------------------------------------------------
(* Properties *)

\* The processes that wait or have a core.
Active == Queued \union ({n[c] : c \in Cores} \ {None})

\* What is added up: the priorities, in units of 1/Unit, and their squares.
Addends == [p \in Procs |-> Unit * priority[p]]
Squares == [p \in Procs |-> Square(Unit * priority[p])]

\* "The average and variance of all running processes priorities": between
\* two updates count, avg and var, which are only ever changed by the
\* difference one process makes, are those of the active processes, each
\* counted once; when the last one has left they are zero again.
StatsExact ==
    step = 0 =>
       /\ count = Cardinality(Active)
       /\ count * avg = SumFunctionOnSet(Addends, Active)
       /\ count * (var + Square(avg)) = SumFunctionOnSet(Squares, Active)
       /\ count = 0 => avg = 0 /\ var = 0

\* The ring of nodes is the queue: followed from its head in either direction
\* it passes the waiting processes in their order, although nodes go in and
\* out of it in one pass.
RingIsQueue ==
    LET ring == <<None>> \o waitingP \o <<None>> IN
    \A i \in 1 .. Len(ring) - 1 :
       links.prev[ring[i]] = ring[i + 1] /\ links.next[ring[i + 1]] = ring[i]

=============================================================================
