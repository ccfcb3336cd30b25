---------------------------- MODULE CoreScheduler ----------------------------
(***************************************************************************)
(* What the round-robin and the priority scheduler promise, without their  *)
(* threads, mutexes and signals: the processes wait in one queue, first    *)
(* come first served; a free core takes the first of them after putting    *)
(* its own process, if that has work left, behind the others; a process    *)
(* works only on the core it was given, once per turn.                     *)
(***************************************************************************)
EXTENDS Naturals, Sequences

CONSTANTS Procs, Cores, None

VARIABLES
    entered,    \* the processes that have arrived
    queue,      \* those that wait, in order
    on,         \* the process of each core
    phase,      \* whether a core is free, given to a process, or that has worked
    left        \* the work each process has left

vars == <<entered, queue, on, phase, left>>

Init ==
    /\ entered = {}
    /\ queue = << >>
    /\ on = [c \in Cores |-> None]
    /\ phase = [c \in Cores |-> "free"]
    /\ left \in [Procs -> Nat]

Enter(p) ==
    /\ p \notin entered
    /\ entered' = entered \union {p}
    /\ queue' = Append(queue, p)
    /\ UNCHANGED <<on, phase, left>>

\* The queue once the process of a free core is back in it.
Waiting(c) ==
    IF on[c] # None /\ left[on[c]] > 0 THEN Append(queue, on[c]) ELSE queue

Give(c) ==
    /\ phase[c] = "free"
    /\ Waiting(c) # << >>
    /\ on' = [on EXCEPT ![c] = Head(Waiting(c))]
    /\ queue' = Tail(Waiting(c))
    /\ phase' = [phase EXCEPT ![c] = "given"]
    /\ UNCHANGED <<entered, left>>

\* A core is left empty only if nobody waits.
Empty(c) ==
    /\ phase[c] = "free"
    /\ Waiting(c) = << >>
    /\ on' = [on EXCEPT ![c] = None]
    /\ UNCHANGED <<entered, queue, phase, left>>

Work(c) ==
    /\ phase[c] = "given"
    /\ phase' = [phase EXCEPT ![c] = "worked"]
    /\ \E l \in 0 .. left[on[c]] :
          /\ left[on[c]] > 0 => l < left[on[c]]
          /\ left' = [left EXCEPT ![on[c]] = l]
    /\ UNCHANGED <<entered, queue, on>>

Release(c) ==
    /\ phase[c] = "worked"
    /\ phase' = [phase EXCEPT ![c] = "free"]
    /\ UNCHANGED <<entered, queue, on, left>>

Next ==
    \/ \E p \in Procs : Enter(p)
    \/ \E c \in Cores : Give(c) \/ Empty(c) \/ Work(c) \/ Release(c)

Spec == Init /\ [][Next]_vars

=============================================================================
