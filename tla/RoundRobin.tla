----------------------------- MODULE RoundRobin -----------------------------
(***************************************************************************)
(* The threaded round-robin scheduler (roundrobin.c).  The scheduler       *)
(* thread hands the cores to the processes at the head of a queue; every   *)
(* process is a thread that sleeps for one quantum whenever the scheduler  *)
(* unlocks its mutex, a binary semaphore, and then signals gcond.  gmtx,   *)
(* the mutex of gcond, is locked by the scheduler alone, and mtx protects  *)
(* the cores but not gcond, firstTime or dt.                               *)
(***************************************************************************)
EXTENDS Naturals, FiniteSets, FiniteSetsExt, Functions, Sequences, SequencesExt

CONSTANTS
    NumProcs,   \* readyJobs->i
    NumCPU,     \* numCPU
    MaxQuanta   \* bound: the longest dt, in quanta rounded up

ASSUME SchedulerAssumption == {NumProcs, NumCPU} \subseteq Nat \ {0} /\ MaxQuanta \in Nat

Procs == 1 .. NumProcs      \* in the order of t0
Cores == 1 .. NumCPU
None == 0

VARIABLES
    stage,      \* where the scheduler is: <<stage, core>>
    arrived,    \* how many processes were taken off the stack pool
    waitingP,   \* the queue
    runningPro, \* the busy cores the scheduler counted in its last pass
    n,          \* cores[i].n
    ready,      \* cores[i].ready
    pc,         \* where the thread of a process is
    CPU,        \* n->CPU
    open,       \* n->mtx of a process, TRUE when unlocked
    dt,         \* quanta left
    firstTime,  \* the process has not run yet
    ctx_changes,\* the context changes counted so far
    dt0,        \* history: dt at the start
    missed      \* history: a signal came between the pass and the wait

Core == <<n, ready>>
Node == <<CPU, open, dt>>
schedVars == <<stage, arrived, waitingP, runningPro, n, ctx_changes>>
history == <<dt0, missed>>
otherVars ==    \* all but stage
    <<arrived, waitingP, runningPro, Core, pc, Node, firstTime, ctx_changes, history>>
vars == <<stage, otherVars>>

-----------------------------------------------------------------------------
Queued == ToSet(waitingP)

TypeOK ==
    /\ stage \in {"test", "admit", "serve", "unlock", "wait", "waiting", "join", "done"}
                    \X (0 .. NumCPU)
    /\ arrived \in 0 .. NumProcs
    /\ waitingP \in Seq(Procs)
    /\ runningPro \in 0 .. NumCPU
    /\ n \in [Cores -> Procs \union {None}]
    /\ ready \in [Cores -> BOOLEAN]
    /\ pc \in [Procs -> {"new", "lock", "run", "return", "signal", "end"}]
    /\ CPU \in [Procs -> Cores \union {None}]
    /\ open \in [Procs -> BOOLEAN]
    /\ dt \in [Procs -> 0 .. MaxQuanta]
    /\ firstTime \in [Procs -> BOOLEAN]
    /\ ctx_changes \in Nat
    /\ dt0 \in [Procs -> 0 .. MaxQuanta]
    /\ missed \in BOOLEAN

Init ==
    /\ stage = <<"test", 0>>
    /\ arrived = 0
    /\ waitingP = << >>
    /\ runningPro = 0
    /\ n = [c \in Cores |-> None]
    /\ ready = [c \in Cores |-> TRUE]
    /\ pc = [p \in Procs |-> "new"]
    /\ CPU = [p \in Procs |-> None]
    /\ open = [p \in Procs |-> FALSE]
    /\ dt0 \in [Procs -> 0 .. MaxQuanta]
    /\ dt = dt0
    /\ firstTime = [p \in Procs |-> TRUE]
    /\ ctx_changes = 0
    /\ missed = FALSE

-----------------------------------------------------------------------------
(* The scheduler *)

SchedGoes(s, c) == stage' = <<s, c>>

\* The stack pool holds the processes in the order of t0, the first on top.
StackTop == IF arrived < NumProcs THEN arrived + 1 ELSE None

\* Mutant: the loop forgets the cores that are still busy.
MoreToDoIgnoresCores == StackTop # None \/ waitingP # << >>

\* The condition of the main loop.
MoreToDo == StackTop # None \/ runningPro > 0 \/ waitingP # << >>

Test ==
    /\ stage[1] = "test"
    /\ SchedGoes(IF MoreToDo THEN "admit" ELSE "join", 0)
    /\ UNCHANGED otherVars

\* The next process on the stack has arrived: it joins the queue and its
\* thread is created.
Admit ==
    /\ stage[1] = "admit"
    /\ StackTop # None
    /\ arrived' = arrived + 1
    /\ waitingP' = Append(waitingP, StackTop)
    /\ pc' = [pc EXCEPT ![StackTop] = "lock"]
    /\ UNCHANGED <<stage, runningPro, Core, Node, firstTime, ctx_changes, history>>

\* No other process has arrived.  With nothing to run the scheduler has slept
\* until one did.  mtx is locked.
StartPass ==
    /\ stage[1] = "admit"
    /\ waitingP # << >> \/ runningPro > 0
    /\ SchedGoes("serve", 1)
    /\ runningPro' = 0
    /\ UNCHANGED <<arrived, waitingP, Core, pc, Node, firstTime, ctx_changes, history>>

\* Mutant: a finished process is put back as well.
RequeuedFinished(c) ==
    IF n[c] # None /\ ready[c] THEN Append(waitingP, n[c]) ELSE waitingP

\* Mutant: it is put back in front of the others.
RequeuedInFront(c) ==
    IF n[c] # None /\ ready[c] /\ dt[n[c]] > 0 THEN <<n[c]>> \o waitingP ELSE waitingP

\* The queue after the process of a core that became ready is put back.
Requeued(c) ==
    IF n[c] # None /\ ready[c] /\ dt[n[c]] > 0 THEN Append(waitingP, n[c]) ELSE waitingP

\* Mutant: the loop goes one core too far.
NextStageTooFar(c) == IF c <= NumCPU THEN SchedGoes("serve", c + 1) ELSE SchedGoes("unlock", 0)

NextStage(c) == IF c < NumCPU THEN SchedGoes("serve", c + 1) ELSE SchedGoes("unlock", 0)

\* Mutant: the scheduler does not look whether the core is ready.
AvailableAlways(c) == Requeued(c) # << >>

Available(c) == ready[c] /\ Requeued(c) # << >>

\* Mutant: only a process that runs for the first time is woken up.
WokenOnce(p) == [open EXCEPT ![p] = firstTime[p]]

\* pthread_mutex_unlock(&(tmp->mtx))
Woken(p) == [open EXCEPT ![p] = TRUE]

\* debugger(CONTEXT_EVENT, ...) counts, whether or not it prints.
Debugger(event) == IF event = "context" THEN ctx_changes + 1 ELSE ctx_changes

\* One pass of the loop over the cores: a ready core gets the head of the
\* queue, whose mutex is unlocked; a core without work is emptied.
Dispatch(c) ==
    /\ stage = <<"serve", c>>
    /\ Available(c)
    /\ LET p == Head(Requeued(c))
           rest == Tail(Requeued(c)) IN
       /\ n' = [n EXCEPT ![c] = p]
       /\ ready' = [ready EXCEPT ![c] = FALSE]
       /\ CPU' = [CPU EXCEPT ![p] = c]
       /\ waitingP' = rest
       /\ open' = Woken(p)
       /\ ctx_changes' = Debugger(IF firstTime[p] THEN "none" ELSE "context")
    /\ runningPro' = runningPro + 1
    /\ NextStage(c)
    /\ UNCHANGED <<arrived, pc, dt, firstTime, history>>

\* Nobody is waiting for the ready core c, or c is busy.
LeaveCore(c) ==
    /\ stage = <<"serve", c>>
    /\ ~Available(c)
    /\ n' = IF ready[c] THEN [n EXCEPT ![c] = None] ELSE n
    /\ runningPro' = IF ready[c] THEN runningPro ELSE runningPro + 1
    /\ NextStage(c)
    /\ UNCHANGED <<arrived, waitingP, ready, pc, Node, firstTime, ctx_changes, history>>

\* mtx is unlocked: from here on a process may give its core back.
Unlock ==
    /\ stage[1] = "unlock"
    /\ IF runningPro > 0 THEN SchedGoes("wait", 0) ELSE SchedGoes("test", 0)
    /\ UNCHANGED otherVars

\* pthread_cond_wait(&gcond, &gmtx), whatever happened since mtx was unlocked.
Wait ==
    /\ stage[1] = "wait"
    /\ SchedGoes("waiting", 0)
    /\ UNCHANGED otherVars

\* pthread_cond_wait may also return without a signal.
WakeUp ==
    /\ stage[1] = "waiting"
    /\ SchedGoes("test", 0)
    /\ missed' = FALSE
    /\ UNCHANGED <<arrived, waitingP, runningPro, Core, pc, Node, firstTime, ctx_changes, dt0>>

\* The threads are joined, then everything is freed.
Join ==
    /\ stage[1] = "join"
    /\ \A p \in Procs : pc[p] = "end"
    /\ SchedGoes("done", 0)
    /\ UNCHANGED otherVars

-----------------------------------------------------------------------------
(* The thread of a process: run *)

Goes(p, s) == pc' = [pc EXCEPT ![p] = s]

\* pthread_mutex_lock(&(n->mtx))
Lock(p) ==
    /\ pc[p] = "lock"
    /\ open[p]
    /\ open' = [open EXCEPT ![p] = FALSE]
    /\ firstTime' = [firstTime EXCEPT ![p] = FALSE]
    /\ Goes(p, "run")
    /\ UNCHANGED <<schedVars, ready, CPU, dt, history>>

\* It sleeps for a quantum, or for what is left.
Run(p) ==
    /\ pc[p] = "run"
    /\ dt' = [dt EXCEPT ![p] = IF @ = 0 THEN 0 ELSE @ - 1]
    /\ Goes(p, "return")
    /\ UNCHANGED <<schedVars, ready, CPU, open, firstTime, history>>

\* The core is given back under mtx, which the scheduler holds in its pass.
Return(p) ==
    /\ pc[p] = "return"
    /\ stage[1] \notin {"serve", "unlock"}
    /\ ready' = [ready EXCEPT ![CPU[p]] = TRUE]
    /\ Goes(p, "signal")
    /\ UNCHANGED <<schedVars, CPU, open, dt, firstTime, history>>

\* gcond is signalled without gmtx; the signal is lost unless the scheduler
\* already waits.  Then the loop condition reads dt; finished++ and the output
\* of a process that ends are left out.
Signal(p) ==
    /\ pc[p] = "signal"
    /\ IF stage[1] = "waiting" THEN SchedGoes("test", 0) ELSE UNCHANGED stage
    /\ missed' = (stage[1] = "wait" \/ (missed /\ stage[1] # "waiting"))
    /\ Goes(p, IF dt[p] > 0 THEN "lock" ELSE "end")
    /\ UNCHANGED <<arrived, waitingP, runningPro, Core, Node, firstTime, ctx_changes, dt0>>

-----------------------------------------------------------------------------
Scheduler ==
    \/ Test \/ Admit \/ StartPass \/ Unlock \/ Wait \/ Join
    \/ \E c \in Cores : Dispatch(c) \/ LeaveCore(c)

Process(p) ==
    Lock(p) \/ Run(p) \/ Return(p) \/ Signal(p)

Terminated == stage[1] = "done" /\ UNCHANGED vars

Next == Scheduler \/ WakeUp \/ (\E p \in Procs : Process(p)) \/ Terminated

Spec == Init /\ [][Next]_vars

\* Every thread that can go on does, and one that asks for mtx again and again
\* gets it; nothing promises a wakeup without a signal.
FairSpec ==
    /\ Spec
    /\ WF_vars(Scheduler)
    /\ \A p \in Procs : WF_vars(Process(p)) /\ SF_vars(Return(p))

-----------------------------------------------------------------------------
(* Properties *)

CoresOf(p) == {c \in Cores : n[c] = p}

\* A process that has arrived and still has work is in the queue once or on
\* one core, and never both: the pass over the cores neither loses a process
\* nor lets one run on two cores.  A process without work is not queued again.
NobodyLostOrDoubled ==
    \A p \in Procs :
       LET places == Cardinality(CoresOf(p))
                     + Cardinality({i \in DOMAIN waitingP : waitingP[i] = p})
       IN  /\ places <= 1
           /\ (p <= arrived /\ dt[p] > 0) => places = 1
           /\ (dt[p] = 0 /\ dt0[p] > 0) => p \notin Queued

\* A process runs only on the core the scheduler gave it: from the unlock of
\* its mutex until it gives the core back, that core is its own.
RunsOnItsCore ==
    \A p \in Procs :
       open[p] \/ pc[p] \in {"run", "return"}
          => n[CPU[p]] = p /\ ~ready[CPU[p]]

\* The turns each process needs after its first one.
LaterTurns == [p \in Procs |-> Max({dt0[p], 1}) - 1]

\* The main loop ends only when every process has done its work, and the
\* context changes it wrote are the turns of a process after its first one.
LeavesWhenAllDone ==
    stage[1] \in {"join", "done"} =>
       /\ \A p \in Procs : dt[p] = 0 /\ pc[p] \in {"signal", "end"}
       /\ \A c \in Cores : ready[c]
       /\ ctx_changes = SumFunctionOnSet(LaterTurns, Procs)

\* Seen without its threads the scheduler is a set of cores served by one
\* queue, first come first served (module CoreScheduler): no core is left
\* empty while somebody waits, no process works on a core that is not its own
\* or twice in a turn, and none overtakes another.
Promised == INSTANCE CoreScheduler WITH
    entered <- 1 .. arrived,
    queue <- waitingP,
    on <- n,
    phase <- [c \in Cores |-> IF ready[c] THEN "free"
                              ELSE IF pc[n[c]] = "return" THEN "worked" ELSE "given"],
    left <- dt

RefinesCores == Promised!Spec

\* The scheduler waits, and a signal came just before it did.
LostSignal == stage[1] = "waiting" /\ missed

\* Everything ends, or it is a signal lost between the pass over the cores and
\* the wait that stops the scheduler: no process waits for ever on a core that
\* was given to it, and no join hangs.
EndsOrLosesSignal == <>[](stage[1] = "done" \/ LostSignal)

=============================================================================
