--------------------------------- MODULE SJF ---------------------------------
(***************************************************************************)
(* The threaded shortest-job-first scheduler (sjf.c).  The scheduler gives *)
(* the shortest arrived process to every idle core by starting a thread;   *)
(* the thread finds out which core it is by looking its own pthread_t up   *)
(* in coreCPU and takes its process from pool.  A pthread_t may be used    *)
(* again once its thread is gone.  mutex protects the cores, but the       *)
(* scheduler waits on cond with schedMutex and reads idleCPU and CPU       *)
(* without any mutex, so a finishing thread is modelled store by store.    *)
(***************************************************************************)
EXTENDS Naturals, FiniteSets, Sequences, ProcArray

CONSTANTS
    NumProcs,   \* pQueue->i
    NumCPU,     \* numCPU
    Ids,        \* the values of pthread_t
    Traces      \* the trace files: sequences of lines [t0, dt]

ASSUME SJFAssumption ==
    /\ {NumProcs, NumCPU} \subseteq Nat \ {0}
    /\ IsFiniteSet(Ids) /\ Cardinality(Ids) >= NumProcs
    /\ Traces \subseteq [1 .. NumProcs -> [t0 : Nat, dt : Nat \ {0}]]

PQ == INSTANCE MinPQ

Procs == 1 .. NumProcs      \* the indices of pQueue->v
Cores == 1 .. NumCPU
None == 0

\* The threads are named after the process they were started for, a name
\* no thread knows.
VARIABLES
    stage,     \* where the scheduler is: <<stage, core>>
    arrived,   \* pQueue->nextP
    pPQ,       \* the priority queue
    CPU,       \* the cores in RUNNING_STATE
    pool,      \* the process each core's thread has to take
    coreCPU,   \* the pthread_t of each core
    idleCPU,   \* the number of idle cores
    outLine,   \* the number of the last line of output
    outInfo,   \* by line of the trace: what to write of its process
    outfile,   \* the processes written, in order
    pc,        \* where a thread is
    id,        \* pthread_self of a thread
    p,         \* the process a thread took
    pQueue,    \* the processes of the trace, in the order of their arrival
    missed     \* history: a signal came between the test of idleCPU and the wait

schedVars == <<stage, arrived, pPQ>>
coreVars == <<CPU, pool, coreCPU, idleCPU>>
outVars == <<outLine, outInfo, outfile>>
threadVars == <<pc, id, p>>
vars == <<schedVars, coreVars, outVars, threadVars, pQueue, missed>>

\* Mutant: the processes are compared by their arrival.
ByArrival == [q \in Procs |-> pQueue.v[q].t0]

\* What cmpSJFThreaded compares.
Dt == [q \in Procs |-> pQueue.v[q].dt]

Queued == ToSet(pPQ.pq)

OutputData == [name : Procs, outN : 1 .. NumProcs]
NULL == [name |-> None, outN |-> None]

NewOutput(name, outN) == [name |-> name, outN |-> outN]

\* cmpOutput(a, b) < 0
CmpOutput(a, b) == a.outN < b.outN

-----------------------------------------------------------------------------
TypeOK ==
    /\ stage \in {"test", "admit", "lock", "assign", "check", "wait", "waiting", "collect",
                  "join", "write", "free", "main", "done", "crash"} \X (0 .. NumCPU)
    /\ arrived \in 1 .. NumProcs
    /\ pPQ \in [pq : Seq(Procs), length : Nat]
    /\ CPU \subseteq Cores
    /\ pool \in [Cores -> Procs \union {None}]
    /\ coreCPU \in [Cores -> Ids]
    /\ idleCPU \in 0 .. NumCPU
    /\ outLine \in 0 .. NumProcs
    /\ outInfo \in [Procs -> OutputData \union {NULL}]
    /\ outfile \in Seq(Procs)
    /\ pc \in [Procs -> {"none", "start", "work", "idle", "output", "signal", "exit", "end"}]
    /\ id \in [Procs -> Ids \union {None}]
    /\ p \in [Procs -> Procs \union {None}]
    /\ pQueue.v \in [Procs -> [t0 : Nat, dt : Nat \ {0}, nLine : Procs]]
    /\ missed \in BOOLEAN

\* coreCPU and pool are not initialised: pool is written before it is read,
\* coreCPU starts with any value.
Init ==
    /\ stage = <<"test", 0>>
    /\ arrived = 1
    /\ pQueue \in ReadyJobs(Traces)
    /\ pPQ = PQ!Insert(Dt, PQ!New, 1)
    /\ CPU = {}
    /\ pool = [c \in Cores |-> None]
    /\ coreCPU \in [Cores -> Ids]
    /\ idleCPU = NumCPU
    /\ outLine = 0
    /\ outInfo = [q \in Procs |-> NULL]
    /\ outfile = <<>>
    /\ pc = [t \in Procs |-> "none"]
    /\ id = [t \in Procs |-> None]
    /\ p = [t \in Procs |-> None]
    /\ missed = FALSE

SchedGoes(s, c) == stage' = <<s, c>>
Goes(t, s) == pc' = [pc EXCEPT ![t] = s]

Live == {t \in Procs : pc[t] \notin {"none", "end"}}

MutexFree ==
    /\ stage[1] # "assign"
    /\ \A t \in Procs : pc[t] \notin {"idle", "output", "signal"}

\* getCore: the first core with the id.
GetCore(i) == CHOOSE c \in Cores : coreCPU[c] = i /\ \A d \in 1 .. c - 1 : coreCPU[d] # i

-----------------------------------------------------------------------------
(* The scheduler *)

Test ==
    /\ stage[1] = "test"
    /\ IF arrived < NumProcs \/ ~PQ!IsEmpty(pPQ) THEN SchedGoes("admit", 0) ELSE SchedGoes("collect", 1)
    /\ UNCHANGED <<arrived, pPQ, coreVars, outVars, threadVars, pQueue, missed>>

\* A turn of the loop over the arrived processes.
Admit ==
    /\ stage[1] = "admit" /\ arrived < NumProcs
    /\ arrived' = arrived + 1
    /\ pPQ' = PQ!Insert(Dt, pPQ, arrived')
    /\ UNCHANGED <<stage, coreVars, outVars, threadVars, pQueue, missed>>

\* The loop may end between two processes that do not arrive together; with an
\* empty queue the scheduler has slept until the next one has arrived.
Admitted ==
    /\ stage[1] = "admit" /\ ~PQ!IsEmpty(pPQ)
    /\ arrived < NumProcs => pQueue.v[arrived].t0 < pQueue.v[arrived + 1].t0
    /\ SchedGoes("lock", 0)
    /\ UNCHANGED <<arrived, pPQ, coreVars, outVars, threadVars, pQueue, missed>>

\* pthread_mutex_lock(&mutex)
LockMutex ==
    /\ stage[1] = "lock" /\ MutexFree
    /\ SchedGoes("assign", 1)
    /\ UNCHANGED <<arrived, pPQ, coreVars, outVars, threadVars, pQueue, missed>>

NextCore(c) == IF c < NumCPU THEN SchedGoes("assign", c + 1) ELSE SchedGoes("check", 0)

\* Mutant: any core may be next, and the loop goes on after it.
TurnAny(c) == stage[1] = "assign" /\ stage[2] <= c

\* The loop over the cores has come to c.
Turn(c) == stage = <<"assign", c>>

\* Mutant: cores in RUNNING_STATE are served, too.
ServedAlways(c) == ~PQ!IsEmpty(pPQ)

Served(c) == c \notin CPU /\ ~PQ!IsEmpty(pPQ)

\* The new thread gets an id that no living thread has.
StartProcess(c, q) ==
    /\ \E i \in Ids :
          /\ \A t \in Live : id[t] # i
          /\ coreCPU' = [coreCPU EXCEPT ![c] = i]
          /\ id' = [id EXCEPT ![q] = i]
    /\ Goes(q, "start")

Assign(c) ==
    /\ Turn(c) /\ Served(c)
    /\ pool' = [pool EXCEPT ![c] = PQ!Min(pPQ)]
    /\ StartProcess(c, PQ!Min(pPQ))
    /\ pPQ' = PQ!DelMin(Dt, pPQ)
    /\ CPU' = CPU \union {c}
    /\ idleCPU' = idleCPU - 1
    /\ NextCore(c)
    /\ UNCHANGED <<arrived, outVars, p, pQueue, missed>>

\* Mutex is unlocked after the last core.
SkipCore(c) ==
    /\ Turn(c) /\ ~Served(c)
    /\ NextCore(c)
    /\ UNCHANGED <<arrived, pPQ, coreVars, outVars, threadVars, pQueue, missed>>

\* if(idleCPU == 0), without the mutex
Check ==
    /\ stage[1] = "check"
    /\ SchedGoes(IF idleCPU = 0 THEN "wait" ELSE "test", 0)
    /\ missed' = FALSE
    /\ UNCHANGED <<arrived, pPQ, coreVars, outVars, threadVars, pQueue>>

\* pthread_cond_wait(&cond, &schedMutex)
Wait ==
    /\ stage[1] = "wait"
    /\ SchedGoes("waiting", 0)
    /\ UNCHANGED <<arrived, pPQ, coreVars, outVars, threadVars, pQueue, missed>>

\* It may also return without a signal.
WakeUp ==
    /\ stage[1] = "waiting"
    /\ SchedGoes("test", 0)
    /\ UNCHANGED <<arrived, pPQ, coreVars, outVars, threadVars, pQueue, missed>>

NextJoin(c) == IF c < NumCPU THEN SchedGoes("collect", c + 1) ELSE SchedGoes("write", 0)

\* if(CPU[c] != IDLE_STATE), without the mutex
Collect(c) ==
    /\ stage = <<"collect", c>>
    /\ IF c \in CPU THEN SchedGoes("join", c) ELSE NextJoin(c)
    /\ UNCHANGED <<arrived, pPQ, coreVars, outVars, threadVars, pQueue, missed>>

Join(c) ==
    /\ stage = <<"join", c>>
    /\ \A t \in Live : id[t] # coreCPU[c]
    /\ NextJoin(c)
    /\ UNCHANGED <<arrived, pPQ, coreVars, outVars, threadVars, pQueue, missed>>

\* The lines are sorted by outN.  Every pointer of outInfo is followed.
WriteOutput ==
    /\ stage[1] = "write"
    /\ IF \A q \in Procs : outInfo[q] # NULL
       THEN /\ \E sorted \in SetToSeqs(Range(outInfo)) :
                  /\ \A i, j \in DOMAIN sorted : i < j => ~CmpOutput(sorted[j], sorted[i])
                  /\ outfile' = [i \in DOMAIN sorted |-> sorted[i].name]
            /\ SchedGoes("free", 0)
       ELSE SchedGoes("crash", 0) /\ UNCHANGED outfile
    /\ UNCHANGED <<arrived, pPQ, coreVars, outLine, outInfo, threadVars, pQueue, missed>>

\* CPU, coreCPU and pool are freed, outInfo already is; threads may still run.
Free ==
    /\ stage[1] = "free"
    /\ SchedGoes("main", 0)
    /\ UNCHANGED <<arrived, pPQ, coreVars, outVars, threadVars, pQueue, missed>>

\* main frees the trace and ends the program.
MainReturns ==
    /\ stage[1] = "main"
    /\ SchedGoes("done", 0)
    /\ UNCHANGED <<arrived, pPQ, coreVars, outVars, threadVars, pQueue, missed>>

-----------------------------------------------------------------------------
(* The thread of a core: processRoutine *)

Take(t) ==
    /\ pc[t] = "start" /\ MutexFree
    /\ p' = [p EXCEPT ![t] = pool[GetCore(id[t])]]
    /\ pool' = [pool EXCEPT ![GetCore(id[t])] = None]
    /\ Goes(t, "work")
    /\ UNCHANGED <<schedVars, CPU, coreCPU, idleCPU, outVars, id, pQueue, missed>>

\* After its sleep: CPU[core] = IDLE_STATE, ...
Finish(t) ==
    /\ pc[t] = "work" /\ MutexFree
    /\ CPU' = CPU \ {GetCore(id[t])}
    /\ Goes(t, "idle")
    /\ UNCHANGED <<schedVars, pool, coreCPU, idleCPU, outVars, id, p, pQueue, missed>>

\* ... idleCPU++, ...
Count(t) ==
    /\ pc[t] = "idle"
    /\ idleCPU' = idleCPU + 1
    /\ Goes(t, "output")
    /\ UNCHANGED <<schedVars, CPU, pool, coreCPU, outVars, id, p, pQueue, missed>>

Line == outLine + 1

\* ... the output, ...
Output(t) ==
    /\ pc[t] = "output"
    /\ outLine' = Line
    /\ outInfo' = [outInfo EXCEPT ![pQueue.v[p[t]].nLine] = NewOutput(p[t], Line)]
    /\ Goes(t, "signal")
    /\ UNCHANGED <<schedVars, coreVars, outfile, id, p, pQueue, missed>>

\* Mutant: only the first core to finish signals.
WakesOnce == stage[1] = "waiting" /\ outLine = 1

Wakes == stage[1] = "waiting"

\* ... and the signal, after which mutex is unlocked.
Signal(t) ==
    /\ pc[t] = "signal"
    /\ IF Wakes THEN SchedGoes("test", 0) ELSE UNCHANGED stage
    /\ missed' = (missed \/ stage[1] = "wait")
    /\ Goes(t, "exit")
    /\ UNCHANGED <<arrived, pPQ, coreVars, outVars, id, p, pQueue>>

\* It detaches itself and ends: its id is free.
Exit(t) ==
    /\ pc[t] = "exit"
    /\ Goes(t, "end")
    /\ id' = [id EXCEPT ![t] = None]
    /\ p' = [p EXCEPT ![t] = None]
    /\ UNCHANGED <<schedVars, coreVars, outVars, pQueue, missed>>

-----------------------------------------------------------------------------
Scheduler ==
    \/ Test \/ Admit \/ Admitted \/ LockMutex \/ Check \/ Wait \/ WriteOutput \/ Free \/ MainReturns
    \/ \E c \in Cores : Assign(c) \/ SkipCore(c) \/ Collect(c) \/ Join(c)

\* The end of main, or the crash, ends every thread.
Thread(t) ==
    /\ stage[1] \notin {"done", "crash"}
    /\ Take(t) \/ Finish(t) \/ Count(t) \/ Output(t) \/ Signal(t) \/ Exit(t)

Terminated == stage[1] \in {"done", "crash"} /\ UNCHANGED vars

Next == Scheduler \/ WakeUp \/ (\E t \in Procs : Thread(t)) \/ Terminated

Spec == Init /\ [][Next]_vars

\* Every thread that can go on does, and one that asks for mutex again and
\* again gets it.
FairSpec ==
    /\ Spec
    /\ WF_vars(Scheduler) /\ SF_vars(LockMutex)
    /\ \A t \in Procs : WF_vars(Thread(t)) /\ SF_vars(Take(t)) /\ SF_vars(Finish(t))

-----------------------------------------------------------------------------
(* Properties *)

Started == {t \in Procs : pc[t] \in {"start", "work"}}

\* A thread always finds the core it was started for, although ids are used
\* again and the ids of dead threads stay in coreCPU: cores are filled from
\* the first one on, so every core before its own holds a thread that lived
\* at the same time, or a later one.  The cores of two threads differ.
GetCoreFindsOwn ==
    \A t \in Started :
       /\ \E c \in CPU : coreCPU[c] = id[t]
       /\ pc[t] = "start" => pool[GetCore(id[t])] = t
       /\ \A u \in Started \ {t} : GetCore(id[u]) # GetCore(id[t])

\* Whenever mutex is free, idleCPU is the number of idle cores and the busy
\* cores are those of the threads that have not finished.
IdleCountExact ==
    MutexFree => /\ idleCPU = NumCPU - Cardinality(CPU)
                 /\ CPU = {GetCore(id[t]) : t \in Started}

\* Every process that arrived is in exactly one place: the priority queue,
\* the pool of a core, the hands of a thread, or the output.  When the arrays
\* are freed everything is written, and no thread is left that reads them.
NobodyLost ==
    /\ \A q \in 1 .. arrived :
          Cardinality({i \in DOMAIN pPQ.pq : pPQ.pq[i] = q})
            + Cardinality({c \in Cores : pool[c] = q})
            + Cardinality({t \in Procs : p[t] = q /\ pc[t] \in {"work", "idle", "output"}})
            + Cardinality({l \in Procs : outInfo[l].name = q}) = 1
    /\ stage[1] \in {"free", "main", "done"} =>
          /\ Len(outfile) = NumProcs /\ ToSet(outfile) = Procs
          /\ \A t \in Procs : pc[t] \in {"signal", "exit", "end"}

\* The process a core gets is one of the shortest that have arrived and wait,
\* whatever the heap went through, and the heap never writes past its array.
ServesShortest ==
    [][/\ Len(pPQ'.pq) < pPQ'.length
       /\ \A q \in Queued \ Queued' : \A r \in Queued' :
             pQueue.v[q].dt <= pQueue.v[r].dt]_vars

\* The scheduler waits, and a signal came just before it did.
LostSignal == stage[1] = "waiting" /\ missed

\* The scheduler ends, with or without a complete output, or it is a signal
\* lost between the test of idleCPU and the wait that stops it.
EndsOrLosesSignal == <>[](stage[1] \in {"done", "crash"} \/ LostSignal)

\* "Wait for all processes to finish their execution": the output is written
\* when every process has left its line.
AllFinishedBeforeOutput == stage[1] = "write" => \A q \in Procs : outInfo[q] # NULL

=============================================================================
