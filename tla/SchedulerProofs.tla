-------------------------- MODULE SchedulerProofs --------------------------
(***************************************************************************)
(* Proofs about RoundRobin for every number of processes and cores and     *)
(* every MaxQuanta, and about PriorityScheduler, which extends it, for all *)
(* priorities as well.  The first part uses nothing of PriorityScheduler.  *)
(* The inductive invariant of RoundRobin is the conjunction of             *)
(*   TypeOK     the types;                                                 *)
(*   ServedOK   a process that may run is the one of a busy core, and a    *)
(*              busy core has a process that may run;                      *)
(*   ThreadOK   where a process stands tells what is left of its work;     *)
(*   QueueOK    who waits is in the queue once, on no core, with work;     *)
(*   NobodyLost who has arrived and still has work waits or is on a core;  *)
(*   PassOK     what the scheduler knows of the cores it has passed.       *)
(* How long a turn is matters for none of them: they are proved for the    *)
(* actions with Sleep in place of Run, which the priority scheduler shares.*)
(* The second part is about the length of a turn, the ring of nodes and    *)
(* the statistics.  Its invariant is that of the first part and            *)
(*   PTypeOK    the types;                                                 *)
(*   StepOK     an update that was begun is due;                           *)
(*   StatsOK    how far count, avg and var have come towards the values    *)
(*              they have after the update;                                *)
(*   RingOf     the ring of nodes is the queue.                            *)
(***************************************************************************)
EXTENDS PriorityScheduler, ProofLemmas

\* From the unlock of its mutex until it gives its core back.
Served(p) == open[p] \/ pc[p] \in {"run", "return"}

ServedOK ==
    /\ \A p \in Procs : Served(p) => /\ CPU[p] \in Cores
                                     /\ n[CPU[p]] = p /\ ~ready[CPU[p]]
    /\ \A c \in Cores : ~ready[c] => /\ n[c] \in Procs
                                     /\ Served(n[c]) /\ CPU[n[c]] = c
    /\ \A c, d \in Cores : n[c] = n[d] /\ n[c] # None => c = d

ThreadOK ==
    \A p \in Procs :
       /\ open[p] => pc[p] = "lock" \/ (pc[p] = "signal" /\ dt[p] > 0)
       /\ pc[p] = "new" <=> p > arrived
       /\ pc[p] = "new" => dt[p] = dt0[p] /\ \A c \in Cores : n[c] # p
       /\ pc[p] = "end" => dt[p] = 0
       /\ pc[p] = "lock" => open[p] \/ dt[p] > 0 \/ p \in Queued

QueueOK ==
    /\ IsInjective(waitingP)
    /\ \A p \in Queued :
          /\ p <= arrived
          /\ ~Served(p)
          /\ \A c \in Cores : n[c] # p
          /\ dt[p] > 0 \/ (dt0[p] = 0 /\ pc[p] = "lock")

NobodyLost ==
    \A p \in Procs : p <= arrived /\ dt[p] > 0 => p \in Queued \/ \E c \in Cores : n[c] = p

PassOK ==
    /\ stage[1] = "serve" => stage[2] \in Cores /\ runningPro < stage[2]
    /\ runningPro = 0 =>
          \A c \in Cores : (stage[1] = "serve" => c < stage[2]) => n[c] = None
    /\ stage[1] \in {"join", "done"} =>
          runningPro = 0 /\ waitingP = << >> /\ arrived = NumProcs

IInv == TypeOK /\ ServedOK /\ ThreadOK /\ QueueOK /\ NobodyLost /\ PassOK

-----------------------------------------------------------------------------
\* Run, or a turn of the priority scheduler: some of the work that is left is done.
Sleep(p) ==
    /\ pc[p] = "run"
    /\ \E l \in 0 .. dt[p] :
          /\ dt[p] > 0 => l < dt[p]
          /\ dt' = [dt EXCEPT ![p] = l]
    /\ Goes(p, "return")
    /\ UNCHANGED <<schedVars, ready, CPU, open, firstTime, history>>

SleepNext ==
    \/ Scheduler \/ WakeUp \/ Terminated
    \/ \E p \in Procs : Lock(p) \/ Sleep(p) \/ Return(p) \/ Signal(p)

SleepSpec == Init /\ [][SleepNext]_vars

-----------------------------------------------------------------------------
\* None is no process, and the range of the processes.
LEMMA Constants ==
    /\ NumProcs \in Nat \ {0} /\ NumCPU \in Nat \ {0} /\ MaxQuanta \in Nat
    /\ None = 0 /\ None \notin Procs
    /\ \A p \in Procs : p \in Nat \ {0} /\ p <= NumProcs
BY SchedulerAssumption DEF Procs, None

\* The queue after the process of a core that became ready is back in it.
LEMMA RequeuedFacts ==
    ASSUME IInv, NEW c \in Cores, ready[c]
    PROVE  /\ Requeued(c) \in Seq(Procs) /\ IsInjective(Requeued(c))
           /\ ToSet(Requeued(c)) =
                 Queued \union (IF n[c] # None /\ dt[n[c]] > 0 THEN {n[c]} ELSE {})
           /\ n[c] # None => n[c] \in Procs /\ ~Served(n[c]) /\ n[c] \notin Queued
<1>1. waitingP \in Seq(Procs) /\ IsInjective(waitingP) /\ n[c] \in Procs \union {None}
  BY DEF IInv, TypeOK, QueueOK
<1>2. n[c] # None => n[c] \in Procs /\ ~Served(n[c]) /\ n[c] \notin Queued
  BY <1>1 DEF IInv, ServedOK, QueueOK
<1>3. CASE n[c] # None /\ dt[n[c]] > 0
  BY <1>1, <1>2, <1>3, AppendQueue DEF Requeued, Queued
<1>4. CASE ~(n[c] # None /\ dt[n[c]] > 0)
  BY <1>1, <1>2, <1>4 DEF Requeued, Queued
<1> QED
  BY <1>2, <1>3, <1>4

-----------------------------------------------------------------------------
(* The steps of the scheduler *)

LEMMA InitOK == Init => IInv
<1> SUFFICES ASSUME Init PROVE IInv
  OBVIOUS
<1> USE Constants DEF Init
<1>1. Queued = {} /\ waitingP \in Seq(Procs) /\ IsInjective(waitingP)
  <2>1. waitingP = << >> /\ waitingP \in Seq(Procs)
    BY EmptySeq
  <2>2. DOMAIN waitingP = {}
    BY <2>1, LenProperties, EmptySeq
  <2> QED BY <2>1, <2>2 DEF Queued, ToSet, IsInjective
<1>2. TypeOK
  <2>1. stage \in {"test", "admit", "serve", "unlock", "wait", "waiting", "join", "done"}
                    \X (0 .. NumCPU)
    OBVIOUS
  <2>2. dt0 \in [Procs -> 0 .. MaxQuanta] /\ dt \in [Procs -> 0 .. MaxQuanta]
    OBVIOUS
  <2>3. /\ ready \in [Cores -> BOOLEAN] /\ open \in [Procs -> BOOLEAN]
        /\ firstTime \in [Procs -> BOOLEAN] /\ missed \in BOOLEAN
    OBVIOUS
  <2>4. /\ n \in [Cores -> Procs \union {None}] /\ CPU \in [Procs -> Cores \union {None}]
        /\ pc \in [Procs -> {"new", "lock", "run", "return", "signal", "end"}]
    OBVIOUS
  <2>5. arrived \in 0 .. NumProcs /\ runningPro \in 0 .. NumCPU /\ ctx_changes \in Nat
    OBVIOUS
  <2> QED BY <1>1, <2>1, <2>2, <2>3, <2>4, <2>5 DEF TypeOK
<1>3. ServedOK /\ ThreadOK
  BY <1>1 DEF ServedOK, ThreadOK, Served, Procs
<1>4. QueueOK /\ NobodyLost /\ PassOK
  BY <1>1 DEF QueueOK, NobodyLost, PassOK, Procs
<1> QED
  BY <1>2, <1>3, <1>4 DEF IInv

\* A step that changes at most what the scheduler knows.
LEMMA StageStep ==
    ASSUME IInv, TypeOK', PassOK',
           UNCHANGED <<arrived, waitingP, Core, pc, Node, dt0>>
    PROVE  IInv'
<1> USE DEF IInv, Core, Node
<1>1. Queued' = Queued /\ \A p : Served(p)' = Served(p)
  BY DEF Queued, Served
<1>2. ServedOK'
  BY <1>1 DEF ServedOK
<1>3. ThreadOK'
  BY <1>1 DEF ThreadOK
<1>4. QueueOK' /\ NobodyLost'
  BY <1>1 DEF QueueOK, NobodyLost
<1> QED
  BY <1>2, <1>3, <1>4

\* The steps that change nothing but where the scheduler is.
LEMMA StageSteps ==
    ASSUME IInv, Test \/ StartPass \/ Unlock \/ Wait \/ WakeUp \/ Join \/ Terminated \/ UNCHANGED vars
    PROVE  IInv'
<1> USE Constants DEF IInv, otherVars, SchedGoes, history
<1>1. UNCHANGED <<arrived, waitingP, Core, pc, Node, dt0>>
  BY DEF Test, StartPass, Unlock, Wait, WakeUp, Join, Terminated, vars
<1>2. TypeOK'
  <2> USE DEF TypeOK, Core, Node
  <2>1. CASE Test \/ Unlock
    BY <2>1 DEF Test, Unlock
  <2>2. CASE StartPass
    BY <2>2 DEF StartPass
  <2>3. CASE Wait
    BY <2>3 DEF Wait
  <2>6. CASE WakeUp
    <3>1. missed' \in BOOLEAN /\ stage' = <<"test", 0>>
      BY <2>6 DEF WakeUp
    <3> QED BY <2>6, <3>1 DEF WakeUp
  <2>4. CASE Join
    BY <2>4 DEF Join
  <2>5. CASE Terminated \/ UNCHANGED vars
    BY <2>5 DEF Terminated, vars
  <2> QED BY <2>1, <2>2, <2>3, <2>4, <2>5, <2>6
<1>3. PassOK'
  <2> USE DEF Core, Node
  <2>1. CASE Test
    BY <2>1 DEF Test, PassOK, TypeOK, MoreToDo, StackTop
  <2>2. CASE StartPass
    BY <2>2 DEF StartPass, PassOK, TypeOK, Cores
  <2>3. CASE Unlock \/ Wait \/ WakeUp
    BY <2>3 DEF Unlock, Wait, WakeUp, PassOK, TypeOK
  <2>4. CASE Join \/ Terminated \/ UNCHANGED vars
    BY <2>4 DEF Join, Terminated, vars, PassOK, TypeOK
  <2> QED BY <2>1, <2>2, <2>3, <2>4
<1> QED
  BY <1>1, <1>2, <1>3, StageStep

LEMMA AdmitStep ==
    ASSUME IInv, Admit
    PROVE  IInv'
<1> USE Constants DEF IInv, Core, Node, history
<1> DEFINE q == arrived + 1
<1>1. /\ stage[1] = "admit" /\ arrived < NumProcs /\ StackTop = q /\ q \in Procs /\ q > arrived
      /\ arrived' = q /\ waitingP' = Append(waitingP, q)
      /\ pc' = [pc EXCEPT ![q] = "lock"] /\ pc \in [Procs -> {"new", "lock", "run", "return", "signal", "end"}]
      /\ UNCHANGED <<stage, runningPro, n, ready, CPU, open, dt, firstTime, ctx_changes, dt0, missed>>
  <2>1. arrived \in Nat /\ arrived <= NumProcs
    BY DEF TypeOK
  <2>2. arrived < NumProcs /\ StackTop = q /\ q \in Procs /\ q > arrived
    BY <2>1 DEF Admit, StackTop, Procs
  <2> HIDE DEF q
  <2>3. pc \in [Procs -> {"new", "lock", "run", "return", "signal", "end"}] /\ arrived' = q
    BY DEF Admit, TypeOK, q
  <2> QED BY <2>2, <2>3 DEF Admit
<1> HIDE DEF q
<1>2. pc[q] = "new" /\ q \notin Queued /\ ~open[q] /\ dt[q] = dt0[q] /\ \A c \in Cores : n[c] # q
  BY <1>1 DEF ThreadOK, QueueOK, TypeOK
<1>3. Queued' = Queued \union {q} /\ waitingP' \in Seq(Procs) /\ IsInjective(waitingP')
  BY <1>1, <1>2, AppendQueue DEF Queued, QueueOK, TypeOK
<1>4. \A p \in Procs : p # q => pc'[p] = pc[p]
  BY <1>1
<1>5. \A p \in Procs : Served(p)' <=> Served(p)
  BY <1>1, <1>2 DEF Served
<1>6. TypeOK'
  BY <1>1, <1>3 DEF TypeOK
<1>7. ServedOK'
  BY <1>1, <1>5 DEF ServedOK, TypeOK
<1>8. ThreadOK'
  <2>1. \A p \in Procs : p > arrived' <=> p > arrived /\ p # q
    BY <1>1 DEF TypeOK, Procs, q
  <2> QED BY <1>1, <1>2, <1>3, <1>4, <2>1 DEF ThreadOK
<1>9. QueueOK'
  <2>1. \A p \in Procs : p <= arrived' <=> p <= arrived \/ p = q
    BY <1>1 DEF TypeOK, Procs, q
  <2>2. dt[q] > 0 \/ dt0[q] = 0
    BY <1>1, <1>2 DEF TypeOK
  <2>3. pc'[q] = "lock" /\ ~Served(q)
    BY <1>1, <1>2 DEF Served
  <2>4. Queued \subseteq Procs
    BY QueueMember DEF TypeOK, Queued
  <2> QED BY <1>1, <1>2, <1>3, <1>4, <1>5, <2>1, <2>2, <2>3, <2>4 DEF QueueOK
<1>10. NobodyLost'
  <2>1. \A p \in Procs : p <= arrived' <=> p <= arrived \/ p = q
    BY <1>1 DEF TypeOK, Procs, q
  <2> QED BY <1>1, <1>3, <2>1 DEF NobodyLost
<1>11. PassOK'
  BY <1>1 DEF PassOK
<1> QED
  BY <1>6, <1>7, <1>8, <1>9, <1>10, <1>11

\* Where the scheduler goes after core c.
LEMMA NextStageFacts ==
    ASSUME NEW c \in Cores, NextStage(c)
    PROVE  /\ stage' \in {<<"serve", c + 1>>, <<"unlock", 0>>}
           /\ stage' \in {"test", "admit", "serve", "unlock", "wait", "waiting", "join", "done"}
                            \X (0 .. NumCPU)
           /\ stage'[1] = "serve" => stage'[2] \in Cores /\ stage'[2] = c + 1
           /\ stage'[1] # "serve" => c = NumCPU
           /\ stage'[1] \notin {"join", "done"}
<1> c \in Nat \ {0} /\ c <= NumCPU
  BY Constants DEF Cores
<1>1. CASE c < NumCPU
  <2>1. stage' = <<"serve", c + 1>> /\ c + 1 \in 1 .. NumCPU
    BY <1>1, Constants DEF NextStage, SchedGoes
  <2> QED BY <2>1 DEF Cores
<1>2. CASE ~(c < NumCPU)
  <2>1. stage' = <<"unlock", 0>> /\ c = NumCPU
    BY <1>2, Constants DEF NextStage, SchedGoes
  <2> QED BY <2>1, Constants
<1> QED BY <1>1, <1>2

\* Whom the scheduler gives core c, and who goes on waiting.
First(c) == Head(Requeued(c))
Rest(c) == Tail(Requeued(c))

\* What the scheduler does when it gives core c to the first of the queue.
LEMMA DispatchFacts ==
    ASSUME IInv, NEW c \in Cores, Dispatch(c)
    PROVE  /\ stage = <<"serve", c>> /\ ready[c] /\ NextStage(c) /\ runningPro' = runningPro + 1
           /\ n' = [n EXCEPT ![c] = First(c)] /\ ready' = [ready EXCEPT ![c] = FALSE]
           /\ CPU' = [CPU EXCEPT ![First(c)] = c] /\ open' = [open EXCEPT ![First(c)] = TRUE]
           /\ waitingP' = Rest(c) /\ ctx_changes' \in {ctx_changes, ctx_changes + 1}
           /\ arrived' = arrived /\ pc' = pc /\ dt' = dt /\ firstTime' = firstTime
           /\ dt0' = dt0 /\ missed' = missed
           /\ First(c) \in Procs /\ First(c) <= arrived /\ ~Served(First(c))
           /\ pc[First(c)] = "lock" \/ (pc[First(c)] = "signal" /\ dt[First(c)] > 0)
           /\ \A d \in Cores : d # c => n[d] # First(c)
           /\ Rest(c) \in Seq(Procs) /\ IsInjective(Rest(c)) /\ First(c) \notin ToSet(Rest(c))
           /\ ToSet(Rest(c)) \union {First(c)} =
                 Queued \union (IF n[c] # None /\ dt[n[c]] > 0 THEN {n[c]} ELSE {})
           /\ n[c] # None =>
                 /\ n[c] \in Procs /\ n[c] <= arrived /\ ~Served(n[c]) /\ n[c] \notin Queued
                 /\ \A d \in Cores : d # c => n[d] # n[c]
<1> DEFINE p == First(c)
           rest == Rest(c)
<1> USE Constants DEF IInv
<1>1. /\ stage = <<"serve", c>> /\ ready[c] /\ NextStage(c) /\ runningPro' = runningPro + 1
      /\ n' = [n EXCEPT ![c] = p] /\ ready' = [ready EXCEPT ![c] = FALSE]
      /\ CPU' = [CPU EXCEPT ![p] = c] /\ open' = [open EXCEPT ![p] = TRUE]
      /\ waitingP' = rest /\ ctx_changes' \in {ctx_changes, ctx_changes + 1}
      /\ arrived' = arrived /\ pc' = pc /\ dt' = dt /\ firstTime' = firstTime
      /\ dt0' = dt0 /\ missed' = missed
      /\ Requeued(c) # << >>
  BY DEF Dispatch, Available, Woken, Debugger, history, First, Rest
<1>2. /\ Requeued(c) \in Seq(Procs) /\ IsInjective(Requeued(c))
      /\ ToSet(Requeued(c)) =
            Queued \union (IF n[c] # None /\ dt[n[c]] > 0 THEN {n[c]} ELSE {})
      /\ n[c] # None => n[c] \in Procs /\ ~Served(n[c]) /\ n[c] \notin Queued
  BY <1>1, RequeuedFacts
<1>3. /\ p \in Procs /\ rest \in Seq(Procs) /\ IsInjective(rest) /\ p \notin ToSet(rest)
      /\ ToSet(Requeued(c)) = ToSet(rest) \union {p}
  BY <1>1, <1>2, TailQueue DEF First, Rest
<1>4. n[c] # None => n[c] <= arrived /\ pc[n[c]] # "new" /\ \A d \in Cores : d # c => n[d] # n[c]
  <2>1. n[c] # None => pc[n[c]] # "new"
    BY <1>2 DEF ThreadOK
  <2>2. n[c] # None => n[c] <= arrived
    BY <1>2, <2>1 DEF ThreadOK, TypeOK
  <2> QED BY <1>2, <2>1, <2>2 DEF ServedOK
<1>5. p \in Queued \/ (n[c] # None /\ p = n[c] /\ dt[p] > 0)
  BY <1>2, <1>3
<1>6. p <= arrived /\ ~Served(p) /\ pc[p] # "new" /\ \A d \in Cores : d # c => n[d] # p
  <2>1. CASE p \in Queued
    <3>1. p <= arrived /\ ~Served(p) /\ \A d \in Cores : n[d] # p
      BY <2>1, <1>3 DEF QueueOK
    <3> QED BY <3>1, <1>3 DEF ThreadOK, TypeOK
  <2>2. CASE n[c] # None /\ p = n[c] /\ dt[p] > 0
    BY <2>2, <1>2, <1>4
  <2> QED BY <1>5, <2>1, <2>2
<1>7. pc[p] = "lock" \/ (pc[p] = "signal" /\ dt[p] > 0)
  <2>1. dt[p] > 0 \/ pc[p] = "lock"
    BY <1>5 DEF QueueOK
  <2>2. dt[p] > 0 => pc[p] # "end"
    BY <1>3 DEF ThreadOK
  <2>3. pc[p] \in {"new", "lock", "run", "return", "signal", "end"}
    BY <1>3 DEF TypeOK
  <2> QED BY <1>6, <2>1, <2>2, <2>3 DEF Served
<1> QED
  BY <1>1, <1>2, <1>3, <1>4, <1>6, <1>7

LEMMA DispatchStep ==
    ASSUME IInv, NEW c \in Cores, Dispatch(c)
    PROVE  IInv'
<1> USE Constants DEF IInv
<1> DEFINE p == First(c)
           rest == Rest(c)
<1>1. /\ stage = <<"serve", c>> /\ ready[c] /\ NextStage(c) /\ runningPro' = runningPro + 1
      /\ n' = [n EXCEPT ![c] = p] /\ ready' = [ready EXCEPT ![c] = FALSE]
      /\ CPU' = [CPU EXCEPT ![p] = c] /\ open' = [open EXCEPT ![p] = TRUE]
      /\ waitingP' = rest /\ ctx_changes' \in {ctx_changes, ctx_changes + 1}
      /\ arrived' = arrived /\ pc' = pc /\ dt' = dt /\ firstTime' = firstTime
      /\ dt0' = dt0 /\ missed' = missed
  BY DispatchFacts
<1>2. /\ p \in Procs /\ p <= arrived /\ ~Served(p)
      /\ pc[p] = "lock" \/ (pc[p] = "signal" /\ dt[p] > 0)
      /\ \A d \in Cores : d # c => n[d] # p
      /\ rest \in Seq(Procs) /\ IsInjective(rest) /\ p \notin ToSet(rest)
      /\ ToSet(rest) \union {p} =
            Queued \union (IF n[c] # None /\ dt[n[c]] > 0 THEN {n[c]} ELSE {})
      /\ n[c] # None =>
            /\ n[c] \in Procs /\ n[c] <= arrived /\ ~Served(n[c]) /\ n[c] \notin Queued
            /\ \A d \in Cores : d # c => n[d] # n[c]
  BY DispatchFacts
<1> HIDE DEF p, rest
<1>3. Queued' = ToSet(rest)
  BY <1>1 DEF Queued
<1>4. /\ n'[c] = p /\ \A d \in Cores : d # c => n'[d] = n[d]
      /\ ~ready'[c] /\ \A d \in Cores : d # c => ready'[d] = ready[d]
      /\ CPU'[p] = c /\ \A x \in Procs : x # p => CPU'[x] = CPU[x]
      /\ open'[p] /\ \A x \in Procs : x # p => open'[x] = open[x]
  BY <1>1, <1>2 DEF TypeOK
<1>5. \A x \in Procs : Served(x)' <=> Served(x) \/ x = p
  BY <1>1, <1>4 DEF Served
<1>6. TypeOK'
  <2>1. /\ n' \in [Cores -> Procs \union {None}] /\ ready' \in [Cores -> BOOLEAN]
        /\ CPU' \in [Procs -> Cores \union {None}] /\ open' \in [Procs -> BOOLEAN]
    BY <1>1, <1>2 DEF TypeOK
  <2>2. ctx_changes' \in Nat
    BY <1>1 DEF TypeOK
  <2>3. runningPro' \in 0 .. NumCPU
    BY <1>1 DEF TypeOK, PassOK, Cores
  <2> QED BY <1>1, <1>2, <2>1, <2>2, <2>3, NextStageFacts DEF TypeOK
<1>7. ServedOK'
  BY <1>2, <1>4, <1>5 DEF ServedOK
<1>8. ThreadOK'
  BY <1>1, <1>2, <1>3, <1>4 DEF ThreadOK
<1>9. QueueOK'
  <2>1. ASSUME NEW x \in ToSet(rest)
        PROVE  /\ x \in Procs /\ x # p /\ x <= arrived /\ ~Served(x)
               /\ \A d \in Cores : d # c => n[d] # x
               /\ dt[x] > 0 \/ (dt0[x] = 0 /\ pc[x] = "lock")
    <3>1. x \in Procs /\ x # p
      BY <1>2, QueueMember
    <3>2. x \in Queued \/ (n[c] # None /\ dt[n[c]] > 0 /\ x = n[c])
      BY <1>2
    <3> QED BY <1>2, <3>1, <3>2 DEF QueueOK
  <2> QED BY <1>1, <1>2, <1>3, <1>4, <1>5, <2>1 DEF QueueOK
<1>10. NobodyLost'
  BY <1>1, <1>2, <1>3, <1>4 DEF NobodyLost
<1>11. PassOK'
  <2>1. runningPro \in Nat /\ runningPro < c /\ c \in Nat
    BY <1>1 DEF PassOK, TypeOK, Cores
  <2>2. runningPro' # 0 /\ runningPro' < c + 1
    BY <1>1, <2>1
  <2> QED BY <1>1, <2>2, NextStageFacts DEF PassOK
<1> QED
  BY <1>6, <1>7, <1>8, <1>9, <1>10, <1>11

\* Nobody waits for a core that is left ready.
LEMMA LeaveCoreFacts ==
    ASSUME IInv, NEW c \in Cores, LeaveCore(c)
    PROVE  /\ stage = <<"serve", c>> /\ NextStage(c)
           /\ n' = IF ready[c] THEN [n EXCEPT ![c] = None] ELSE n
           /\ runningPro' = IF ready[c] THEN runningPro ELSE runningPro + 1
           /\ arrived' = arrived /\ waitingP' = waitingP /\ ready' = ready /\ pc' = pc
           /\ CPU' = CPU /\ open' = open /\ dt' = dt /\ firstTime' = firstTime
           /\ ctx_changes' = ctx_changes /\ dt0' = dt0 /\ missed' = missed
           /\ ready[c] => /\ Requeued(c) = << >> /\ Queued = {}
                          /\ n[c] # None => n[c] \in Procs /\ dt[n[c]] = 0 /\ ~Served(n[c])
<1>1. /\ stage = <<"serve", c>> /\ NextStage(c) /\ ~Available(c)
      /\ n' = IF ready[c] THEN [n EXCEPT ![c] = None] ELSE n
      /\ runningPro' = IF ready[c] THEN runningPro ELSE runningPro + 1
      /\ arrived' = arrived /\ waitingP' = waitingP /\ ready' = ready /\ pc' = pc
      /\ CPU' = CPU /\ open' = open /\ dt' = dt /\ firstTime' = firstTime
      /\ ctx_changes' = ctx_changes /\ dt0' = dt0 /\ missed' = missed
  BY DEF LeaveCore, Node, history
<1>2. CASE ready[c]
  <2>1. Requeued(c) = << >>
    BY <1>1, <1>2 DEF Available
  <2>2. ToSet(Requeued(c)) = {}
    BY <2>1, <1>2, RequeuedFacts, QueueMember
  <2>3. /\ Queued = {} /\ ~(n[c] # None /\ dt[n[c]] > 0)
        /\ n[c] # None => n[c] \in Procs /\ ~Served(n[c])
    BY <1>2, <2>2, RequeuedFacts
  <2>4. n[c] # None => dt[n[c]] \in Nat
    BY <2>3 DEF IInv, TypeOK
  <2> QED BY <1>1, <2>1, <2>3, <2>4
<1> QED
  BY <1>1, <1>2

LEMMA LeaveCoreStep ==
    ASSUME IInv, NEW c \in Cores, LeaveCore(c)
    PROVE  IInv'
<1> USE Constants DEF IInv
<1>1. /\ stage = <<"serve", c>> /\ NextStage(c)
      /\ n' = IF ready[c] THEN [n EXCEPT ![c] = None] ELSE n
      /\ runningPro' = IF ready[c] THEN runningPro ELSE runningPro + 1
      /\ arrived' = arrived /\ waitingP' = waitingP /\ ready' = ready /\ pc' = pc
      /\ CPU' = CPU /\ open' = open /\ dt' = dt /\ firstTime' = firstTime
      /\ ctx_changes' = ctx_changes /\ dt0' = dt0 /\ missed' = missed
      /\ ready[c] => /\ Requeued(c) = << >> /\ Queued = {}
                     /\ n[c] # None => n[c] \in Procs /\ dt[n[c]] = 0 /\ ~Served(n[c])
  BY LeaveCoreFacts
<1>2. runningPro \in Nat /\ runningPro < c /\ c \in Nat
  BY <1>1 DEF PassOK, TypeOK, Cores
<1>3. Queued' = Queued /\ \A p : Served(p)' = Served(p)
  BY <1>1 DEF Queued, Served
<1>4. TypeOK'
  <2>1. n' \in [Cores -> Procs \union {None}] /\ runningPro' \in 0 .. NumCPU
    BY <1>1, <1>2 DEF TypeOK, Cores
  <2> QED BY <1>1, <2>1, NextStageFacts DEF TypeOK
<1>5. CASE ready[c]
  <2>1. n'[c] = None /\ \A d \in Cores : d # c => n'[d] = n[d]
    BY <1>1, <1>5 DEF TypeOK
  <2>2. ServedOK'
    BY <1>1, <1>3, <1>5, <2>1 DEF ServedOK
  <2>3. ThreadOK'
    BY <1>1, <1>3, <2>1 DEF ThreadOK
  <2>4. QueueOK' /\ NobodyLost'
    BY <1>1, <1>3, <1>5, <2>1 DEF QueueOK, NobodyLost
  <2>5. PassOK'
    <3>1. \A d \in Cores : d < c + 1 => d < c \/ d = c
      BY <1>2 DEF Cores
    <3>2. \A d \in Cores : d < c \/ d = c \/ c < d
      BY <1>2 DEF Cores
    <3>3. c = NumCPU => \A d \in Cores : ~(c < d)
      BY DEF Cores
    <3>4. runningPro' < c + 1 /\ runningPro' = runningPro
      BY <1>1, <1>2, <1>5
    <3>5. stage'[1] = "serve" => stage'[2] \in Cores /\ stage'[2] = c + 1
      BY <1>1, NextStageFacts
    <3>6. stage'[1] # "serve" => c = NumCPU
      BY <1>1, NextStageFacts
    <3>7. stage'[1] \notin {"join", "done"}
      BY <1>1, NextStageFacts
    <3>8. runningPro = 0 => \A d \in Cores : d < c => n[d] = None
      BY <1>1 DEF PassOK
    <3>9. runningPro' = 0 => \A d \in Cores : (stage'[1] = "serve" => d < stage'[2]) => n'[d] = None
      BY <2>1, <3>1, <3>2, <3>3, <3>4, <3>5, <3>6, <3>8
    <3> QED BY <3>4, <3>5, <3>7, <3>9 DEF PassOK
  <2> QED BY <1>4, <2>2, <2>3, <2>4, <2>5
<1>6. CASE ~ready[c]
  <2>1. PassOK'
    <3>1. runningPro' # 0 /\ runningPro' < c + 1
      BY <1>1, <1>2, <1>6
    <3> QED BY <1>1, <3>1, NextStageFacts DEF PassOK
  <2>2. UNCHANGED <<arrived, waitingP, Core, pc, Node, dt0>>
    BY <1>1, <1>6 DEF Core, Node
  <2> QED BY <1>4, <2>1, <2>2, StageStep
<1> QED
  BY <1>5, <1>6

-----------------------------------------------------------------------------
(* The steps of a process *)

LEMMA LockStep ==
    ASSUME IInv, NEW p \in Procs, Lock(p)
    PROVE  IInv'
<1> USE Constants DEF IInv
<1>1. /\ pc[p] = "lock" /\ open[p] /\ open' = [open EXCEPT ![p] = FALSE]
      /\ firstTime' = [firstTime EXCEPT ![p] = FALSE] /\ pc' = [pc EXCEPT ![p] = "run"]
      /\ stage' = stage /\ arrived' = arrived /\ waitingP' = waitingP /\ runningPro' = runningPro
      /\ n' = n /\ ctx_changes' = ctx_changes /\ ready' = ready /\ CPU' = CPU /\ dt' = dt
      /\ dt0' = dt0 /\ missed' = missed
  BY DEF Lock, Goes, schedVars, history
<1>2. /\ pc'[p] = "run" /\ \A q \in Procs : q # p => pc'[q] = pc[q]
      /\ ~open'[p] /\ \A q \in Procs : q # p => open'[q] = open[q]
  BY <1>1 DEF TypeOK
<1>3. Queued' = Queued /\ \A q \in Procs : Served(q)' <=> Served(q)
  BY <1>1, <1>2 DEF Queued, Served
<1>4. p \notin Queued
  BY <1>1 DEF QueueOK, Served
<1>5. TypeOK'
  <2>1. /\ open' \in [Procs -> BOOLEAN] /\ firstTime' \in [Procs -> BOOLEAN]
        /\ pc' \in [Procs -> {"new", "lock", "run", "return", "signal", "end"}]
    BY <1>1 DEF TypeOK
  <2> QED BY <1>1, <2>1 DEF TypeOK
<1>6. ServedOK'
  BY <1>1, <1>3 DEF ServedOK
<1>7. ThreadOK'
  BY <1>1, <1>2, <1>3 DEF ThreadOK
<1>8. QueueOK' /\ NobodyLost' /\ PassOK'
  <2> Queued \subseteq Procs
    BY QueueMember DEF TypeOK, Queued
  <2> QED BY <1>1, <1>2, <1>3, <1>4 DEF QueueOK, NobodyLost, PassOK
<1> QED
  BY <1>5, <1>6, <1>7, <1>8

LEMMA SleepStep ==
    ASSUME IInv, NEW p \in Procs, Sleep(p)
    PROVE  IInv'
<1> USE Constants DEF IInv
<1>1. PICK l \in 0 .. dt[p] : (dt[p] > 0 => l < dt[p]) /\ dt' = [dt EXCEPT ![p] = l]
  BY DEF Sleep
<1>2. /\ pc[p] = "run" /\ pc' = [pc EXCEPT ![p] = "return"]
      /\ stage' = stage /\ arrived' = arrived /\ waitingP' = waitingP /\ runningPro' = runningPro
      /\ n' = n /\ ctx_changes' = ctx_changes /\ ready' = ready /\ CPU' = CPU /\ open' = open
      /\ firstTime' = firstTime /\ dt0' = dt0 /\ missed' = missed
  BY DEF Sleep, Goes, schedVars, history
<1>3. /\ pc'[p] = "return" /\ \A q \in Procs : q # p => pc'[q] = pc[q]
      /\ \A q \in Procs : q # p => dt'[q] = dt[q]
  BY <1>1, <1>2 DEF TypeOK
<1>4. Queued' = Queued /\ \A q \in Procs : Served(q)' <=> Served(q)
  BY <1>2, <1>3 DEF Queued, Served
<1>5. p \notin Queued /\ n[CPU[p]] = p /\ CPU[p] \in Cores /\ ~open[p]
  BY <1>2 DEF QueueOK, Served, ServedOK, ThreadOK
<1>6. TypeOK'
  <2>1. pc' \in [Procs -> {"new", "lock", "run", "return", "signal", "end"}]
    BY <1>2 DEF TypeOK
  <2>2. dt[p] \in 0 .. MaxQuanta /\ dt \in [Procs -> 0 .. MaxQuanta]
    BY DEF TypeOK
  <2>3. l \in 0 .. MaxQuanta
    BY <2>2
  <2>4. dt' \in [Procs -> 0 .. MaxQuanta]
    BY <1>1, <2>2, <2>3
  <2> QED BY <1>2, <2>1, <2>4 DEF TypeOK
<1>7. ServedOK'
  BY <1>2, <1>4 DEF ServedOK
<1>8. ThreadOK'
  BY <1>2, <1>3, <1>4, <1>5 DEF ThreadOK
<1>9. QueueOK' /\ NobodyLost' /\ PassOK'
  <2> Queued \subseteq Procs
    BY QueueMember DEF TypeOK, Queued
  <2> QED BY <1>2, <1>3, <1>4, <1>5 DEF QueueOK, NobodyLost, PassOK
<1> QED
  BY <1>6, <1>7, <1>8, <1>9

LEMMA ReturnStep ==
    ASSUME IInv, NEW p \in Procs, Return(p)
    PROVE  IInv'
<1> USE Constants DEF IInv
<1>1. /\ pc[p] = "return" /\ stage[1] \notin {"serve", "unlock"}
      /\ ready' = [ready EXCEPT ![CPU[p]] = TRUE] /\ pc' = [pc EXCEPT ![p] = "signal"]
      /\ stage' = stage /\ arrived' = arrived /\ waitingP' = waitingP /\ runningPro' = runningPro
      /\ n' = n /\ ctx_changes' = ctx_changes /\ CPU' = CPU /\ open' = open /\ dt' = dt
      /\ firstTime' = firstTime /\ dt0' = dt0 /\ missed' = missed
  BY DEF Return, Goes, schedVars, history
<1>2. p \notin Queued /\ n[CPU[p]] = p /\ CPU[p] \in Cores /\ ~open[p]
  BY <1>1 DEF QueueOK, Served, ServedOK, ThreadOK
<1>3. /\ pc'[p] = "signal" /\ \A q \in Procs : q # p => pc'[q] = pc[q]
      /\ ready'[CPU[p]] /\ \A c \in Cores : c # CPU[p] => ready'[c] = ready[c]
  BY <1>1, <1>2 DEF TypeOK
<1>4. Queued' = Queued /\ \A q \in Procs : Served(q)' <=> Served(q) /\ q # p
  BY <1>1, <1>2, <1>3 DEF Queued, Served
<1>5. TypeOK'
  <2>1. /\ pc' \in [Procs -> {"new", "lock", "run", "return", "signal", "end"}]
        /\ ready' \in [Cores -> BOOLEAN]
    BY <1>1 DEF TypeOK
  <2> QED BY <1>1, <2>1 DEF TypeOK
<1>6. ServedOK'
  BY <1>1, <1>2, <1>3, <1>4 DEF ServedOK
<1>7. ThreadOK'
  BY <1>1, <1>2, <1>3, <1>4 DEF ThreadOK
<1>8. QueueOK' /\ NobodyLost' /\ PassOK'
  <2> Queued \subseteq Procs
    BY QueueMember DEF TypeOK, Queued
  <2> QED BY <1>1, <1>2, <1>3, <1>4 DEF QueueOK, NobodyLost, PassOK
<1> QED
  BY <1>5, <1>6, <1>7, <1>8

LEMMA SignalStep ==
    ASSUME IInv, NEW p \in Procs, Signal(p)
    PROVE  IInv'
<1> USE Constants DEF IInv
<1>1. /\ pc[p] = "signal" /\ pc' = [pc EXCEPT ![p] = IF dt[p] > 0 THEN "lock" ELSE "end"]
      /\ stage' = IF stage[1] = "waiting" THEN <<"test", 0>> ELSE stage
      /\ missed' \in BOOLEAN
      /\ arrived' = arrived /\ waitingP' = waitingP /\ runningPro' = runningPro
      /\ n' = n /\ ready' = ready /\ ctx_changes' = ctx_changes /\ CPU' = CPU /\ open' = open
      /\ dt' = dt /\ firstTime' = firstTime /\ dt0' = dt0
  BY DEF Signal, Goes, SchedGoes, Core, Node
<1>2. /\ dt[p] > 0 => pc'[p] = "lock"
      /\ ~(dt[p] > 0) => pc'[p] = "end" /\ dt[p] = 0
      /\ \A q \in Procs : q # p => pc'[q] = pc[q]
  BY <1>1 DEF TypeOK
<1>3. Queued' = Queued /\ \A q \in Procs : Served(q)' <=> Served(q)
  BY <1>1, <1>2 DEF Queued, Served
<1>4. TypeOK'
  <2>1. pc' \in [Procs -> {"new", "lock", "run", "return", "signal", "end"}]
    BY <1>1 DEF TypeOK
  <2>2. stage' \in {"test", "admit", "serve", "unlock", "wait", "waiting", "join", "done"}
                      \X (0 .. NumCPU)
    BY <1>1 DEF TypeOK
  <2> QED BY <1>1, <2>1, <2>2 DEF TypeOK
<1>5. ServedOK'
  BY <1>1, <1>3 DEF ServedOK
<1>6. ThreadOK'
  BY <1>1, <1>2, <1>3 DEF ThreadOK
<1>7. QueueOK'
  <2> Queued \subseteq Procs
    BY QueueMember DEF TypeOK, Queued
  <2> QED BY <1>1, <1>2, <1>3 DEF QueueOK
<1>8. NobodyLost' /\ PassOK'
  BY <1>1, <1>3 DEF NobodyLost, PassOK
<1> QED
  BY <1>4, <1>5, <1>6, <1>7, <1>8

-----------------------------------------------------------------------------
(* The invariant *)

LEMMA SleepNextOK == IInv /\ [SleepNext]_vars => IInv'
<1> SUFFICES ASSUME IInv, [SleepNext]_vars PROVE IInv'
  OBVIOUS
<1>1. CASE Scheduler
  BY <1>1, AdmitStep, DispatchStep, LeaveCoreStep, StageSteps DEF Scheduler
<1>2. CASE \E p \in Procs : Lock(p) \/ Sleep(p) \/ Return(p) \/ Signal(p)
  BY <1>2, LockStep, SleepStep, ReturnStep, SignalStep
<1>3. CASE WakeUp \/ Terminated \/ UNCHANGED vars
  BY <1>3, StageSteps
<1> QED
  BY <1>1, <1>2, <1>3 DEF SleepNext

\* A quantum is such a turn.
LEMMA RunIsSleep ==
    ASSUME TypeOK, NEW p \in Procs, Run(p)
    PROVE  Sleep(p)
<1>1. dt[p] \in Nat
  BY DEF TypeOK
<1>2. (IF dt[p] = 0 THEN 0 ELSE dt[p] - 1) \in 0 .. dt[p]
  BY <1>1
<1>3. dt[p] > 0 => (IF dt[p] = 0 THEN 0 ELSE dt[p] - 1) < dt[p]
  BY <1>1
<1> QED
  BY <1>2, <1>3 DEF Run, Sleep

LEMMA NextIsSleepNext == TypeOK /\ [Next]_vars => [SleepNext]_vars
BY RunIsSleep DEF Next, SleepNext, Process

LEMMA NextOK == IInv /\ [Next]_vars => IInv'
BY SleepNextOK, NextIsSleepNext DEF IInv

\* The inductive invariant, whatever the length of a turn.
THEOREM SleepInvariant == SleepSpec => []IInv
BY InitOK, SleepNextOK, PTL DEF SleepSpec

\* The inductive invariant of the round-robin scheduler.
THEOREM Invariant == Spec => []IInv
BY InitOK, NextOK, PTL DEF Spec

-----------------------------------------------------------------------------
(* What follows from it *)

LEMMA OnlyOneOf ==
    ASSUME NEW S, NEW x \in S, \A y \in S : y = x
    PROVE  Cardinality(S) = 1
<1>1. S = {x}
  OBVIOUS
<1> QED
  BY <1>1, FS_Singleton

LEMMA InPlaces ==
    ASSUME IInv, NEW p \in Procs
    PROVE  /\ Cardinality(CoresOf(p)) = IF CoresOf(p) = {} THEN 0 ELSE 1
           /\ LET I == {i \in DOMAIN waitingP : waitingP[i] = p}
              IN  /\ Cardinality(I) = IF p \in Queued THEN 1 ELSE 0
           /\ p \in Queued => CoresOf(p) = {}
<1> DEFINE I == {i \in DOMAIN waitingP : waitingP[i] = p}
<1>1. Cardinality(CoresOf(p)) = IF CoresOf(p) = {} THEN 0 ELSE 1
  <2>1. CASE CoresOf(p) = {}
    BY <2>1, FS_EmptySet
  <2>2. CASE CoresOf(p) # {}
    <3>1. PICK c \in CoresOf(p) : TRUE
      BY <2>2
    <3>2. \A d \in CoresOf(p) : d = c
      BY <3>1, Constants DEF IInv, ServedOK, CoresOf
    <3> QED BY <2>2, <3>1, <3>2, OnlyOneOf
  <2> QED BY <2>1, <2>2
<1>2. Cardinality(I) = IF p \in Queued THEN 1 ELSE 0
  <2>1. CASE p \in Queued
    <3>1. PICK i \in DOMAIN waitingP : waitingP[i] = p
      BY <2>1 DEF Queued, ToSet
    <3>2. i \in I /\ \A j \in I : j = i
      BY <3>1 DEF IInv, QueueOK, IsInjective
    <3> HIDE DEF I
    <3> QED BY <2>1, <3>2, OnlyOneOf
  <2>2. CASE p \notin Queued
    <3>1. I = {}
      BY <2>2 DEF Queued, ToSet
    <3> QED BY <2>2, <3>1, FS_EmptySet
  <2> QED BY <2>1, <2>2
<1>3. p \in Queued => CoresOf(p) = {}
  BY DEF IInv, QueueOK, CoresOf
<1> QED
  BY <1>1, <1>2, <1>3

LEMMA IInvNobodyLost == IInv => NobodyLostOrDoubled
<1> SUFFICES ASSUME IInv, NEW p \in Procs
             PROVE  LET places == Cardinality(CoresOf(p))
                                  + Cardinality({i \in DOMAIN waitingP : waitingP[i] = p})
                    IN  /\ places <= 1
                        /\ (p <= arrived /\ dt[p] > 0) => places = 1
                        /\ (dt[p] = 0 /\ dt0[p] > 0) => p \notin Queued
  BY DEF NobodyLostOrDoubled
<1>1. p <= arrived /\ dt[p] > 0 => p \in Queued \/ CoresOf(p) # {}
  BY DEF IInv, NobodyLost, CoresOf
<1>2. (dt[p] = 0 /\ dt0[p] > 0) => p \notin Queued
  BY DEF IInv, QueueOK
<1> QED
  BY <1>1, <1>2, InPlaces

LEMMA IInvRunsOnItsCore == IInv => RunsOnItsCore
BY DEF IInv, ServedOK, Served, RunsOnItsCore

\* The state of the scheduler stays well formed.
THEOREM TypeCorrect == Spec => []TypeOK
BY Invariant, PTL DEF IInv

\* Neither the pass over the cores nor a process that gives its core back
\* loses a process or gives it two places.
THEOREM NoneLostOrDoubled == Spec => []NobodyLostOrDoubled
BY Invariant, IInvNobodyLost, PTL

\* A process whose mutex was unlocked has, until it gives it back, the core it
\* was given.
THEOREM OnItsCore == Spec => []RunsOnItsCore
BY Invariant, IInvRunsOnItsCore, PTL

-----------------------------------------------------------------------------
(* The refinement of CoreScheduler *)

Phase == [c \in Cores |-> IF ready[c] THEN "free"
                          ELSE IF pc[n[c]] = "return" THEN "worked" ELSE "given"]

PromisedVars == <<1 .. arrived, waitingP, n, Phase, dt>>

LEMMA PhaseFacts ==
    /\ Phase = [c \in Cores |-> Phase[c]]
    /\ \A c \in Cores : /\ ready[c] => Phase[c] = "free"
                        /\ ~ready[c] /\ pc[n[c]] = "return" => Phase[c] = "worked"
                        /\ ~ready[c] /\ pc[n[c]] # "return" => Phase[c] = "given"
BY DEF Phase

LEMMA PhaseFactsNext ==
    /\ Phase' = [c \in Cores |-> Phase'[c]]
    /\ \A c \in Cores : /\ ready'[c] => Phase'[c] = "free"
                        /\ ~ready'[c] /\ pc'[n'[c]] = "return" => Phase'[c] = "worked"
                        /\ ~ready'[c] /\ pc'[n'[c]] # "return" => Phase'[c] = "given"
BY DEF Phase

\* A core whose state and whose process do not change stays in its phase.
LEMMA SamePhase ==
    ASSUME \A c \in Cores : /\ ready'[c] = ready[c]
                            /\ ~ready[c] => (pc'[n'[c]] = "return" <=> pc[n[c]] = "return")
    PROVE  Phase' = Phase
BY PhaseFacts, PhaseFactsNext

\* Core c goes from one phase to another, and every other one stays where it is.
LEMMA OnePhase ==
    ASSUME NEW c \in Cores, NEW s, Phase'[c] = s,
           \A d \in Cores \ {c} :
              /\ ready'[d] = ready[d]
              /\ ~ready[d] => (pc'[n'[d]] = "return" <=> pc[n[d]] = "return")
    PROVE  Phase' = [Phase EXCEPT ![c] = s]
BY PhaseFacts, PhaseFactsNext

LEMMA PromisedInit == Init => Promised!Init
<1> SUFFICES ASSUME Init PROVE Promised!Init
  OBVIOUS
<1>1. 1 .. arrived = {}
  BY DEF Init
<1>2. Phase = [c \in Cores |-> "free"]
  BY PhaseFacts DEF Init
<1>3. dt \in [Procs -> Nat]
  BY SchedulerAssumption DEF Init
<1> QED
  BY <1>1, <1>2, <1>3 DEF Init, Promised!Init, Phase

LEMMA PromisedEnter ==
    ASSUME IInv, Admit
    PROVE  \E p \in Procs : Promised!Enter(p)
<1> USE Constants DEF IInv
<1>1. arrived \in Nat /\ arrived < NumProcs
  BY DEF Admit, StackTop, TypeOK
<1>2. /\ arrived + 1 \in Procs /\ arrived + 1 \notin 1 .. arrived
      /\ 1 .. (arrived + 1) = (1 .. arrived) \union {arrived + 1}
      /\ arrived + 1 > arrived
  BY <1>1 DEF Procs
<1>3. /\ arrived' = arrived + 1 /\ waitingP' = Append(waitingP, arrived + 1)
      /\ pc' = [pc EXCEPT ![arrived + 1] = "lock"] /\ ready' = ready /\ n' = n /\ dt' = dt
  BY <1>1 DEF Admit, StackTop, Core, Node
<1>4. \A c \in Cores : n[c] # arrived + 1 /\ (~ready[c] => n[c] \in Procs)
  BY <1>2 DEF ThreadOK, ServedOK
<1>5. Phase' = Phase
  BY <1>3, <1>4, SamePhase DEF TypeOK
<1> QED
  BY <1>2, <1>3, <1>5 DEF Promised!Enter, Phase

LEMMA WaitingIsRequeued ==
    ASSUME NEW c \in Cores, ready[c]
    PROVE  Promised!Waiting(c) = Requeued(c)
BY DEF Promised!Waiting, Requeued

LEMMA PromisedGive ==
    ASSUME IInv, NEW c \in Cores, Dispatch(c)
    PROVE  Promised!Give(c)
<1> USE Constants DEF IInv
<1>1. /\ ready[c] /\ n' = [n EXCEPT ![c] = First(c)] /\ ready' = [ready EXCEPT ![c] = FALSE]
      /\ waitingP' = Rest(c) /\ arrived' = arrived /\ pc' = pc /\ dt' = dt
      /\ pc[First(c)] # "return"
  BY DispatchFacts DEF Served
<1>2. Requeued(c) # << >>
  BY DEF Dispatch, Available
<1>3. /\ n'[c] = First(c) /\ ~ready'[c]
      /\ \A d \in Cores \ {c} : n'[d] = n[d] /\ ready'[d] = ready[d]
  BY <1>1 DEF TypeOK
<1>4. Phase' = [Phase EXCEPT ![c] = "given"]
  <2>1. Phase'[c] = "given"
    BY <1>1, <1>3, PhaseFactsNext
  <2> QED BY <1>1, <1>3, <2>1, OnePhase
<1>5. Phase[c] = "free" /\ Promised!Waiting(c) = Requeued(c)
  BY <1>1, PhaseFacts, WaitingIsRequeued
<1> QED
  BY <1>1, <1>2, <1>4, <1>5 DEF Promised!Give, Phase, First, Rest

LEMMA PromisedEmpty ==
    ASSUME IInv, NEW c \in Cores, LeaveCore(c)
    PROVE  Promised!Empty(c) \/ UNCHANGED PromisedVars
<1> USE Constants DEF IInv
<1>1. /\ n' = IF ready[c] THEN [n EXCEPT ![c] = None] ELSE n
      /\ arrived' = arrived /\ waitingP' = waitingP /\ ready' = ready /\ pc' = pc /\ dt' = dt
      /\ ready[c] => Requeued(c) = << >>
  BY LeaveCoreFacts
<1>2. \A d \in Cores : ~ready[d] => n'[d] = n[d]
  BY <1>1 DEF TypeOK
<1>3. Phase' = Phase
  BY <1>1, <1>2, SamePhase
<1>4. CASE ready[c]
  <2>1. Phase[c] = "free" /\ Promised!Waiting(c) = << >>
    BY <1>1, <1>4, PhaseFacts, WaitingIsRequeued
  <2> QED BY <1>1, <1>3, <1>4, <2>1 DEF Promised!Empty, Phase
<1>5. CASE ~ready[c]
  BY <1>1, <1>3, <1>5 DEF PromisedVars
<1> QED
  BY <1>4, <1>5

LEMMA PromisedWork ==
    ASSUME IInv, NEW p \in Procs, Sleep(p)
    PROVE  \E c \in Cores : Promised!Work(c)
<1> USE Constants DEF IInv
<1>1. PICK l \in 0 .. dt[p] : (dt[p] > 0 => l < dt[p]) /\ dt' = [dt EXCEPT ![p] = l]
  BY DEF Sleep
<1>2. /\ pc[p] = "run" /\ pc' = [pc EXCEPT ![p] = "return"]
      /\ arrived' = arrived /\ waitingP' = waitingP /\ n' = n /\ ready' = ready
  BY DEF Sleep, Goes, schedVars
<1> DEFINE c == CPU[p]
<1>3. c \in Cores /\ n[c] = p /\ ~ready[c] /\ \A d \in Cores \ {c} : n[d] # p
  BY <1>2 DEF ServedOK, Served
<1> HIDE DEF c
<1>4. Phase[c] = "given"
  BY <1>2, <1>3, PhaseFacts
<1>5. pc'[p] = "return" /\ \A q \in Procs : q # p => pc'[q] = pc[q]
  BY <1>2 DEF TypeOK
<1>6. \A d \in Cores : ~ready[d] => n[d] \in Procs
  BY DEF ServedOK
<1>7. Phase' = [Phase EXCEPT ![c] = "worked"]
  <2>1. Phase'[c] = "worked"
    BY <1>2, <1>3, <1>5, PhaseFactsNext
  <2> QED BY <1>2, <1>3, <1>5, <1>6, <2>1, OnePhase
<1> QED
  BY <1>1, <1>2, <1>3, <1>4, <1>7 DEF Promised!Work, Phase

LEMMA PromisedRelease ==
    ASSUME IInv, NEW p \in Procs, Return(p)
    PROVE  \E c \in Cores : Promised!Release(c)
<1> USE Constants DEF IInv
<1>1. /\ pc[p] = "return" /\ ready' = [ready EXCEPT ![CPU[p]] = TRUE]
      /\ pc' = [pc EXCEPT ![p] = "signal"]
      /\ arrived' = arrived /\ waitingP' = waitingP /\ n' = n /\ dt' = dt
  BY DEF Return, Goes, schedVars
<1> DEFINE c == CPU[p]
<1>2. c \in Cores /\ n[c] = p /\ ~ready[c] /\ \A d \in Cores \ {c} : n[d] # p
  BY <1>1 DEF ServedOK, Served
<1>3. ready'[c] /\ \A d \in Cores \ {c} : ready'[d] = ready[d]
  BY <1>1, <1>2 DEF TypeOK
<1> HIDE DEF c
<1>4. Phase[c] = "worked"
  BY <1>1, <1>2, PhaseFacts
<1>5. \A q \in Procs : q # p => pc'[q] = pc[q]
  BY <1>1 DEF TypeOK
<1>6. \A d \in Cores : ~ready[d] => n[d] \in Procs
  BY DEF ServedOK
<1>7. Phase' = [Phase EXCEPT ![c] = "free"]
  <2>1. Phase'[c] = "free"
    BY <1>2, <1>3, PhaseFactsNext
  <2>2. \A d \in Cores \ {c} : ~ready[d] => pc'[n'[d]] = pc[n[d]]
    BY <1>1, <1>2, <1>5, <1>6
  <2> QED BY <1>2, <1>3, <2>1, <2>2, OnePhase
<1> QED
  BY <1>1, <1>2, <1>4, <1>7 DEF Promised!Release, Phase

\* The other steps of a process and of the scheduler leave cores, queue and
\* work as they are.
LEMMA PromisedStutter ==
    ASSUME IInv,
           \/ Test \/ StartPass \/ Unlock \/ Wait \/ WakeUp \/ Join \/ Terminated \/ UNCHANGED vars
           \/ \E p \in Procs : Lock(p) \/ Signal(p)
    PROVE  UNCHANGED PromisedVars
<1> USE Constants DEF IInv
<1>1. CASE Test \/ StartPass \/ Unlock \/ Wait \/ WakeUp \/ Join \/ Terminated \/ UNCHANGED vars
  <2>1. arrived' = arrived /\ waitingP' = waitingP /\ n' = n /\ ready' = ready /\ pc' = pc /\ dt' = dt
    BY <1>1 DEF Test, StartPass, Unlock, Wait, WakeUp, Join, Terminated, vars, otherVars, Core, Node
  <2> QED BY <2>1, SamePhase DEF PromisedVars
<1>2. ASSUME NEW p \in Procs, Lock(p) \/ Signal(p)
      PROVE  UNCHANGED PromisedVars
  <2>1. /\ arrived' = arrived /\ waitingP' = waitingP /\ n' = n /\ ready' = ready /\ dt' = dt
        /\ pc[p] # "return" /\ \E s \in {"run", "lock", "end"} : pc' = [pc EXCEPT ![p] = s]
    BY <1>2 DEF Lock, Signal, Goes, schedVars, Core, Node
  <2>2. \A q \in Procs : pc'[q] = "return" <=> pc[q] = "return"
    BY <2>1 DEF TypeOK
  <2>3. \A c \in Cores : ~ready[c] => n[c] \in Procs
    BY DEF ServedOK
  <2>4. Phase' = Phase
    BY <2>1, <2>2, <2>3, SamePhase
  <2> QED BY <2>1, <2>4 DEF PromisedVars
<1> QED
  BY <1>1, <1>2

LEMMA PromisedStep ==
    IInv /\ [SleepNext]_vars => [Promised!Next]_(Promised!vars)
<1> SUFFICES ASSUME IInv, [SleepNext]_vars
             PROVE  Promised!Next \/ UNCHANGED Promised!vars
  OBVIOUS
<1>1. UNCHANGED PromisedVars => UNCHANGED Promised!vars
  BY DEF PromisedVars, Promised!vars, Phase
<1>2. CASE Scheduler
  BY <1>1, <1>2, PromisedEnter, PromisedGive, PromisedEmpty, PromisedStutter
     DEF Scheduler, Promised!Next
<1>3. CASE \E p \in Procs : Lock(p) \/ Sleep(p) \/ Return(p) \/ Signal(p)
  BY <1>1, <1>3, PromisedWork, PromisedRelease, PromisedStutter DEF Promised!Next
<1>4. CASE WakeUp \/ Terminated \/ UNCHANGED vars
  BY <1>1, <1>4, PromisedStutter
<1> QED
  BY <1>2, <1>3, <1>4 DEF SleepNext

\* The round-robin scheduler with its threads, mutexes and signals does what
\* CoreScheduler promises: no core is left empty while somebody waits, nobody
\* works on a core that is not its own or twice in a turn, none overtakes
\* another.
THEOREM KeepsPromise == Spec => RefinesCores
<1>1. Init => Promised!Init
  BY PromisedInit
<1>2. IInv /\ [Next]_vars => [Promised!Next]_(Promised!vars)
  BY PromisedStep, NextIsSleepNext DEF IInv
<1> QED
  BY <1>1, <1>2, Invariant, PTL DEF Spec, RefinesCores, Promised!Spec

-----------------------------------------------------------------------------
(* The context changes: here a turn is one quantum *)

\* The turns of p after its first one, so far.
Turns ==
    [p \in Procs |->
       IF firstTime[p] \/ dt0[p] = 0 THEN 0
       ELSE dt0[p] - dt[p] - (IF open[p] \/ pc[p] = "run" THEN 0 ELSE 1)]

TurnsOK ==
    /\ \A p \in Procs :
          /\ dt[p] <= dt0[p]
          /\ firstTime[p] => pc[p] \in {"new", "lock"} /\ dt[p] = dt0[p]
          /\ dt0[p] = 0 /\ pc[p] \in {"new", "lock"} => firstTime[p]
          /\ open[p] \/ pc[p] = "run" => dt[p] > 0 \/ dt0[p] = 0
    /\ ctx_changes = SumFunctionOnSet(Turns, Procs)

LEMMA TurnsInt ==
    TypeOK => \A p \in Procs :
                 /\ Turns[p] \in Int
                 /\ Turns[p] = IF firstTime[p] \/ dt0[p] = 0 THEN 0
                               ELSE dt0[p] - dt[p] - (IF open[p] \/ pc[p] = "run" THEN 0 ELSE 1)
<1> SUFFICES ASSUME TypeOK, NEW p \in Procs
             PROVE  /\ Turns[p] \in Int
                    /\ Turns[p] = IF firstTime[p] \/ dt0[p] = 0 THEN 0
                                  ELSE dt0[p] - dt[p] - (IF open[p] \/ pc[p] = "run" THEN 0 ELSE 1)
  OBVIOUS
<1>1. dt0[p] \in Int /\ dt[p] \in Int
  BY DEF TypeOK
<1>2. Turns[p] = IF firstTime[p] \/ dt0[p] = 0 THEN 0
                 ELSE dt0[p] - dt[p] - (IF open[p] \/ pc[p] = "run" THEN 0 ELSE 1)
  BY DEF Turns
<1> QED
  BY <1>1, <1>2

TurnsAreInt == \A p \in Procs : Turns[p] \in Int

LEMMA TurnsIntNext == TypeOK' => \A p \in Procs : Turns'[p] \in Int
<1>1. TypeOK => TurnsAreInt
  BY TurnsInt DEF TurnsAreInt
<1>2. TypeOK' => TurnsAreInt'
  BY <1>1, PTL
<1> QED
  BY <1>2 DEF TurnsAreInt

\* What the steps of one process p, or that concern only p, do to the sum.
LEMMA TurnsChange ==
    ASSUME TypeOK, TypeOK', NEW p \in Procs,
           \A q \in Procs \ {p} : Turns'[q] = Turns[q]
    PROVE  SumFunctionOnSet(Turns', Procs)
              = SumFunctionOnSet(Turns, Procs) - Turns[p] + Turns'[p]
<1>1. IsFiniteSet(Procs)
  BY FS_Interval, SchedulerAssumption DEF Procs
<1>2. \A q \in Procs : Turns[q] \in Int
  BY TurnsInt
<1>3. \A q \in Procs : Turns'[q] \in Int
  BY TurnsIntNext
<1> HIDE DEF Turns
<1> QED
  BY <1>1, <1>2, <1>3, SumChange

LEMMA SumTurnsInt ==
    ASSUME TypeOK
    PROVE  SumFunctionOnSet(Turns, Procs) \in Int
<1>1. IsFiniteSet(Procs)
  BY FS_Interval, SchedulerAssumption DEF Procs
<1> QED
  BY <1>1, TurnsInt, SumInt

\* A step of which the count of turns and that of the context changes say
\* nothing: no process begins or ends a turn.
LEMMA TurnsKept ==
    ASSUME TurnsOK,
           firstTime' = firstTime, dt0' = dt0, dt' = dt, open' = open, ctx_changes' = ctx_changes,
           \A p \in Procs :
              /\ pc'[p] = "run" <=> pc[p] = "run"
              /\ pc[p] \notin {"new", "lock"} =>
                    pc'[p] \notin {"new", "lock"} \/ dt[p] > 0
              /\ pc[p] \in {"new", "lock"} => pc'[p] \in {"new", "lock"}
           , \A p \in Procs : dt[p] \in Nat /\ dt0[p] \in Nat
    PROVE  TurnsOK'
<1>1. Turns' = Turns
  BY DEF Turns
<1>2. \A p \in Procs : dt0[p] = 0 => ~(dt[p] > 0)
  BY DEF TurnsOK
<1> HIDE DEF Turns
<1> QED
  BY <1>1, <1>2 DEF TurnsOK

LEMMA TurnsInit == Init => TurnsOK
<1> SUFFICES ASSUME Init PROVE TurnsOK
  OBVIOUS
<1> USE SchedulerAssumption DEF Init
<1>1. Turns = [p \in Procs |-> 0]
  BY DEF Turns
<1>2. IsFiniteSet(Procs)
  BY FS_Interval, Constants DEF Procs
<1>3. \A T \in SUBSET Procs : T \in {U \in SUBSET Procs : SumFunctionOnSet(Turns, U) = 0}
  <2> DEFINE G == {U \in SUBSET Procs : SumFunctionOnSet(Turns, U) = 0}
  <2>1. {} \in G
    BY SumStep, FS_EmptySet
  <2>2. ASSUME NEW T \in SUBSET Procs, NEW x \in Procs \ T, T \in G
        PROVE  T \union {x} \in G
    <3> DEFINE U == T \union {x}
    <3>1. IsFiniteSet(U) /\ x \in U /\ U \ {x} = T /\ U \in SUBSET Procs
      BY <1>2, <2>2, FS_Subset
    <3>2. \A y \in U : Turns[y] = 0 /\ Turns[y] \in Int
      BY <1>1, <3>1
    <3> HIDE DEF U
    <3>3. SumFunctionOnSet(Turns, U) = Turns[x] + SumFunctionOnSet(Turns, U \ {x})
      BY <3>1, <3>2, SumAdd
    <3>4. SumFunctionOnSet(Turns, T) = 0
      BY <2>2
    <3>5. SumFunctionOnSet(Turns, U) = 0
      <4>1. Turns[x] = 0
        BY <3>1, <3>2
      <4>2. SumFunctionOnSet(Turns, U \ {x}) = 0
        BY <3>1, <3>4
      <4> QED BY <3>3, <4>1, <4>2
    <3> QED BY <3>1, <3>5 DEF U
  <2> HIDE DEF G
  <2>3. \A T \in SUBSET Procs : T \in G
    BY <1>2, <2>1, <2>2, FiniteSetInduction
  <2> QED BY <2>3 DEF G
<1>4. SumFunctionOnSet(Turns, Procs) = 0
  BY <1>3
<1>5. \A p \in Procs : dt0[p] \in Nat
  OBVIOUS
<1> HIDE DEF Turns
<1> QED
  BY <1>4, <1>5 DEF TurnsOK

LEMMA TurnsDispatch ==
    ASSUME IInv, TurnsOK, NEW c \in Cores, Dispatch(c), TypeOK'
    PROVE  TurnsOK'
<1> DEFINE p == First(c)
<1>1. /\ open' = [open EXCEPT ![p] = TRUE] /\ pc' = pc /\ dt' = dt /\ firstTime' = firstTime
      /\ dt0' = dt0 /\ p \in Procs /\ ~Served(p)
      /\ pc[p] = "lock" \/ (pc[p] = "signal" /\ dt[p] > 0)
  BY DispatchFacts
<1>2. ctx_changes' = IF firstTime[p] THEN ctx_changes ELSE ctx_changes + 1
  BY DEF Dispatch, Debugger, First
<1> HIDE DEF p
<1>3. /\ open'[p] /\ ~open[p] /\ pc[p] # "run" /\ \A q \in Procs \ {p} : open'[q] = open[q]
      /\ pc[p] = "lock" => dt[p] > 0 \/ dt0[p] = 0
  <2>1. ~open[p] /\ pc[p] # "run"
    BY <1>1 DEF Served
  <2>2. pc[p] = "lock" => dt[p] > 0 \/ dt0[p] = 0
    BY <1>1, <2>1 DEF IInv, ThreadOK, QueueOK
  <2> QED BY <1>1, <2>1, <2>2 DEF IInv, TypeOK
<1>4. dt[p] \in Nat /\ dt0[p] \in Nat /\ ctx_changes \in Nat
  BY <1>1 DEF IInv, TypeOK
<1>5. \A q \in Procs \ {p} : Turns'[q] = Turns[q]
  BY <1>1, <1>3 DEF Turns
<1>6. firstTime[p] \/ dt0[p] # 0
  BY <1>1, <1>4 DEF TurnsOK
<1>7. Turns'[p] = IF firstTime[p] THEN Turns[p] ELSE Turns[p] + 1
  BY <1>1, <1>3, <1>4, <1>6 DEF Turns
<1>8. SumFunctionOnSet(Turns', Procs) = SumFunctionOnSet(Turns, Procs) - Turns[p] + Turns'[p]
  BY <1>1, <1>5, TurnsChange DEF IInv
<1>9. Turns[p] \in Int
  BY <1>1, TurnsInt DEF IInv
<1>10. SumFunctionOnSet(Turns', Procs) = ctx_changes'
  BY <1>2, <1>4, <1>7, <1>8, <1>9 DEF TurnsOK
<1>11. \A q \in Procs : open'[q] \/ pc'[q] = "run" => dt'[q] > 0 \/ dt0'[q] = 0
  BY <1>1, <1>3 DEF TurnsOK
<1> QED
  BY <1>1, <1>10, <1>11 DEF TurnsOK

LEMMA TurnsLock ==
    ASSUME IInv, TurnsOK, NEW p \in Procs, Lock(p)
    PROVE  TurnsOK'
<1>1. /\ pc[p] = "lock" /\ open[p] /\ open' = [open EXCEPT ![p] = FALSE]
      /\ firstTime' = [firstTime EXCEPT ![p] = FALSE] /\ pc' = [pc EXCEPT ![p] = "run"]
      /\ ctx_changes' = ctx_changes /\ dt' = dt /\ dt0' = dt0
  BY DEF Lock, Goes, schedVars, history
<1>2. /\ pc'[p] = "run" /\ ~open'[p] /\ ~firstTime'[p]
      /\ \A q \in Procs \ {p} : /\ pc'[q] = pc[q] /\ open'[q] = open[q]
                                /\ firstTime'[q] = firstTime[q]
  BY <1>1 DEF IInv, TypeOK
<1>3. dt[p] \in Nat /\ dt0[p] \in Nat
  BY DEF IInv, TypeOK
<1>4. \A q \in Procs : IF firstTime'[q] \/ dt0'[q] = 0 THEN firstTime[q] \/ dt0[q] = 0
                       ELSE \/ ~firstTime[q] /\ (open[q] \/ pc[q] = "run" <=> open'[q] \/ pc'[q] = "run")
                            \/ q = p /\ dt[p] = dt0[p]
  BY <1>1, <1>2 DEF TurnsOK
<1>5. Turns' = Turns
  <2>1. ASSUME NEW q \in Procs PROVE Turns'[q] = Turns[q]
    BY <1>1, <1>2, <1>3 DEF Turns, TurnsOK
  <2> QED BY <2>1 DEF Turns
<1>6. dt[p] > 0 \/ dt0[p] = 0
  BY <1>1 DEF TurnsOK
<1> HIDE DEF Turns
<1> QED
  BY <1>1, <1>2, <1>5, <1>6 DEF TurnsOK

LEMMA TurnsRun ==
    ASSUME IInv, TurnsOK, NEW p \in Procs, Run(p)
    PROVE  TurnsOK'
<1>1. /\ pc[p] = "run" /\ pc' = [pc EXCEPT ![p] = "return"]
      /\ dt' = [dt EXCEPT ![p] = IF dt[p] = 0 THEN 0 ELSE dt[p] - 1]
      /\ ctx_changes' = ctx_changes /\ open' = open /\ firstTime' = firstTime /\ dt0' = dt0
  BY DEF Run, Goes, schedVars, history
<1>2. /\ pc'[p] = "return" /\ ~open[p] /\ dt'[p] = IF dt[p] = 0 THEN 0 ELSE dt[p] - 1
      /\ \A q \in Procs \ {p} : pc'[q] = pc[q] /\ dt'[q] = dt[q]
  BY <1>1 DEF IInv, TypeOK, ThreadOK
<1>3. \A q \in Procs : dt[q] \in Nat /\ dt0[q] \in Nat
  BY DEF IInv, TypeOK
<1>4. dt[p] > 0 \/ dt0[p] = 0
  BY <1>1 DEF TurnsOK
<1>5. Turns' = Turns
  <2>1. ASSUME NEW q \in Procs PROVE Turns'[q] = Turns[q]
    <3>1. CASE q = p
      BY <1>1, <1>2, <1>3, <1>4, <3>1 DEF Turns
    <3>2. CASE q # p
      BY <1>1, <1>2, <3>2 DEF Turns
    <3> QED BY <3>1, <3>2
  <2> QED BY <2>1 DEF Turns
<1> HIDE DEF Turns
<1>6. \A q \in Procs : /\ dt'[q] <= dt0'[q]
                       /\ firstTime'[q] => pc'[q] \in {"new", "lock"} /\ dt'[q] = dt0'[q]
                       /\ dt0'[q] = 0 /\ pc'[q] \in {"new", "lock"} => firstTime'[q]
                       /\ open'[q] \/ pc'[q] = "run" => dt'[q] > 0 \/ dt0'[q] = 0
  <2> TAKE q \in Procs
  <2>1. CASE q = p
    BY <1>1, <1>2, <1>3, <2>1 DEF TurnsOK
  <2>2. CASE q # p
    BY <1>1, <1>2, <2>2 DEF TurnsOK
  <2> QED BY <2>1, <2>2
<1> QED
  BY <1>1, <1>5, <1>6 DEF TurnsOK

LEMMA TurnsNext == IInv /\ TurnsOK /\ [Next]_vars => TurnsOK'
<1> SUFFICES ASSUME IInv, TurnsOK, [Next]_vars PROVE TurnsOK'
  OBVIOUS
<1>1. IInv'
  BY NextOK
<1>2. \A p \in Procs : dt[p] \in Nat /\ dt0[p] \in Nat
  BY DEF IInv, TypeOK
<1> USE DEF Core, Node, history, schedVars
<1>3. CASE \/ Test \/ StartPass \/ Unlock \/ Wait \/ WakeUp \/ Join \/ Terminated \/ UNCHANGED vars
           \/ \E c \in Cores : LeaveCore(c)
  <2>1. /\ firstTime' = firstTime /\ dt0' = dt0 /\ dt' = dt /\ open' = open
        /\ ctx_changes' = ctx_changes /\ pc' = pc
    BY <1>3 DEF Test, StartPass, Unlock, Wait, WakeUp, Join, Terminated, vars, otherVars, LeaveCore
  <2> QED BY <1>2, <2>1, TurnsKept
<1>4. CASE Admit
  <2>1. /\ firstTime' = firstTime /\ dt0' = dt0 /\ dt' = dt /\ open' = open
        /\ ctx_changes' = ctx_changes
        /\ \E q \in Procs : pc[q] = "new" /\ pc' = [pc EXCEPT ![q] = "lock"]
    <3>1. arrived + 1 \in Procs /\ arrived + 1 > arrived /\ StackTop = arrived + 1
      BY <1>4, Constants DEF Admit, StackTop, IInv, TypeOK, Procs
    <3>2. pc[arrived + 1] = "new"
      BY <3>1 DEF IInv, ThreadOK
    <3> QED BY <1>4, <3>1, <3>2 DEF Admit
  <2>2. pc \in [Procs -> {"new", "lock", "run", "return", "signal", "end"}]
    BY DEF IInv, TypeOK
  <2> QED BY <1>2, <2>1, <2>2, TurnsKept
<1>5. ASSUME NEW c \in Cores, Dispatch(c) PROVE TurnsOK'
  BY <1>1, <1>5, TurnsDispatch DEF IInv
<1>6. ASSUME NEW p \in Procs, Return(p) \/ Signal(p) PROVE TurnsOK'
  <2>1. /\ firstTime' = firstTime /\ dt0' = dt0 /\ dt' = dt /\ open' = open
        /\ ctx_changes' = ctx_changes
        /\ \/ pc[p] = "return" /\ pc' = [pc EXCEPT ![p] = "signal"]
           \/ pc[p] = "signal" /\ pc' = [pc EXCEPT ![p] = IF dt[p] > 0 THEN "lock" ELSE "end"]
    BY <1>6 DEF Return, Signal, Goes
  <2>2. pc \in [Procs -> {"new", "lock", "run", "return", "signal", "end"}]
    BY DEF IInv, TypeOK
  <2> QED BY <1>2, <2>1, <2>2, TurnsKept
<1> QED
  BY <1>3, <1>4, <1>5, <1>6, TurnsLock, TurnsRun DEF Next, Scheduler, Process

\* Once the scheduler has left its loop everybody has had its turns.
LEMMA IInvLeaves == IInv /\ TurnsOK => LeavesWhenAllDone
<1> SUFFICES ASSUME IInv, TurnsOK, stage[1] \in {"join", "done"}
             PROVE  /\ \A p \in Procs : dt[p] = 0 /\ pc[p] \in {"signal", "end"}
                    /\ \A c \in Cores : ready[c]
                    /\ ctx_changes = SumFunctionOnSet(LaterTurns, Procs)
  BY DEF LeavesWhenAllDone
<1>1. waitingP = << >> /\ arrived = NumProcs /\ \A c \in Cores : n[c] = None
  BY DEF IInv, PassOK
<1>2. Queued = {}
  BY <1>1, QueueMember DEF Queued, IInv, TypeOK
<1>3. \A c \in Cores : ready[c]
  BY <1>1, Constants DEF IInv, ServedOK
<1>4. ASSUME NEW p \in Procs
      PROVE  dt[p] = 0 /\ pc[p] \in {"signal", "end"} /\ ~open[p] /\ dt0[p] \in Nat
  <2>1. p <= arrived /\ ~(p > arrived)
    BY <1>1, Constants
  <2>2. ~Served(p)
    BY <1>3 DEF IInv, ServedOK
  <2>3. dt[p] = 0
    <3>1. dt[p] \in Nat
      BY DEF IInv, TypeOK
    <3>2. ~(dt[p] > 0)
      BY <1>1, <1>2, <2>1, Constants DEF IInv, NobodyLost
    <3> QED BY <3>1, <3>2
  <2>4. pc[p] \notin {"new", "lock", "run", "return"}
    BY <1>2, <2>1, <2>2, <2>3 DEF IInv, ThreadOK, Served
  <2> QED BY <2>2, <2>3, <2>4 DEF IInv, TypeOK, Served
<1>5. \A p \in Procs : Turns[p] = LaterTurns[p]
  <2> TAKE p \in Procs
  <2>1. ~firstTime[p]
    BY <1>4 DEF TurnsOK
  <2>2. Turns[p] = IF dt0[p] = 0 THEN 0 ELSE dt0[p] - 1
    BY <1>4, <2>1 DEF Turns
  <2>3. Max({dt0[p], 1}) = IF dt0[p] = 0 THEN 1 ELSE dt0[p]
    BY <1>4 DEF Max
  <2> QED BY <1>4, <2>2, <2>3 DEF LaterTurns
<1>6. SumFunctionOnSet(Turns, Procs) = SumFunctionOnSet(LaterTurns, Procs)
  <2>1. IsFiniteSet(Procs)
    BY FS_Interval, Constants DEF Procs
  <2> QED BY <1>5, <2>1, SumSame
<1> QED
  BY <1>3, <1>4, <1>6 DEF TurnsOK

\* The main loop ends only when every process has done its work, and the
\* context changes it has counted are the later turns of all of them.
THEOREM LeavesLast == Spec => []LeavesWhenAllDone
<1>1. Init => IInv /\ TurnsOK
  BY InitOK, TurnsInit
<1>2. (IInv /\ TurnsOK) /\ [Next]_vars => (IInv /\ TurnsOK)'
  BY NextOK, TurnsNext
<1> QED
  BY <1>1, <1>2, IInvLeaves, PTL DEF Spec

-----------------------------------------------------------------------------
(* The priority scheduler. *)

Nodes == Procs \union {None}
Links == [next : [Nodes -> Nodes], prev : [Nodes -> Nodes]]

PTypeOK ==
    /\ priority \in [Procs -> Nat]
    /\ count \in Nat /\ avg \in Int /\ var \in Int
    /\ step \in 0 .. 3
    /\ seen \in [Procs -> {"unread", "even", "uneven", "avg"} \X Int]
    /\ links \in Links

StepOK == step > 0 => UpdateDue

\* The active processes once the update that is due is over.
Updated == IF Arriving THEN Active \union {Current} ELSE Active \ {Current}

\* Those that count is about.
Settled == IF step = 3 THEN Updated ELSE Active

\* avg and the second moment of the active processes of a set.
MeanOf(S, a) == /\ Cardinality(S) * a = SumFunctionOnSet(Addends, S)
                /\ S = {} => a = 0
MomentOf(S, m) == /\ Cardinality(S) * m = SumFunctionOnSet(Squares, S)
                  /\ S = {} => m = 0

StatsOK ==
    /\ count = Cardinality(Settled)
    /\ step \in {0, 1} => MeanOf(Active, avg)
    /\ step \in {2, 3} => MeanOf(Updated, avg)
    /\ step = 0 => MomentOf(Active, var + Square(avg))
    /\ step \in {1, 2} => MomentOf(Updated, var)
    /\ step = 3 => MomentOf(Updated, var + Square(avg))

\* The nodes in order, from the head of the queue to its head.
NodeAt(q, i) == IF i \in 1 .. Len(q) THEN q[i] ELSE None

RingOf(l, q) ==
    \A i \in 0 .. Len(q) : /\ l.prev[NodeAt(q, i)] = NodeAt(q, i + 1)
                           /\ l.next[NodeAt(q, i + 1)] = NodeAt(q, i)

PInv == IInv /\ PTypeOK /\ StepOK /\ StatsOK /\ RingOf(links, waitingP)

-----------------------------------------------------------------------------
(* The ring of nodes *)

\* What the nodes of a queue are, by their place.
LEMMA NodeFacts ==
    ASSUME NEW q \in Seq(Procs)
    PROVE  /\ Len(q) \in Nat
           /\ \A i \in 1 .. Len(q) : /\ NodeAt(q, i) = q[i] /\ NodeAt(q, i) \in Procs
                                     /\ NodeAt(q, i) # None /\ NodeAt(q, i) \in ToSet(q)
           /\ NodeAt(q, 0) = None /\ NodeAt(q, Len(q) + 1) = None
           /\ \A i \in 0 .. Len(q) + 1 : NodeAt(q, i) \in Nodes
           /\ IsInjective(q) =>
                 \A i, j \in 1 .. Len(q) : NodeAt(q, i) = NodeAt(q, j) => i = j
<1>1. Len(q) \in Nat /\ DOMAIN q = 1 .. Len(q)
  BY LenProperties
<1>2. \A i \in 1 .. Len(q) : /\ NodeAt(q, i) = q[i] /\ q[i] \in Procs
                             /\ q[i] # None /\ q[i] \in ToSet(q)
  BY <1>1, ElementOfSeq, Constants DEF NodeAt, ToSet
<1>3. NodeAt(q, 0) = None /\ NodeAt(q, Len(q) + 1) = None
  BY <1>1 DEF NodeAt
<1>4. \A i \in 0 .. Len(q) + 1 : NodeAt(q, i) \in Nodes
  BY <1>1, <1>2 DEF NodeAt, Nodes
<1>5. IsInjective(q) => \A i, j \in 1 .. Len(q) : NodeAt(q, i) = NodeAt(q, j) => i = j
  BY <1>1, <1>2 DEF IsInjective
<1> QED
  BY <1>1, <1>2, <1>3, <1>4, <1>5

\* queue_add keeps the ring: the node goes in before the head.
LEMMA AddedRing ==
    ASSUME NEW q \in Seq(Procs), IsInjective(q), NEW p \in Procs, p \notin ToSet(q),
           NEW l \in Links, RingOf(l, q)
    PROVE  Added(l, p) \in Links /\ RingOf(Added(l, p), Append(q, p))
<1> DEFINE L == Len(q)
           r == Append(q, p)
           m == Added(l, p)
<1>1. L \in Nat /\ r \in Seq(Procs) /\ Len(r) = L + 1 /\ r[L + 1] = p
      /\ \A i \in 1 .. L : r[i] = q[i]
  BY AppendProperties, LenProperties
<1>2. /\ \A i \in 1 .. L : NodeAt(q, i) \in Procs /\ NodeAt(q, i) # None /\ NodeAt(q, i) \in ToSet(q)
      /\ NodeAt(q, 0) = None /\ NodeAt(q, L + 1) = None
      /\ \A i \in 0 .. L + 1 : NodeAt(q, i) \in Nodes
      /\ \A i, j \in 1 .. L : NodeAt(q, i) = NodeAt(q, j) => i = j
  BY NodeFacts
<1>3. /\ \A i \in 0 .. L : NodeAt(r, i) = NodeAt(q, i)
      /\ NodeAt(r, L + 1) = p /\ NodeAt(r, L + 2) = None
  BY <1>1 DEF NodeAt
<1>4. /\ l.next \in [Nodes -> Nodes] /\ l.prev \in [Nodes -> Nodes]
      /\ p \in Nodes /\ None \in Nodes /\ p # None
      /\ l.next[None] \in Nodes
  BY Constants DEF Links, Nodes
<1> HIDE DEF L, r
<1>5. \A i \in 0 .. L : l.prev[NodeAt(q, i)] = NodeAt(q, i + 1) /\ l.next[NodeAt(q, i + 1)] = NodeAt(q, i)
  BY DEF RingOf, L
<1>6. l.next[None] = NodeAt(q, L)
  BY <1>1, <1>2, <1>5
<1>7. /\ m.next = [l.next EXCEPT ![p] = l.next[None], ![None] = p]
      /\ m.prev = [l.prev EXCEPT ![p] = None, ![l.next[None]] = p]
      /\ m \in Links
  BY <1>4 DEF Added, Links
<1> HIDE DEF m
<1>8. /\ m.next[None] = p /\ m.next[p] = l.next[None]
      /\ \A x \in Nodes : x # p /\ x # None => m.next[x] = l.next[x]
  BY <1>4, <1>7
<1>9. p # l.next[None]
  BY <1>1, <1>2, <1>4, <1>6
<1>10. /\ m.prev[p] = None /\ m.prev[l.next[None]] = p
       /\ \A x \in Nodes : x # p /\ x # l.next[None] => m.prev[x] = l.prev[x]
  BY <1>4, <1>7, <1>9
<1>11. ASSUME NEW i \in 0 .. L + 1
       PROVE  m.prev[NodeAt(r, i)] = NodeAt(r, i + 1) /\ m.next[NodeAt(r, i + 1)] = NodeAt(r, i)
  <2>1. CASE i < L
    <3>1. i \in 0 .. L /\ i + 1 \in 1 .. L /\ L # 0 /\ L \in 1 .. L
      BY <1>1, <2>1
    <3>2. NodeAt(q, i) # NodeAt(q, L) /\ NodeAt(q, i) # p /\ NodeAt(q, i) \in Nodes
      <4>1. CASE i = 0
        BY <1>2, <1>4, <3>1, <4>1
      <4>2. CASE i # 0
        <5>1. i \in 1 .. L /\ i # L
          BY <2>1, <3>1, <4>2
        <5> QED BY <1>2, <1>4, <3>1, <5>1
      <4> QED BY <4>1, <4>2
    <3>3. NodeAt(q, i + 1) # p /\ NodeAt(q, i + 1) # None /\ NodeAt(q, i + 1) \in Nodes
      BY <1>2, <3>1 DEF Nodes
    <3>4. NodeAt(r, i) = NodeAt(q, i) /\ NodeAt(r, i + 1) = NodeAt(q, i + 1)
      BY <1>1, <1>3, <3>1
    <3> QED BY <1>5, <1>6, <1>8, <1>10, <3>1, <3>2, <3>3, <3>4
  <2>2. CASE i = L
    <3>1. NodeAt(r, i) = NodeAt(q, L) /\ NodeAt(r, i + 1) = p
      BY <1>1, <1>3, <2>2
    <3> QED BY <1>6, <1>8, <1>10, <3>1
  <2>3. CASE i = L + 1
    <3>1. NodeAt(r, i) = p /\ NodeAt(r, i + 1) = None
      BY <1>1, <1>3, <2>3
    <3> QED BY <1>8, <1>10, <3>1
  <2> QED BY <1>1, <2>1, <2>2, <2>3
<1> QED
  BY <1>1, <1>7, <1>11 DEF RingOf, m, r

\* queue_remove keeps the ring: the node after the head goes out.
LEMMA RemovedRing ==
    ASSUME NEW q \in Seq(Procs), IsInjective(q), q # << >>,
           NEW l \in Links, RingOf(l, q)
    PROVE  Removed(l) \in Links /\ RingOf(Removed(l), Tail(q))
<1> DEFINE L == Len(q)
           r == Tail(q)
           m == Removed(l)
           p == q[1]
<1>1. /\ L \in Nat \ {0} /\ r \in Seq(Procs) /\ Len(r) = L - 1
      /\ \A i \in 1 .. L - 1 : r[i] = q[i + 1]
  BY HeadTailProperties, LenProperties, EmptySeq
<1>2. /\ \A i \in 1 .. L : NodeAt(q, i) \in Procs /\ NodeAt(q, i) # None
      /\ NodeAt(q, 0) = None /\ NodeAt(q, L + 1) = None
      /\ \A i \in 0 .. L + 1 : NodeAt(q, i) \in Nodes
      /\ \A i, j \in 1 .. L : NodeAt(q, i) = NodeAt(q, j) => i = j
      /\ NodeAt(q, 1) = p
  BY <1>1, NodeFacts
<1>3. NodeAt(r, 0) = None /\ \A i \in 1 .. L : NodeAt(r, i) = NodeAt(q, i + 1)
  <2>1. NodeAt(r, 0) = None
    BY <1>1 DEF NodeAt
  <2> L \in Nat
    BY <1>1
  <2> HIDE DEF L, r
  <2>2. ASSUME NEW i \in 1 .. L PROVE NodeAt(r, i) = NodeAt(q, i + 1)
    <3>1. CASE i < L
      BY <1>1, <3>1 DEF NodeAt, L
    <3>2. CASE i = L
      <4>1. i \notin 1 .. Len(r)
        BY <1>1, <3>2
      <4>2. NodeAt(r, i) = None
        BY <4>1 DEF NodeAt
      <4> QED BY <1>2, <3>2, <4>2
    <3>3. i < L \/ i = L
      OBVIOUS
    <3> QED BY <3>1, <3>2, <3>3
  <2> QED BY <2>1, <2>2
<1>4. /\ l.next \in [Nodes -> Nodes] /\ l.prev \in [Nodes -> Nodes] /\ None \in Nodes
  BY Constants DEF Links, Nodes
<1> HIDE DEF L, r, p
<1>5. \A i \in 0 .. L : l.prev[NodeAt(q, i)] = NodeAt(q, i + 1) /\ l.next[NodeAt(q, i + 1)] = NodeAt(q, i)
  BY DEF RingOf, L
<1>6. p = l.prev[None] /\ p \in Nodes /\ p # None
  BY <1>1, <1>2, <1>5
<1> DEFINE s == NodeAt(q, 2)
<1>7. l.prev[p] = s /\ s \in Nodes /\ s # p
  <2>1. l.prev[p] = s
    BY <1>1, <1>2, <1>5
  <2>2. CASE L = 1
    BY <1>2, <1>6, <2>1, <2>2
  <2>3. CASE L > 1
    <3>1. 1 \in 1 .. L /\ 2 \in 1 .. L
      BY <1>1, <2>3
    <3> QED BY <1>2, <2>1, <3>1 DEF Nodes
  <2> QED BY <1>1, <2>2, <2>3
<1>8. /\ m.next = [l.next EXCEPT ![s] = None, ![p] = None]
      /\ m.prev = [l.prev EXCEPT ![None] = s, ![p] = None]
      /\ m \in Links
  BY <1>4, <1>6, <1>7 DEF Removed, Links
<1> HIDE DEF m, s
<1>9. /\ m.next[s] = None
      /\ \A x \in Nodes : x # p /\ x # s => m.next[x] = l.next[x]
      /\ m.prev[None] = s
      /\ \A x \in Nodes : x # p /\ x # None => m.prev[x] = l.prev[x]
  BY <1>4, <1>6, <1>7, <1>8
<1>10. ASSUME NEW i \in 0 .. L - 1
       PROVE  m.prev[NodeAt(r, i)] = NodeAt(r, i + 1) /\ m.next[NodeAt(r, i + 1)] = NodeAt(r, i)
  <2>1. CASE i = 0
    <3>1. NodeAt(r, i) = None /\ NodeAt(r, i + 1) = s
      BY <1>1, <1>3, <2>1 DEF s
    <3> QED BY <1>9, <3>1
  <2>2. CASE i > 0
    <3>1. i \in 1 .. L /\ i + 1 \in 1 .. L /\ i + 1 \in 0 .. L /\ i + 2 \in 1 .. L + 1
          /\ (i + 1) + 1 = i + 2 /\ 2 \in 1 .. L
      BY <1>1, <2>2
    <3>2. NodeAt(r, i) = NodeAt(q, i + 1) /\ NodeAt(r, i + 1) = NodeAt(q, i + 2)
      BY <1>3, <3>1
    <3>3. l.prev[NodeAt(q, i + 1)] = NodeAt(q, i + 2) /\ l.next[NodeAt(q, i + 2)] = NodeAt(q, i + 1)
      BY <1>5, <3>1
    <3>4. NodeAt(q, i + 1) # p /\ NodeAt(q, i + 1) # None /\ NodeAt(q, i + 1) \in Nodes
      <4>1. i + 1 # 1 /\ 1 \in 1 .. L
        BY <1>1, <2>2
      <4> QED BY <1>2, <3>1, <4>1 DEF Nodes
    <3>5. NodeAt(q, i + 2) # p /\ NodeAt(q, i + 2) # s /\ NodeAt(q, i + 2) \in Nodes
      <4>1. CASE i + 2 = L + 1
        BY <1>2, <1>6, <3>1, <4>1 DEF s, Nodes
      <4>2. CASE i + 2 # L + 1
        <5>1. i + 2 \in 1 .. L /\ i + 2 # 1 /\ i + 2 # 2 /\ 1 \in 1 .. L
          BY <1>1, <2>2, <3>1, <4>2
        <5> QED BY <1>2, <3>1, <5>1 DEF s, Nodes
      <4> QED BY <4>1, <4>2
    <3> QED BY <1>9, <3>2, <3>3, <3>4, <3>5
  <2> QED BY <1>1, <2>1, <2>2
<1> QED
  BY <1>1, <1>8, <1>10 DEF RingOf, m, r

-----------------------------------------------------------------------------
(* The length of a turn *)

LEMMA Squared == \A x \in Int : Square(x) \in Nat
BY DEF Square

\* It is at least one quantum, whatever was read of avg and var.
LEMMA QuantaPositive ==
    ASSUME NEW x \in Int, NEW a \in Int, NEW v \in Int
    PROVE  Quanta(x, a, v) \subseteq Nat \ {0}
<1> DEFINE distance == 81 * Square(x * Unit - a)
           K == {j \in 0 .. 9 : 16 * Square(j) * v <= distance}
           k == Max(K)
<1>1. distance \in Nat
  <2>1. x * Unit - a \in Int
    BY PriorityAssumption
  <2> QED BY <2>1, Squared
<1>2. 0 \in K
  <2>1. 16 * Square(0) * v = 0
    BY DEF Square
  <2> QED BY <1>1, <2>1
<1>3. IsFiniteSet(K) /\ K \subseteq Int
  <2>1. K \subseteq 0 .. 9 /\ K \subseteq Int
    OBVIOUS
  <2>2. \A b \in Nat : IsFiniteSet(0 .. b)
    BY FS_Interval
  <2>3. IsFiniteSet(0 .. 9)
    BY <2>2
  <2> HIDE DEF K
  <2> QED BY <2>1, <2>3, FS_Subset
<1>4. k \in 0 .. 9
  <2> HIDE DEF K
  <2>1. k \in K
    BY <1>2, <1>3, MaxIn
  <2> QED BY <2>1 DEF K
<1>5. Quanta(x, a, v) \subseteq (1 .. 10) \union {k + 1, k + 2}
  <2> HIDE DEF k
  <2> QED BY DEF Quanta, k
<1> HIDE DEF k
<1> QED
  BY <1>4, <1>5

-----------------------------------------------------------------------------
(* Steps that the round-robin scheduler knows *)

LEMMA TurnIsSleep ==
    ASSUME IInv, PTypeOK, NEW p \in Procs, RunQuantum(p)
    PROVE  Sleep(p)
<1>1. PICK q \in IF seen[p][1] = "even" THEN {1} ELSE Quanta(priority[p], seen[p][2], var) :
              dt' = [dt EXCEPT ![p] = IF dt[p] < q THEN 0 ELSE dt[p] - q]
  BY DEF RunQuantum
<1>2. priority[p] \in Int /\ seen[p][2] \in Int /\ var \in Int
  BY DEF PTypeOK
<1>3. q \in Nat \ {0}
  BY <1>1, <1>2, QuantaPositive
<1>4. dt[p] \in Nat
  BY DEF IInv, TypeOK
<1> DEFINE l == IF dt[p] < q THEN 0 ELSE dt[p] - q
<1>5. l \in 0 .. dt[p] /\ (dt[p] > 0 => l < dt[p])
  BY <1>3, <1>4
<1>6. /\ pc[p] = "run" /\ Goes(p, "return")
      /\ UNCHANGED <<schedVars, ready, CPU, open, firstTime, history>>
  BY DEF RunQuantum
<1> QED
  BY <1>1, <1>5, <1>6 DEF Sleep

LEMMA PNextIsSleepNext ==
    ASSUME IInv, PTypeOK, [PNext]_allVars
    PROVE  [SleepNext]_vars
<1>1. CASE PScheduler
  BY <1>1 DEF PScheduler, StoreMoment, StoreAverage, StoreVariance, AdmitCounted, StartPassOver,
              DispatchCore, SkipCore, SleepNext, Scheduler
<1>2. ASSUME NEW p \in Procs, PProcess(p) PROVE [SleepNext]_vars
  BY <1>2, TurnIsSleep DEF PProcess, LockAndTest, ReadAvg, SleepNext
<1>3. CASE (WakeUp \/ Terminated) /\ Unchanged
  BY <1>3 DEF SleepNext
<1>4. CASE UNCHANGED allVars
  BY <1>4 DEF allVars
<1> QED
  BY <1>1, <1>2, <1>3, <1>4 DEF PNext

-----------------------------------------------------------------------------
(* The active processes and the update that is due *)

LEMMA ActiveFacts ==
    ASSUME IInv
    PROVE  /\ Active \subseteq Procs /\ IsFiniteSet(Active) /\ IsFiniteSet(Procs)
           /\ \A p \in Active : p <= arrived
           /\ \A c \in Cores : n[c] # None => n[c] \in Active
<1> USE Constants DEF IInv
<1>1. IsFiniteSet(Procs)
  BY FS_Interval DEF Procs
<1>2. Queued \subseteq Procs
  BY QueueMember DEF Queued, TypeOK
<1>3. Active \subseteq Procs
  BY <1>2 DEF Active, TypeOK
<1>4. ASSUME NEW p \in Active PROVE p <= arrived
  <2>1. CASE p \in Queued
    BY <2>1 DEF QueueOK
  <2>2. CASE p \notin Queued
    <3>1. pc[p] # "new" /\ p \in Procs
      BY <1>3, <2>2 DEF Active, ThreadOK
    <3> QED BY <3>1 DEF ThreadOK, TypeOK
  <2> QED BY <2>1, <2>2
<1> QED
  BY <1>1, <1>3, <1>4, FS_Subset DEF Active

LEMMA SubsetFacts ==
    ASSUME NEW S \in SUBSET Procs
    PROVE  /\ IsFiniteSet(S) /\ Cardinality(S) \in Nat /\ Cardinality(S) <= NumProcs
           /\ S = {} <=> Cardinality(S) = 0
<1>1. NumProcs \in Nat
  BY Constants
<1>2. IsFiniteSet(Procs) /\ Cardinality(Procs) = NumProcs
  <2>1. \A b \in Nat : IsFiniteSet(1 .. b) /\ Cardinality(1 .. b) = b
    BY FS_Interval
  <2> QED BY <1>1, <2>1 DEF Procs
<1>3. IsFiniteSet(S) /\ Cardinality(S) <= Cardinality(Procs)
  BY <1>2, FS_Subset
<1>4. Cardinality(S) \in Nat
  BY <1>3, FS_CardinalityType
<1>5. S = {} <=> Cardinality(S) = 0
  BY <1>3, FS_EmptySet
<1> QED
  BY <1>2, <1>3, <1>4, <1>5

\* Whom an update is about, and how many are active after it.
LEMMA UpdatedFacts ==
    ASSUME IInv, UpdateDue
    PROVE  /\ stage[1] \in {"admit", "serve"}
           /\ Current \in Procs
           /\ Arriving => Current \notin Active /\ Change = 1
           /\ ~Arriving => Current \in Active /\ Change = -1
           /\ Updated \subseteq Procs /\ IsFiniteSet(Updated)
           /\ Cardinality(Active) \in Nat /\ Cardinality(Updated) \in Nat
           /\ Cardinality(Updated) = Cardinality(Active) + Change
           /\ Cardinality(Updated) <= NumProcs
           /\ Updated = {} <=> Cardinality(Updated) = 0
<1> USE Constants DEF IInv
<1>1. stage[1] \in {"admit", "serve"}
  BY DEF UpdateDue
<1>2. CASE Arriving
  <2>1. Current = arrived + 1 /\ Current \in Procs /\ ~(Current <= arrived) /\ Change = 1
    BY <1>2 DEF Arriving, Current, UpdateDue, StackTop, TypeOK, Procs, Change
  <2>2. Current \notin Active
    BY <2>1, ActiveFacts
  <2>3. Cardinality(Updated) = Cardinality(Active) + 1 /\ Updated = Active \union {Current}
    BY <1>2, <2>2, ActiveFacts, FS_AddElement DEF Updated
  <2>4. Updated \subseteq Procs
    BY <2>1, <2>3, ActiveFacts
  <2> QED BY <1>1, <1>2, <2>1, <2>2, <2>3, <2>4, SubsetFacts, ActiveFacts
<1>3. CASE ~Arriving
  <2>1. Current = n[stage[2]] /\ stage[2] \in Cores /\ Current # None /\ Change = -1
    BY <1>3 DEF Arriving, Current, UpdateDue, Finished, PassOK, Change
  <2>2. Current \in Active /\ Current \in Procs
    BY <2>1, ActiveFacts
  <2>3. Cardinality(Updated) = Cardinality(Active) - 1 /\ Updated = Active \ {Current}
    BY <1>3, <2>2, ActiveFacts, FS_RemoveElement DEF Updated
  <2>4. Updated \subseteq Procs
    BY <2>3, ActiveFacts
  <2> QED BY <1>1, <1>3, <2>1, <2>2, <2>3, <2>4, SubsetFacts, ActiveFacts
<1> QED
  BY <1>2, <1>3

LEMMA ProductOfSquares == \A x, y \in Int : Square(x * y) = Square(x) * Square(y)
BY DEF Square

\* What is added up are multiples of Unit and of its square: the sum over any
\* k processes is divisible by k.
LEMMA SumsDivide ==
    ASSUME NEW pr \in [Procs -> Nat], NEW f, NEW h,
           \A p \in Procs : f[p] = Unit * pr[p] /\ h[p] = Square(Unit * pr[p]),
           NEW S \in SUBSET Procs, S # {}
    PROVE  LET k == Cardinality(S) IN
           /\ k * (SumFunctionOnSet(f, S) \div k) = SumFunctionOnSet(f, S)
           /\ k * (SumFunctionOnSet(h, S) \div k) = SumFunctionOnSet(h, S)
<1> DEFINE k == Cardinality(S)
           m == Unit \div k
           g == [p \in Procs |-> Square(pr[p])]
<1>1. IsFiniteSet(S) /\ k \in Nat \ {0} /\ Unit \in Int /\ Unit = k * m /\ m \in Int
  <2>1. k \in 1 .. NumProcs /\ IsFiniteSet(S)
    BY Constants, SubsetFacts
  <2> HIDE DEF k
  <2> QED BY <2>1, PriorityAssumption, Divides
<1>2. \A p \in Procs : pr[p] \in Int /\ g[p] \in Int
  BY Squared
<1>3. \A z \in Int : (k * z) \div k = z
  BY <1>1, DivExact
<1> HIDE DEF k, m, g
<1>4. /\ SumFunctionOnSet(f, S) = Unit * SumFunctionOnSet(pr, S)
      /\ SumFunctionOnSet(pr, S) \in Int
  BY <1>1, <1>2, SumScale, SumInt
<1>5. /\ SumFunctionOnSet(h, S) = Square(Unit) * SumFunctionOnSet(g, S)
      /\ SumFunctionOnSet(g, S) \in Int
  <2>1. \A p \in S : g[p] \in Int /\ h[p] = Square(Unit) * g[p]
    BY <1>1, <1>2, ProductOfSquares DEF g
  <2>2. Square(Unit) \in Int
    BY <1>1, Squared
  <2> QED BY <1>1, <2>1, <2>2, SumScale, SumInt
<1>6. \A w \in Int : \E z \in Int : Unit * w = k * z
  <2> TAKE w \in Int
  <2>1. Unit * w = k * (m * w) /\ m * w \in Int
    BY <1>1
  <2> QED BY <2>1
<1>7. \A w \in Int : \E z \in Int : Square(Unit) * w = k * z
  <2> TAKE w \in Int
  <2>1. Square(Unit) * w = Unit * (Unit * w) /\ Unit * w \in Int
    BY <1>1 DEF Square
  <2> QED BY <1>6, <2>1
<1>8. PICK z \in Int : SumFunctionOnSet(f, S) = k * z
  BY <1>4, <1>6
<1>9. PICK y \in Int : SumFunctionOnSet(h, S) = k * y
  BY <1>5, <1>7
<1> QED
  BY <1>3, <1>8, <1>9 DEF k

\* The mean after an update is that of the processes active then, if it was
\* that of those active before and the division is exact.
LEMMA MeanMoves ==
    ASSUME IInv, UpdateDue, count = Cardinality(Active),
           NEW f, \A p \in Procs : f[p] \in Int,
           NEW old \in Int, count * old = SumFunctionOnSet(f, Active),
           Updated # {} => Cardinality(Updated) * (SumFunctionOnSet(f, Updated) \div Cardinality(Updated))
                              = SumFunctionOnSet(f, Updated)
    PROVE  /\ Mean(old, f[Current]) \in Int
           /\ Cardinality(Updated) * Mean(old, f[Current]) = SumFunctionOnSet(f, Updated)
           /\ Updated = {} => Mean(old, f[Current]) = 0
<1> DEFINE k == Cardinality(Updated)
           s == SumFunctionOnSet(f, Updated)
<1>1. /\ Current \in Procs /\ f[Current] \in Int
      /\ Active \subseteq Procs /\ Updated \subseteq Procs
      /\ IsFiniteSet(Active) /\ IsFiniteSet(Updated)
      /\ k \in Nat /\ (Updated = {} <=> k = 0) /\ k = count + Change
  BY UpdatedFacts, ActiveFacts
<1>2. \A p \in Active : f[p] \in Int
  BY <1>1
<1>3. \A p \in Updated : f[p] \in Int
  BY <1>1
<1>4. s \in Int /\ SumFunctionOnSet(f, Active) \in Int
  BY <1>1, <1>2, <1>3, SumInt
<1>5. s = SumFunctionOnSet(f, Active) + Change * f[Current]
  <2>1. CASE Arriving
    <3>1. Current \in Updated /\ Updated \ {Current} = Active /\ Change = 1
      BY <2>1, UpdatedFacts DEF Updated
    <3>2. s = f[Current] + SumFunctionOnSet(f, Updated \ {Current})
      BY <1>1, <1>3, <3>1, SumAdd
    <3>3. s = f[Current] + SumFunctionOnSet(f, Active)
      BY <3>1, <3>2
    <3> HIDE DEF s
    <3> QED BY <1>1, <1>4, <3>1, <3>3
  <2>2. CASE ~Arriving
    <3>1. Current \in Active /\ Updated = Active \ {Current} /\ Change = -1
      BY <2>2, UpdatedFacts DEF Updated
    <3>2. SumFunctionOnSet(f, Active) = f[Current] + SumFunctionOnSet(f, Active \ {Current})
      BY <1>1, <1>2, <3>1, SumAdd
    <3>3. SumFunctionOnSet(f, Active) = f[Current] + s
      BY <3>1, <3>2
    <3> HIDE DEF s
    <3> QED BY <1>1, <1>4, <3>1, <3>3
  <2> QED BY <2>1, <2>2
<1>6. Mean(old, f[Current]) = IF k = 0 THEN 0 ELSE s \div k
  BY <1>1, <1>5 DEF Mean
<1>7. Updated = {} => s = 0
  BY SumStep, FS_EmptySet
<1>8. Updated # {} => k * (s \div k) = s
  OBVIOUS
<1> HIDE DEF k, s
<1>9. k # 0 => s \div k \in Int
  BY <1>1, <1>4
<1> QED
  BY <1>1, <1>4, <1>6, <1>7, <1>8, <1>9 DEF k, s

-----------------------------------------------------------------------------
(* The statistics: every step keeps StatsOK *)

LEMMA PInitOK == PInit => PInv
<1> SUFFICES ASSUME PInit PROVE PInv
  OBVIOUS
<1> USE DEF PInit
<1>1. IInv /\ waitingP = << >> /\ Queued = {}
  BY InitOK, QueueMember DEF Init, IInv, TypeOK, Queued
<1>2. Active = {}
  BY <1>1 DEF Active, Init
<1>3. PTypeOK
  BY DEF PTypeOK, Unread, NewQueue, Links, Nodes, None
<1>4. MeanOf(Active, avg) /\ MomentOf(Active, var + Square(avg)) /\ count = Cardinality(Active)
  <2>1. Cardinality({}) = 0 /\ IsFiniteSet({})
    BY FS_EmptySet
  <2>2. SumFunctionOnSet(Addends, {}) = 0 /\ SumFunctionOnSet(Squares, {}) = 0
    BY <2>1, SumStep
  <2>3. var + Square(avg) = 0
    BY DEF Square
  <2> QED BY <1>2, <2>1, <2>2, <2>3 DEF MeanOf, MomentOf
<1>5. StepOK /\ StatsOK
  BY <1>4 DEF StepOK, StatsOK, Settled
<1>6. RingOf(links, waitingP)
  <2>1. Len(waitingP) = 0
    BY <1>1
  <2>2. NodeAt(waitingP, 0) = None /\ NodeAt(waitingP, 1) = None
    BY <2>1 DEF NodeAt
  <2> QED BY <2>1, <2>2 DEF RingOf, NewQueue, Nodes
<1> QED
  BY <1>1, <1>3, <1>5, <1>6 DEF PInv

\* A step that does not concern the statistics.
LEMMA StatsKept ==
    ASSUME PInv, arrived' = arrived, waitingP' = waitingP, n' = n,
           priority' = priority, count' = count, avg' = avg, var' = var, step' = step,
           links' = links,
           UpdateDue => /\ stage' = stage
                        /\ \A c \in Cores : Finished(c) /\ stage[1] = "serve" => Finished(c)'
    PROVE  StepOK' /\ StatsOK' /\ RingOf(links, waitingP)'
<1> USE DEF PInv
<1>1. Active' = Active
  BY DEF Active, Queued
<1>2. UpdateDue => UpdateDue' /\ Updated' = Updated
  <2> SUFFICES ASSUME UpdateDue PROVE UpdateDue' /\ Updated' = Updated
    OBVIOUS
  <2>1. stage' = stage
    OBVIOUS
  <2>2. stage[1] = "serve" => stage[2] \in Cores
    BY DEF IInv, PassOK
  <2>3. UpdateDue'
    BY <2>1, <2>2 DEF UpdateDue, StackTop
  <2>4. Arriving' = Arriving /\ Current' = Current
    BY <2>1 DEF Arriving, Current, StackTop
  <2> QED BY <1>1, <2>3, <2>4 DEF Updated
<1>3. StepOK' /\ (step > 0 => Updated' = Updated)
  BY <1>2 DEF StepOK
<1>4. Addends' = Addends /\ Squares' = Squares
  BY DEF Addends, Squares
<1>5. Settled' = Settled
  BY <1>1, <1>3 DEF Settled, PTypeOK
<1>6. /\ MeanOf(Active, avg)' <=> MeanOf(Active, avg)
      /\ MomentOf(Active, var + Square(avg))' <=> MomentOf(Active, var + Square(avg))
  BY <1>1, <1>4 DEF MeanOf, MomentOf
<1>7. step > 0 => /\ MeanOf(Updated, avg)' <=> MeanOf(Updated, avg)
                  /\ MomentOf(Updated, var)' <=> MomentOf(Updated, var)
                  /\ MomentOf(Updated, var + Square(avg))' <=> MomentOf(Updated, var + Square(avg))
  BY <1>3, <1>4 DEF MeanOf, MomentOf
<1>8. StatsOK'
  BY <1>5, <1>6, <1>7 DEF StatsOK, PTypeOK
<1> QED
  BY <1>3, <1>8 DEF RingOf

\* The end of an update, or a step of the scheduler without one.
LEMMA StatsSettled ==
    ASSUME PInv, step \in {0, 3}, step' = 0, Active' = Settled,
           priority' = priority, count' = count, avg' = avg, var' = var
    PROVE  StepOK' /\ StatsOK'
<1> USE DEF PInv
<1>1. Addends' = Addends /\ Squares' = Squares
  BY DEF Addends, Squares
<1>2. Settled' = Settled
  BY DEF Settled
<1>3. MeanOf(Settled, avg) /\ MomentOf(Settled, var + Square(avg))
  BY DEF StatsOK, Settled
<1>4. MeanOf(Active, avg)' /\ MomentOf(Active, var + Square(avg))'
  BY <1>1, <1>3 DEF MeanOf, MomentOf
<1> QED
  BY <1>2, <1>4 DEF StatsOK, StepOK

\* What the three assignments of an update leave alone.
LEMMA UpdateFrame ==
    ASSUME UNCHANGED vars
    PROVE  /\ Active' = Active /\ Updated' = Updated /\ (UpdateDue' <=> UpdateDue)
           /\ (Arriving' <=> Arriving) /\ Current' = Current
<1>1. /\ stage' = stage /\ arrived' = arrived /\ waitingP' = waitingP /\ n' = n /\ ready' = ready
      /\ dt' = dt
  BY DEF vars, otherVars, Core, Node
<1>2. Active' = Active
  BY <1>1 DEF Active, Queued
<1>3. (Arriving' <=> Arriving) /\ Current' = Current /\ (UpdateDue' <=> UpdateDue)
  BY <1>1 DEF Arriving, Current, UpdateDue, Finished, StackTop
<1> QED
  BY <1>2, <1>3 DEF Updated

LEMMA MomentStored ==
    ASSUME PInv, StoreMoment
    PROVE  PTypeOK' /\ StepOK' /\ StatsOK' /\ RingOf(links, waitingP)'
<1> USE DEF PInv
<1>1. PICK x \in IF Arriving THEN CalculatePriority ELSE {priority[Current]} :
         /\ priority' = [priority EXCEPT ![Current] = x]
         /\ var' = Mean(var + Square(avg), Square(Unit * x))
  BY DEF StoreMoment
<1>2. /\ UpdateDue /\ step = 0 /\ step' = 1 /\ UNCHANGED vars
      /\ count' = count /\ avg' = avg /\ seen' = seen /\ links' = links
  BY DEF StoreMoment
<1>3. waitingP' = waitingP
  BY <1>2 DEF vars, otherVars
<1>4. Current \in Procs /\ Active \subseteq Procs /\ Updated \subseteq Procs
      /\ (Arriving => Current \notin Active)
  BY <1>2, UpdatedFacts, ActiveFacts
<1>5. x \in Nat /\ priority \in [Procs -> Nat]
  BY <1>1, <1>4, PriorityAssumption DEF CalculatePriority, PTypeOK
<1>6. /\ priority' \in [Procs -> Nat] /\ priority'[Current] = x
      /\ \A p \in Active : priority'[p] = priority[p]
  <2>1. priority' \in [Procs -> Nat] /\ priority'[Current] = x
        /\ \A p \in Procs : p # Current => priority'[p] = priority[p]
    BY <1>1, <1>4, <1>5
  <2>2. ~Arriving => x = priority[Current]
    BY <1>1
  <2> QED BY <1>4, <2>1, <2>2
<1>7. /\ \A p \in Procs : Addends'[p] = Unit * priority'[p] /\ Squares'[p] = Square(Unit * priority'[p])
      /\ \A p \in Procs : Squares'[p] \in Int
      /\ \A p \in Active : Addends'[p] = Addends[p] /\ Squares'[p] = Squares[p]
  <2>1. \A p \in Procs : Addends'[p] = Unit * priority'[p] /\ Squares'[p] = Square(Unit * priority'[p])
    BY DEF Addends, Squares
  <2>2. \A p \in Procs : Addends[p] = Unit * priority[p] /\ Squares[p] = Square(Unit * priority[p])
    BY DEF Addends, Squares
  <2>3. \A p \in Procs : Unit * priority'[p] \in Int
    BY <1>6, PriorityAssumption
  <2> QED BY <1>4, <1>6, <2>1, <2>2, <2>3, Squared
<1>8. Active' = Active /\ Updated' = Updated /\ UpdateDue'
  BY <1>2, UpdateFrame
<1>9. IsFiniteSet(Active)
  BY ActiveFacts
<1>10. MeanOf(Active, avg)'
  <2>1. SumFunctionOnSet(Addends', Active) = SumFunctionOnSet(Addends, Active)
    BY <1>7, <1>9, SumSame
  <2> QED BY <1>2, <1>8, <2>1 DEF StatsOK, MeanOf
<1> DEFINE old == var + Square(avg)
<1>11. old \in Int /\ count = Cardinality(Active) /\ count * old = SumFunctionOnSet(Squares', Active)
  <2>1. SumFunctionOnSet(Squares', Active) = SumFunctionOnSet(Squares, Active)
    BY <1>7, <1>9, SumSame
  <2>2. old \in Int
    BY Squared DEF PTypeOK
  <2> QED BY <1>2, <2>1, <2>2 DEF StatsOK, MomentOf, Settled
<1>12. Updated # {} => Cardinality(Updated) * (SumFunctionOnSet(Squares', Updated) \div Cardinality(Updated))
                          = SumFunctionOnSet(Squares', Updated)
  BY <1>4, <1>6, <1>7, SumsDivide
<1>13. var' = Mean(old, Squares'[Current])
  BY <1>1, <1>4, <1>6, <1>7
<1> HIDE DEF old
<1>14. /\ var' \in Int
       /\ Cardinality(Updated) * var' = SumFunctionOnSet(Squares', Updated)
       /\ Updated = {} => var' = 0
  BY <1>2, <1>7, <1>11, <1>12, <1>13, MeanMoves
<1>15. MomentOf(Updated, var)'
  BY <1>8, <1>14 DEF MomentOf
<1>16. PTypeOK'
  BY <1>2, <1>6, <1>14 DEF PTypeOK
<1>17. StepOK'
  BY <1>8 DEF StepOK
<1>18. StatsOK'
  BY <1>2, <1>8, <1>10, <1>11, <1>15 DEF StatsOK, Settled
<1> QED
  BY <1>2, <1>3, <1>16, <1>17, <1>18 DEF RingOf

LEMMA AverageStored ==
    ASSUME PInv, StoreAverage
    PROVE  PTypeOK' /\ StepOK' /\ StatsOK' /\ RingOf(links, waitingP)'
<1> USE DEF PInv
<1>1. /\ step = 1 /\ step' = 2 /\ avg' = Mean(avg, Unit * priority[Current]) /\ UNCHANGED vars
      /\ priority' = priority /\ count' = count /\ var' = var /\ seen' = seen /\ links' = links
  BY DEF StoreAverage
<1>2. UpdateDue /\ waitingP' = waitingP
  BY <1>1 DEF StepOK, vars, otherVars
<1>3. Current \in Procs /\ Active \subseteq Procs /\ Updated \subseteq Procs
  BY <1>2, UpdatedFacts, ActiveFacts
<1>4. Active' = Active /\ Updated' = Updated /\ UpdateDue'
  BY <1>1, <1>2, UpdateFrame
<1>5. Addends' = Addends /\ Squares' = Squares
  BY <1>1 DEF Addends, Squares
<1>6. /\ priority \in [Procs -> Nat] /\ avg \in Int
      /\ \A p \in Procs : Addends[p] = Unit * priority[p] /\ Squares[p] = Square(Unit * priority[p])
      /\ \A p \in Procs : Addends[p] \in Int
  <2>1. priority \in [Procs -> Nat] /\ \A p \in Procs : Unit * priority[p] \in Int
    BY PriorityAssumption DEF PTypeOK
  <2> QED BY <2>1 DEF Addends, Squares, PTypeOK
<1>7. count = Cardinality(Active) /\ count * avg = SumFunctionOnSet(Addends, Active)
  BY <1>1 DEF StatsOK, Settled, MeanOf
<1>8. Updated # {} => Cardinality(Updated) * (SumFunctionOnSet(Addends, Updated) \div Cardinality(Updated))
                         = SumFunctionOnSet(Addends, Updated)
  BY <1>3, <1>6, SumsDivide
<1>9. avg' = Mean(avg, Addends[Current])
  BY <1>1, <1>3, <1>6
<1>10. /\ avg' \in Int
       /\ Cardinality(Updated) * avg' = SumFunctionOnSet(Addends, Updated)
       /\ Updated = {} => avg' = 0
  BY <1>2, <1>6, <1>7, <1>8, <1>9, MeanMoves
<1>11. MeanOf(Updated, avg)'
  BY <1>4, <1>5, <1>10 DEF MeanOf
<1>12. MomentOf(Updated, var)'
  BY <1>1, <1>4, <1>5 DEF StatsOK, MomentOf
<1>13. PTypeOK'
  BY <1>1, <1>10 DEF PTypeOK
<1>14. StepOK'
  BY <1>4 DEF StepOK
<1>15. StatsOK'
  BY <1>1, <1>4, <1>7, <1>11, <1>12 DEF StatsOK, Settled
<1> QED
  BY <1>1, <1>2, <1>13, <1>14, <1>15 DEF RingOf

LEMMA VarianceStored ==
    ASSUME PInv, StoreVariance
    PROVE  PTypeOK' /\ StepOK' /\ StatsOK' /\ RingOf(links, waitingP)'
<1> USE DEF PInv
<1>1. /\ step = 2 /\ step' = 3 /\ var' = var - Square(avg) /\ count' = count + Change /\ UNCHANGED vars
      /\ priority' = priority /\ avg' = avg /\ seen' = seen /\ links' = links
  BY DEF StoreVariance
<1>2. UpdateDue /\ waitingP' = waitingP
  BY <1>1 DEF StepOK, vars, otherVars
<1>3. /\ Cardinality(Updated) \in Nat
      /\ Cardinality(Updated) = Cardinality(Active) + Change
  BY <1>2, UpdatedFacts
<1>4. Active' = Active /\ Updated' = Updated /\ UpdateDue'
  BY <1>1, <1>2, UpdateFrame
<1>5. Addends' = Addends /\ Squares' = Squares
  BY <1>1 DEF Addends, Squares
<1>6. count' = Cardinality(Updated)
  BY <1>1, <1>3 DEF StatsOK, Settled
<1>7. var' \in Int /\ var' + Square(avg) = var
  BY <1>1, Squared DEF PTypeOK
<1>8. MeanOf(Updated, avg)'
  BY <1>1, <1>4, <1>5 DEF StatsOK, MeanOf
<1>9. MomentOf(Updated, var + Square(avg))'
  BY <1>1, <1>4, <1>5, <1>7 DEF StatsOK, MomentOf
<1>10. PTypeOK'
  BY <1>1, <1>3, <1>6, <1>7 DEF PTypeOK
<1>11. StepOK'
  BY <1>4 DEF StepOK
<1>12. StatsOK'
  BY <1>1, <1>4, <1>6, <1>8, <1>9 DEF StatsOK, Settled
<1> QED
  BY <1>1, <1>2, <1>10, <1>11, <1>12 DEF RingOf

LEMMA AdmittedCounted ==
    ASSUME PInv, AdmitCounted
    PROVE  PTypeOK' /\ StepOK' /\ StatsOK' /\ RingOf(links, waitingP)'
<1> USE DEF PInv
<1> DEFINE q == StackTop
<1>1. /\ stage[1] = "admit" /\ q # None /\ step = 3 /\ step' = 0
      /\ waitingP' = Append(waitingP, q) /\ n' = n
      /\ links' = Added(links, q)
      /\ priority' = priority /\ count' = count /\ avg' = avg /\ var' = var /\ seen' = seen
  BY DEF AdmitCounted, Admit, Core
<1>2. UpdateDue /\ Arriving /\ Current = q
  BY <1>1 DEF UpdateDue, Arriving, Current
<1>3. q \in Procs /\ q \notin Active
  BY <1>2, UpdatedFacts
<1> HIDE DEF q
<1>4. /\ waitingP \in Seq(Procs) /\ IsInjective(waitingP) /\ q \notin ToSet(waitingP)
      /\ links \in Links
  BY <1>3 DEF IInv, TypeOK, QueueOK, Active, Queued, PTypeOK
<1>5. Queued' = Queued \union {q}
  BY <1>1, <1>3, <1>4, AppendQueue DEF Queued
<1>6. Active' = Settled
  BY <1>1, <1>2, <1>3, <1>5, Constants DEF Active, Settled, Updated
<1>7. StepOK' /\ StatsOK'
  BY <1>1, <1>6, StatsSettled
<1>8. Added(links, q) \in Links /\ RingOf(Added(links, q), Append(waitingP, q))
  BY <1>3, <1>4, AddedRing
<1>9. PTypeOK'
  BY <1>1, <1>8 DEF PTypeOK
<1>10. RingOf(links, waitingP)'
  BY <1>1, <1>8 DEF RingOf
<1> QED
  BY <1>7, <1>9, <1>10

\* The pass comes to core c: an update is over, or none was due.
LEMMA PassStats ==
    ASSUME PInv, NEW c \in Cores, stage = <<"serve", c>>, StatsDone(c)
    PROVE  /\ step \in {0, 3}
           /\ step = 3 <=> Finished(c)
           /\ Settled = IF Finished(c) THEN Active \ {n[c]} ELSE Active
<1> USE DEF PInv
<1>1. stage[1] = "serve" /\ stage[2] = c /\ ~Arriving /\ Current = n[c]
  BY DEF Arriving, Current
<1>2. step > 0 => Finished(c)
  BY <1>1 DEF StepOK, UpdateDue
<1>3. step \in {0, 3} /\ (step = 3 <=> Finished(c))
  BY <1>2 DEF StatsDone, PTypeOK
<1> QED
  BY <1>1, <1>3 DEF Settled, Updated

LEMMA DispatchedCore ==
    ASSUME PInv, NEW c \in Cores, DispatchCore(c)
    PROVE  PTypeOK' /\ StepOK' /\ StatsOK' /\ RingOf(links, waitingP)'
<1> USE DEF PInv
<1>1. /\ Dispatch(c) /\ StatsDone(c) /\ step' = 0 /\ links' = Removed(RequeuedLinks(c))
      /\ priority' = priority /\ count' = count /\ avg' = avg /\ var' = var /\ seen' = seen
  BY DEF DispatchCore
<1> DEFINE p == First(c)
           back == IF n[c] # None /\ dt[n[c]] > 0 THEN {n[c]} ELSE {}
<1>2. /\ stage = <<"serve", c>> /\ ready[c] /\ n' = [n EXCEPT ![c] = p] /\ waitingP' = Rest(c)
      /\ p \in Procs
      /\ ToSet(Rest(c)) \union {p} = Queued \union back
      /\ n[c] # None => /\ n[c] \in Procs /\ n[c] \notin Queued
                        /\ \A d \in Cores : d # c => n[d] # n[c]
  BY <1>1, DispatchFacts
<1>3. /\ Requeued(c) # << >> /\ Requeued(c) \in Seq(Procs) /\ IsInjective(Requeued(c))
  BY <1>1, <1>2, RequeuedFacts DEF Dispatch, Available
<1>4. /\ step \in {0, 3} /\ (step = 3 <=> Finished(c))
      /\ Settled = IF Finished(c) THEN Active \ {n[c]} ELSE Active
  BY <1>1, <1>2, PassStats
<1>5. Active' = Settled
  <2>1. Queued' \union {p} = Queued \union back
    BY <1>2 DEF Queued
  <2>2. p # None /\ n \in [Cores -> Procs \union {None}] /\ None \notin Queued
    BY <1>2, Constants, QueueMember DEF IInv, TypeOK, Queued
  <2>3. n'[c] = p /\ \A d \in Cores : d # c => n'[d] = n[d]
    BY <1>2, <2>2
  <2>4. {n'[d] : d \in Cores} = {p} \union {n[d] : d \in Cores \ {c}}
    BY <2>3
  <2>5. Active' = Queued \union back \union ({n[d] : d \in Cores \ {c}} \ {None})
    BY <2>1, <2>2, <2>4 DEF Active
  <2>6. Active = Queued \union ({n[c]} \ {None}) \union ({n[d] : d \in Cores \ {c}} \ {None})
    BY DEF Active
  <2>7. n[c] # None => n[c] \notin Queued /\ n[c] \notin {n[d] : d \in Cores \ {c}}
    BY <1>2
  <2>8. Finished(c) <=> n[c] # None /\ dt[n[c]] = 0
    BY <1>2 DEF Finished
  <2>9. n[c] # None => dt[n[c]] \in Nat
    BY <1>2 DEF IInv, TypeOK
  <2> QED BY <1>4, <2>5, <2>6, <2>7, <2>8, <2>9
<1>6. StepOK' /\ StatsOK'
  BY <1>1, <1>4, <1>5, StatsSettled
<1>7. RequeuedLinks(c) \in Links /\ RingOf(RequeuedLinks(c), Requeued(c))
  <2>1. waitingP \in Seq(Procs) /\ IsInjective(waitingP) /\ links \in Links
    BY DEF IInv, TypeOK, QueueOK, PTypeOK
  <2>2. CASE n[c] # None /\ dt[n[c]] > 0
    <3>1. /\ RequeuedLinks(c) = Added(links, n[c]) /\ Requeued(c) = Append(waitingP, n[c])
          /\ n[c] \in Procs /\ n[c] \notin ToSet(waitingP)
      BY <1>2, <2>2 DEF RequeuedLinks, Requeued, Queued
    <3>2. RingOf(links, waitingP)
      OBVIOUS
    <3> QED BY <2>1, <3>1, <3>2, AddedRing
  <2>3. CASE ~(n[c] # None /\ dt[n[c]] > 0)
    BY <2>1, <2>3 DEF RequeuedLinks, Requeued
  <2> QED BY <2>2, <2>3
<1>8. links' \in Links /\ RingOf(links', waitingP')
  BY <1>1, <1>2, <1>3, <1>7, RemovedRing DEF Rest
<1>9. PTypeOK'
  BY <1>1, <1>8 DEF PTypeOK
<1>10. RingOf(links, waitingP)'
  BY <1>8 DEF RingOf, NodeAt
<1> QED
  BY <1>6, <1>9, <1>10

LEMMA SkippedCore ==
    ASSUME PInv, NEW c \in Cores, SkipCore(c)
    PROVE  PTypeOK' /\ StepOK' /\ StatsOK' /\ RingOf(links, waitingP)'
<1> USE DEF PInv
<1>1. /\ LeaveCore(c) /\ StatsDone(c) /\ step' = 0 /\ links' = links
      /\ priority' = priority /\ count' = count /\ avg' = avg /\ var' = var /\ seen' = seen
  BY DEF SkipCore
<1>2. /\ stage = <<"serve", c>> /\ waitingP' = waitingP
      /\ n' = IF ready[c] THEN [n EXCEPT ![c] = None] ELSE n
      /\ ready[c] => /\ Queued = {}
                     /\ n[c] # None => n[c] \in Procs /\ dt[n[c]] = 0
  BY <1>1, LeaveCoreFacts
<1>3. /\ step \in {0, 3} /\ Settled = IF Finished(c) THEN Active \ {n[c]} ELSE Active
  BY <1>1, <1>2, PassStats
<1>4. Active' = Settled
  <2>1. Queued' = Queued
    BY <1>2 DEF Queued
  <2>2. CASE ready[c]
    <3>1. n'[c] = None /\ \A d \in Cores : d # c => n'[d] = n[d]
      BY <1>2, <2>2 DEF IInv, TypeOK
    <3>2. {n'[d] : d \in Cores} = {None} \union {n[d] : d \in Cores \ {c}}
      BY <3>1
    <3>3. Active' = {n[d] : d \in Cores \ {c}} \ {None}
      BY <1>2, <2>1, <2>2, <3>2 DEF Active
    <3>4. Active = ({n[c]} \ {None}) \union ({n[d] : d \in Cores \ {c}} \ {None})
      BY <1>2, <2>2 DEF Active
    <3>5. n[c] # None => n[c] \notin {n[d] : d \in Cores \ {c}}
      BY DEF IInv, ServedOK
    <3>6. Finished(c) <=> n[c] # None
      BY <1>2, <2>2 DEF Finished
    <3> QED BY <1>3, <3>3, <3>4, <3>5, <3>6
  <2>3. CASE ~ready[c]
    BY <1>2, <1>3, <2>1, <2>3 DEF Active, Finished
  <2> QED BY <2>2, <2>3
<1>5. StepOK' /\ StatsOK'
  BY <1>1, <1>3, <1>4, StatsSettled
<1>6. PTypeOK'
  BY <1>1 DEF PTypeOK
<1>7. RingOf(links, waitingP)'
  BY <1>1, <1>2 DEF RingOf, NodeAt
<1> QED
  BY <1>5, <1>6, <1>7

\* The steps of the scheduler in which no update is due.
LEMMA RestOfScheduler ==
    ASSUME PInv,
           StartPassOver \/ ((Test \/ Unlock \/ Wait \/ Join \/ WakeUp \/ Terminated) /\ Unchanged)
    PROVE  PTypeOK' /\ StepOK' /\ StatsOK' /\ RingOf(links, waitingP)'
<1> USE DEF PInv
<1>1. /\ waitingP' = waitingP /\ n' = n /\ step' = step /\ links' = links
      /\ priority' = priority /\ count' = count /\ avg' = avg /\ var' = var /\ seen' = seen
  BY DEF StartPassOver, Test, StartPass, Unlock, Wait, Join, WakeUp, Terminated, Unchanged,
         statVars, otherVars, vars, Core
<1>2. step = 0
  <2>1. CASE StartPassOver
    BY <2>1 DEF StartPassOver
  <2>2. CASE Test \/ Unlock \/ Wait \/ Join \/ WakeUp \/ Terminated
    <3>1. stage[1] \notin {"admit", "serve"}
      BY <2>2 DEF Test, Unlock, Wait, Join, WakeUp, Terminated
    <3>2. ~UpdateDue
      BY <3>1 DEF UpdateDue
    <3> QED BY <3>2 DEF StepOK, PTypeOK
  <2> QED BY <2>1, <2>2
<1>3. Active' = Settled
  BY <1>1, <1>2 DEF Active, Queued, Settled
<1>4. StepOK' /\ StatsOK'
  BY <1>1, <1>2, <1>3, StatsSettled
<1>5. PTypeOK'
  BY <1>1 DEF PTypeOK
<1>6. RingOf(links, waitingP)'
  BY <1>1 DEF RingOf, NodeAt
<1> QED
  BY <1>4, <1>5, <1>6

\* A process that does not hold its core does none of this; one that does is
\* not the one an update is about.
LEMMA StatsOfProcess ==
    ASSUME PInv, NEW p \in Procs, PProcess(p)
    PROVE  PTypeOK' /\ StepOK' /\ StatsOK' /\ RingOf(links, waitingP)'
<1> USE DEF PInv, history
<1>1. /\ arrived' = arrived /\ waitingP' = waitingP /\ n' = n /\ step' = step /\ links' = links
      /\ priority' = priority /\ count' = count /\ avg' = avg /\ var' = var
  BY DEF PProcess, LockAndTest, ReadAvg, RunQuantum, Lock, Return, Signal, Unchanged,
         statVars, schedVars, vars, otherVars, Core
<1>2. PTypeOK'
  <2>1. seen' \in [Procs -> {"unread", "even", "uneven", "avg"} \X Int]
    <3>1. seen \in [Procs -> {"unread", "even", "uneven", "avg"} \X Int] /\ avg \in Int
      BY DEF PTypeOK
    <3> QED BY <3>1 DEF PProcess, LockAndTest, ReadAvg, RunQuantum, Unread, Unchanged
  <2> QED BY <1>1, <2>1 DEF PTypeOK
<1>3. UpdateDue => /\ stage' = stage
                   /\ \A c \in Cores : Finished(c) /\ stage[1] = "serve" => Finished(c)'
  <2> SUFFICES ASSUME UpdateDue
               PROVE  /\ stage' = stage
                      /\ \A c \in Cores : Finished(c) /\ stage[1] = "serve" => Finished(c)'
    OBVIOUS
  <2>1. stage[1] \in {"admit", "serve"}
    BY DEF UpdateDue
  <2>2. CASE LockAndTest(p) \/ ReadAvg(p)
    <3>1. stage' = stage /\ ready' = ready /\ dt' = dt
      BY <2>2 DEF LockAndTest, Lock, ReadAvg, schedVars, vars, otherVars, Core, Node
    <3> QED BY <1>1, <3>1 DEF Finished
  <2>3. CASE RunQuantum(p)
    <3>1. Sleep(p)
      BY <2>3, TurnIsSleep
    <3>2. stage' = stage /\ ready' = ready /\ pc[p] = "run"
      BY <3>1 DEF Sleep, schedVars
    <3>3. PICK l \in 0 .. dt[p] : dt' = [dt EXCEPT ![p] = l]
      BY <3>1 DEF Sleep
    <3>4. \A q \in Procs : dt[q] = 0 => dt'[q] = 0
      BY <3>3 DEF IInv, TypeOK
    <3>5. \A c \in Cores : n[c] \in Procs \union {None}
      BY DEF IInv, TypeOK
    <3> QED BY <1>1, <3>2, <3>4, <3>5 DEF Finished
  <2>4. CASE Return(p) \/ Signal(p)
    <3>1. stage' = stage /\ dt' = dt /\ (stage[1] = "serve" => ready' = ready)
      BY <2>1, <2>4 DEF Return, Signal, schedVars, Core, Node
    <3> QED BY <1>1, <3>1 DEF Finished
  <2> QED BY <2>2, <2>3, <2>4 DEF PProcess
<1>4. StepOK' /\ StatsOK' /\ RingOf(links, waitingP)'
  BY <1>1, <1>3, StatsKept
<1> QED
  BY <1>2, <1>4

LEMMA PNextOK == PInv /\ [PNext]_allVars => PInv'
<1> SUFFICES ASSUME PInv, [PNext]_allVars PROVE PInv'
  OBVIOUS
<1>1. IInv'
  BY PNextIsSleepNext, SleepNextOK DEF PInv
<1>2. PTypeOK' /\ StepOK' /\ StatsOK' /\ RingOf(links, waitingP)'
  <2>1. CASE PScheduler
    BY <2>1, MomentStored, AverageStored, VarianceStored, AdmittedCounted, DispatchedCore,
       SkippedCore, RestOfScheduler DEF PScheduler
  <2>2. CASE \E p \in Procs : PProcess(p)
    BY <2>2, StatsOfProcess
  <2>3. CASE (WakeUp \/ Terminated) /\ Unchanged
    BY <2>3, RestOfScheduler
  <2>4. CASE UNCHANGED allVars
    <3>1. /\ arrived' = arrived /\ waitingP' = waitingP /\ n' = n /\ step' = step /\ links' = links
          /\ priority' = priority /\ count' = count /\ avg' = avg /\ var' = var /\ seen' = seen
          /\ stage' = stage /\ ready' = ready /\ dt' = dt
      BY <2>4 DEF allVars, vars, otherVars, statVars, Core, Node
    <3>2. PTypeOK'
      BY <3>1 DEF PTypeOK, PInv
    <3>3. \A c \in Cores : Finished(c)' <=> Finished(c)
      BY <3>1 DEF Finished
    <3> QED BY <3>1, <3>2, <3>3, StatsKept
  <2> QED BY <2>1, <2>2, <2>3, <2>4 DEF PNext
<1> QED
  BY <1>1, <1>2 DEF PInv

-----------------------------------------------------------------------------
(* What follows from the invariant *)

LEMMA PInvStats == PInv => StatsExact
<1> SUFFICES ASSUME PInv, step = 0
             PROVE  /\ count = Cardinality(Active)
                    /\ count * avg = SumFunctionOnSet(Addends, Active)
                    /\ count * (var + Square(avg)) = SumFunctionOnSet(Squares, Active)
                    /\ count = 0 => avg = 0 /\ var = 0
  BY DEF StatsExact
<1>1. count = Cardinality(Active) /\ MeanOf(Active, avg) /\ MomentOf(Active, var + Square(avg))
  BY DEF PInv, StatsOK, Settled
<1>2. count = 0 => Active = {}
  BY <1>1, ActiveFacts, FS_EmptySet DEF PInv
<1>3. count = 0 => avg = 0 /\ var = 0
  <2> SUFFICES ASSUME count = 0 PROVE avg = 0 /\ var = 0
    OBVIOUS
  <2>1. avg = 0 /\ var + Square(avg) = 0 /\ var \in Int
    BY <1>1, <1>2 DEF MeanOf, MomentOf, PInv, PTypeOK
  <2> QED BY <2>1 DEF Square
<1> QED
  BY <1>1, <1>3 DEF MeanOf, MomentOf

LEMMA PInvRing == PInv => RingIsQueue
<1> DEFINE ring == <<None>> \o waitingP \o <<None>>
<1> SUFFICES ASSUME PInv, NEW i \in 1 .. Len(ring) - 1
             PROVE  links.prev[ring[i]] = ring[i + 1] /\ links.next[ring[i + 1]] = ring[i]
  BY DEF RingIsQueue
<1>1. waitingP \in Seq(Nodes) /\ None \in Nodes
  <2>1. waitingP \in Seq(Procs) /\ Procs \subseteq Nodes
    BY DEF PInv, IInv, TypeOK, Nodes
  <2> QED BY <2>1 DEF Nodes
<1>2. /\ Len(waitingP) \in Nat /\ Len(ring) = Len(waitingP) + 2
      /\ ring[1] = None /\ ring[Len(waitingP) + 2] = None
      /\ \A j \in 1 .. Len(waitingP) : ring[j + 1] = waitingP[j]
  <2>1. <<None>> \in Seq(Nodes) /\ Len(<<None>>) = 1 /\ <<None>>[1] = None
    BY <1>1
  <2>2. <<None>> \o waitingP \in Seq(Nodes) /\ Len(<<None>> \o waitingP) = Len(waitingP) + 1
    BY <1>1, <2>1
  <2> QED BY <1>1, <2>1, <2>2
<1> HIDE DEF ring
<1>3. \A j \in 0 .. Len(waitingP) + 1 : ring[j + 1] = NodeAt(waitingP, j)
  BY <1>2 DEF NodeAt
<1>4. i - 1 \in 0 .. Len(waitingP) /\ i \in 0 .. Len(waitingP) + 1
      /\ i - 1 \in 0 .. Len(waitingP) + 1 /\ (i - 1) + 1 = i
  BY <1>2
<1>5. ring[i] = NodeAt(waitingP, i - 1) /\ ring[i + 1] = NodeAt(waitingP, i)
  BY <1>3, <1>4
<1>6. RingOf(links, waitingP)
  BY DEF PInv
<1> QED
  BY <1>4, <1>5, <1>6 DEF RingOf

\* The inductive invariant.
THEOREM PInvariant == PSpec => []PInv
BY PInitOK, PNextOK, PTL DEF PSpec

\* Between two updates count, avg and var are those of the active processes.
THEOREM StatsCorrect == PSpec => []StatsExact
BY PInvariant, PInvStats, PTL

\* The nodes that queue_add and queue_remove link are the queue.
THEOREM RingCorrect == PSpec => []RingIsQueue
BY PInvariant, PInvRing, PTL

\* The cores are handed out as in the round-robin scheduler, whatever the
\* length of a turn, ...
THEOREM PNoneLostOrDoubled == PSpec => []NobodyLostOrDoubled
BY PInvariant, IInvNobodyLost, PTL DEF PInv

\* ... a process runs on the core that it was given, ...
THEOREM POnItsCore == PSpec => []RunsOnItsCore
BY PInvariant, IInvRunsOnItsCore, PTL DEF PInv

\* ... and the queue is served first come first served.
THEOREM PKeepsPromise == PSpec => RefinesCores
<1>1. PInit => Promised!Init
  BY PromisedInit DEF PInit
<1>2. PInv /\ [PNext]_allVars => [Promised!Next]_(Promised!vars)
  BY PromisedStep, PNextIsSleepNext DEF PInv
<1> QED
  BY <1>1, <1>2, PInvariant, PTL DEF PSpec, RefinesCores, Promised!Spec

=============================================================================
