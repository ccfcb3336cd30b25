------------------------------ MODULE ProcArray ------------------------------
(***************************************************************************)
(* The trace reader of ep1.c: create_ProcArray reads a trace line by line  *)
(* into an array that grows by doubling and sorts it.                      *)
(***************************************************************************)
EXTENDS Naturals, Sequences, SequencesExt

Process(t0, dt, nLine) == [t0 |-> t0, dt |-> dt, nLine |-> nLine]

\* A new struct pstruct, with room for one process.
Empty == [v |-> <<>>, size |-> 1]

\* insertProcArray: a line of the trace is the arrival and the duration of
\* a process, which keeps the number of its line.
InsertProcArray(self, line) ==
    [v |-> Append(self.v, Process(line.t0, line.dt, Len(self.v) + 1)),
     size |-> IF Len(self.v) >= self.size THEN 2 * self.size ELSE self.size]

\* cmp_ProcArray(a, b) <= 0
CmpProcArray(a, b) == a.t0 < b.t0 \/ (a.t0 = b.t0 /\ a.dt <= b.dt)

\* The array after the last line.
Read(trace) ==
    LET read[n \in 0 .. Len(trace)] ==
          IF n = 0 THEN Empty ELSE InsertProcArray(read[n - 1], trace[n])
    IN  read[Len(trace)]

\* create_ProcArray: qsort may leave processes that compare equal in any order.
CreateProcArray(trace) ==
    {[Read(trace) EXCEPT !.v = w] : w \in {u \in SetToSeqs(ToSet(Read(trace).v)) :
        \A i, j \in 1 .. Len(u) : i < j => CmpProcArray(u[i], u[j])}}

\* What main may hand to a scheduler: any of the traces is read.
ReadyJobs(traces) == UNION {CreateProcArray(trace) : trace \in traces}

=============================================================================
