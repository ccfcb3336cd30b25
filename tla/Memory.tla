------------------------------- MODULE Memory -------------------------------
(***************************************************************************)
(* The memory simulator (simulator.py, tables.py): processes arrive, are   *)
(* given virtual memory by a free-space manager (FreeSpace), access pages, *)
(* which a paginator (Paginators) brings into frames, and end; sometimes   *)
(* both memories are compacted.  The same facts are kept in the map, the   *)
(* bases of the processes, the page table, the frame table, the control    *)
(* data of the paginator and the lists of QuickFit.                        *)
(*                                                                         *)
(* The trace is nondeterministic: any process may arrive, access, end and  *)
(* any compaction be due in any tick.  The bytes of the two memory files   *)
(* follow the tables and are left out.                                     *)
(***************************************************************************)
EXTENDS FreeSpace, Paginators

CONSTANTS
    NumProcs,    \* bound: the processes of the trace
    NumPages,    \* the pages of the virtual memory
    MaxSize,     \* bound: the most pages of a process
    MaxFrequent, \* the number of lists of QuickFit, 5 in the code
    UsedManagers, UsedPaginators    \* the algorithms a run looks at

ASSUME MemoryAssumption ==
    /\ {NumProcs, NumPages, MaxSize, MaxFrequent} \subseteq Nat \ {0}
    /\ UsedManagers \subseteq Managers /\ UsedPaginators \subseteq AllPaginators

Procs == 1 .. NumProcs      \* the pids, in the order of t0
Pages == 0 .. NumPages - 1

VARIABLES
    stage,    \* <<the part of the tick, the last process served in it>>
    fspc,     \* which free-space manager
    pmem,     \* which paginator
    size,     \* the pages of each process
    arrived,  \* how many processes have arrived
    base,     \* proc.base of the active processes, None of the others
    memmap,   \* the memory map
    refs,     \* QuickFit's lists
    ptable,   \* the page table: pid, and frame when bit_p is set
    ftable,   \* the frame table: the page in each frame
    ctl,      \* the paginator's control data
    due,      \* ticks until a process's next access
    order     \* history: the pairs of resident pages, by pid and offset, of
              \* which FIFO or LRU2 has to remove the first one first; or Off

spaceVars == <<base, memmap, refs>>
tableVars == <<ptable, ftable, ctl>>
choiceVars == <<fspc, pmem, size>>
vars == <<stage, arrived, due, order, spaceVars, tableVars, choiceVars>>

Off == {<< >>}     \* no order is kept

-----------------------------------------------------------------------------
Active == {p \in Procs : base[p] # None}
Resident == {x \in Procs \X (0 .. MaxSize - 1) :
               /\ x[1] \in Active /\ x[2] < size[x[1]]
               /\ ptable[base[x[1]] + x[2]].frame # None}

TypeOK ==
    /\ stage \in {"malloc", "access", "free", "compacted", "over", "no_space", "error"}
                    \X (0 .. NumProcs)
    /\ fspc \in UsedManagers /\ pmem \in UsedPaginators
    /\ size \in [Procs -> 1 .. MaxSize]
    /\ arrived \in 0 .. NumProcs
    /\ base \in [Procs -> Pages \union {None}]
    /\ memmap \in Seq([status : {"L", "P"}, base : Pages, qtd : 1 .. NumPages])
    /\ DOMAIN refs \subseteq 1 .. MaxSize
    /\ \A s \in DOMAIN refs : refs[s] \in Seq(Pages)
    /\ ptable \in [Pages -> [pid : Procs \union {None}, frame : Frames \union {None}]]
    /\ ftable \in [Frames -> Pages \union {None}]
    /\ ctl \in Control
    /\ due \in [Procs -> 0 .. Never]

\* analyze_processes: the most common sizes, ties in any order.
Common(n) == Cardinality({p \in Procs : size[p] = n})

FrequentSizes ==
    LET sizes == {size[p] : p \in Procs}
    IN  {S \in SUBSET sizes :
           /\ Cardinality(S) = Min({MaxFrequent, Cardinality(sizes)})
           /\ \A s \in S : \A t \in sizes \ S : Common(s) >= Common(t)}

FreePage == [pid |-> None, frame |-> None]

Init ==
    /\ stage = <<"malloc", 0>>
    /\ fspc \in UsedManagers
    /\ pmem \in UsedPaginators
    /\ size \in [Procs -> 1 .. MaxSize]
    /\ arrived = 0
    /\ base = [p \in Procs |-> None]
    /\ memmap = <<Piece("L", 0, NumPages)>>
    /\ \E S \in IF fspc = "QuickFit" THEN FrequentSizes ELSE {{}} : refs = [s \in S |-> << >>]
    /\ ptable = [pg \in Pages |-> FreePage]
    /\ ftable = [f \in Frames |-> None]
    /\ ctl = NewControl
    /\ due = [p \in Procs |-> Never]
    /\ order = IF pmem = "LRU2" \/ (pmem = "FIFO" /\ fspc # "QuickFit") THEN {} ELSE Off

-----------------------------------------------------------------------------
(* The parts of a tick follow each other in this order, and the processes  *)
(* within each part.                                                       *)

Running == stage[1] \notin {"over", "no_space", "error"}

\* Only Optimal looks at the times of the accesses to come.
Gaps(first) == IF pmem = "Optimal" THEN first .. Never ELSE {Never}

\* Nobody before process p still has to access memory in this tick.
NoneDueBefore(p) == \A q \in Active : q < p => due[q] # 0

\* malloc for the next process of the trace; without space the simulator exits.
Arrive(p) ==
    /\ stage[1] = "malloc"
    /\ p = arrived + 1
    /\ arrived' = p
    /\ IF HasSpace(fspc, memmap, refs, size[p])
       THEN LET new == Malloc(fspc, memmap, refs, size[p])
            IN  /\ memmap' = new.map
                /\ refs' = new.refs
                /\ base' = [base EXCEPT ![p] = new.base]
                /\ ptable' = [pg \in Pages |-> IF pg \in new.base .. new.base + size[p] - 1
                                               THEN [ptable[pg] EXCEPT !.pid = p] ELSE ptable[pg]]
                /\ \E gap \in Gaps(0) : due' = [due EXCEPT ![p] = gap]
                /\ UNCHANGED stage
       ELSE /\ stage' = <<"no_space", 0>>
            /\ UNCHANGED <<spaceVars, ptable, due>>
    /\ UNCHANGED <<ftable, ctl, order, choiceVars>>

\* The order in which pages have to go after an access to page, before which
\* page out has gone: those that stay go before it.
Ordered(page, out, fault) ==
    IF order = Off \/ (pmem = "FIFO" /\ ~fault) THEN order
    ELSE {x \in order : {page, out} \intersect {x[1], x[2]} = {}}
            \union {<<x, page>> : x \in Resident \ {page, out}}

\* The pid and offset of the page in a frame.
Content(f) ==
    LET pg == ftable[f] IN <<ptable[pg].pid, pg - base[ptable[pg].pid]>>

\* Mutant: the page that loses its frame stays present.
BroughtInBesides(pg, frame) ==
    [x \in Pages |-> IF x = pg THEN [ptable[x] EXCEPT !.frame = frame] ELSE ptable[x]]

\* The page in the frame is no longer present, pg is.
BroughtIn(pg, frame) ==
    [x \in Pages |-> IF x = pg THEN [ptable[x] EXCEPT !.frame = frame]
                     ELSE IF x = ftable[frame] THEN [ptable[x] EXCEPT !.frame = None]
                     ELSE ptable[x]]

\* pmem_manager.access: page i of process p, brought into a frame on a fault.
Access(p, i) ==
    /\ stage[1] = "malloc" \/ (stage[1] = "access" /\ stage[2] < p)
    /\ p \in Active /\ i < size[p]
    /\ pmem = "Optimal" => due[p] = 0
    /\ NoneDueBefore(p)
    /\ LET pg == base[p] + i
           fault == ptable[pg].frame = None
           frame == IF fault THEN NewFrame(pmem, ctl, ftable) ELSE ptable[pg].frame
           out == IF fault /\ ftable[frame] # None THEN Content(frame) ELSE <<None, None>>
       IN  /\ \E gap \in Gaps(1) :
                 /\ due' = [due EXCEPT ![p] = gap]
                 /\ ctl' = Touched(pmem, ctl, frame, fault, gap)
           /\ ptable' = IF fault THEN BroughtIn(pg, frame) ELSE ptable
           /\ ftable' = IF fault THEN [ftable EXCEPT ![frame] = pg] ELSE ftable
           /\ order' = Ordered(<<p, i>>, out, fault)
    /\ stage' = <<"access", p>>
    /\ UNCHANGED <<arrived, spaceVars, choiceVars>>

\* The control data after the frames of n pages were deleted, page by page.
DeletedPages(first, n) ==
    LET deleted[k \in 0 .. n] ==
          IF k = 0 THEN ctl
          ELSE LET f == ptable[first + k - 1].frame
               IN  IF f = None THEN deleted[k - 1] ELSE Deleted(pmem, deleted[k - 1], f)
    IN  deleted[n]

\* fspc_manager.free: the frames of the process are deleted, by QuickFit
\* without telling the paginator.
Finish(p) ==
    /\ stage[1] \in {"malloc", "access"} \/ (stage[1] = "free" /\ stage[2] < p)
    /\ p \in Active /\ due[p] = Never
    /\ NoneDueBefore(NumProcs + 1)
    /\ LET pages == base[p] .. base[p] + size[p] - 1
           frames == {f \in Frames : \E pg \in pages : ptable[pg].frame = f}
           new == Free(memmap, refs, base[p])
       IN  /\ memmap' = new.map
           /\ refs' = new.refs
           /\ ftable' = [f \in Frames |-> IF f \in frames THEN None ELSE ftable[f]]
           /\ ctl' = IF fspc = "QuickFit" THEN ctl
                     ELSE DeletedPages(base[p], size[p])
           /\ ptable' = [pg \in Pages |-> IF pg \in pages THEN FreePage ELSE ptable[pg]]
    /\ base' = [base EXCEPT ![p] = None]
    /\ order' = IF order = Off THEN Off ELSE {x \in order : x[1][1] # p /\ x[2][1] # p}
    /\ stage' = <<"free", p>>
    /\ UNCHANGED <<arrived, due, choiceVars>>

-----------------------------------------------------------------------------
(* compact *)

UsedBelow(pg) == {q \in Pages : q < pg /\ ptable[q].pid # None}
Top == Cardinality(UsedBelow(NumPages))

\* A used page moves to the front, behind those below it.
Packed(pg) == Cardinality(UsedBelow(pg))

PackedTable ==
    [x \in Pages |->
       IF x < Top THEN ptable[CHOOSE pg \in UsedBelow(NumPages) : Packed(pg) = x] ELSE FreePage]

\* Mutant: only the first process that is moved gets its new base.
PackedBaseOnce ==
    [p \in Procs |-> IF p \in Active /\ UsedBelow(base[p]) = {} THEN 0 ELSE base[p]]

PackedBase == [p \in Procs |-> IF p \in Active THEN Packed(base[p]) ELSE None]

\* The active process with n others below it.
Nth(n) == CHOOSE p \in Active : Cardinality({q \in Active : base[q] < base[p]}) = n

\* The new map: the processes in their order, then the rest.
PackedMap ==
    LET count == Cardinality(Active)
    IN  [i \in 1 .. count + 1 |->
           IF i <= count THEN Piece("P", Packed(base[Nth(i - 1)]), size[Nth(i - 1)])
           ELSE Piece("L", Top, NumPages - Top)]

\* Mutant: a frame is exchanged even with a hole above it.
MovedUp(f, hole) == f # hole /\ hole # NumFrames

\* A frame moves down into the first free one.
Moved(f, hole) == f > hole

Occupied(table) == {f \in Frames : table[f] # None}

\* A page in a frame above the first free one moves there; the frame learns
\* the page's new number.
Look(s, pg) ==
    LET f == s.ptable[pg].frame
        hole == Min({g \in Frames : s.ftable[g] = None} \union {NumFrames})
    IN  IF f = None THEN s
        ELSE IF Moved(f, hole)
        THEN [ptable |-> [s.ptable EXCEPT ![pg].frame = hole],
              ftable |-> [s.ftable EXCEPT ![hole] = pg, ![f] = None],
              ctl |-> Swapped(pmem, s.ctl, hole, f)]
        ELSE [s EXCEPT !.ftable[f] = pg]

\* The frames after the first n pages were looked at.
PackedFrames(n) ==
    LET start == [ptable |-> PackedTable, ftable |-> ftable, ctl |-> ctl]
        after[k \in 0 .. n] == IF k = 0 THEN start ELSE Look(after[k - 1], k - 1)
    IN  after[n]

\* With no page left free the search for the last process's end leaves the
\* table (IndexError).
Compact ==
    /\ stage[1] \in {"malloc", "access", "free"}
    /\ NoneDueBefore(NumProcs + 1)
    /\ IF Top = NumPages
       THEN /\ stage' = <<"error", 0>>
            /\ UNCHANGED <<spaceVars, tableVars, order>>
       ELSE LET new == IF fspc = "QuickFit" THEN ReorderReferences(PackedMap, refs, MaxSize)
                       ELSE [map |-> PackedMap, refs |-> refs]
                packed == PackedFrames(Top)
            IN  /\ base' = PackedBase
                /\ memmap' = new.map
                /\ refs' = new.refs
                /\ ptable' = packed.ptable
                /\ ftable' = packed.ftable
                /\ ctl' = packed.ctl
                /\ order' = IF pmem = "LRU2" /\ Occupied(packed.ftable) # Occupied(ftable)
                            THEN Off ELSE order
                /\ stage' = <<"compacted", 0>>
    /\ UNCHANGED <<arrived, due, choiceVars>>

\* The end of a tick; the loop ends when nobody is left.
Tick ==
    /\ Running
    /\ NoneDueBefore(NumProcs + 1)
    /\ ctl' = Updated(pmem, ctl)
    /\ due' = [p \in Procs |-> Later(due[p])]
    /\ stage' = IF arrived = NumProcs /\ Active = {} THEN <<"over", 0>> ELSE <<"malloc", 0>>
    /\ UNCHANGED <<arrived, order, spaceVars, ptable, ftable, choiceVars>>

Stopped == ~Running /\ UNCHANGED vars

Next ==
    \/ \E p \in Procs : Arrive(p) \/ Finish(p) \/ (\E i \in 0 .. MaxSize - 1 : Access(p, i))
    \/ Compact \/ Tick \/ Stopped

Spec == Init /\ [][Next]_vars

-----------------------------------------------------------------------------
(* Properties *)

\* The page table and the frame table agree, and only pages of processes are
\* in frames: after evictions, ends of processes and compactions no frame
\* holds a page that is elsewhere or nobody's.
TablesAgree ==
    /\ \A pg \in Pages : ptable[pg].frame # None =>
          ptable[pg].pid # None /\ ftable[ptable[pg].frame] = pg
    /\ \A f \in Frames : ftable[f] # None => ptable[ftable[f]].frame = f

\* The map covers the memory without gaps, its used pieces are exactly the
\* active processes at their bases, and the page table says the same; every
\* variable stays in its range.
MapMatchesTable ==
    /\ TypeOK
    /\ memmap[1].base = 0 /\ End(Last(memmap)) = NumPages
    /\ \A i \in 1 .. Len(memmap) - 1 : End(memmap[i]) = memmap[i + 1].base
    /\ {<<memmap[i].base, memmap[i].qtd>> : i \in {j \in DOMAIN memmap : ~IsFree(memmap, j)}}
         = {<<base[p], size[p]>> : p \in Active}
    /\ \A p \in Procs : {pg \in Pages : ptable[pg].pid = p}
         = IF p \in Active THEN base[p] .. base[p] + size[p] - 1 ELSE {}

\* QuickFit's lists name free pieces of their size, each once: a process is
\* never given memory that was joined, split, compacted away or given out.
QuickListsFresh ==
    \A s \in DOMAIN refs :
       /\ \A i \in DOMAIN refs[s] : Piece("L", refs[s][i], s) \in ToSet(memmap)
       /\ \A i, j \in DOMAIN refs[s] : i # j => refs[s][i] # refs[s][j]

\* FIFO gives out free frames as long as there are any and then that of the
\* page that came first (except under QuickFit, which does not tell it about
\* deleted frames); LRU2 takes the page not used for longest from a full
\* memory, until a compaction moves frames.
EvictsOldest ==
    order # Off =>
       LET frame == NewFrame(pmem, ctl, ftable)
       IN  IF \A f \in Frames : ftable[f] # None
           THEN \A f \in Frames \ {frame} : <<Content(frame), Content(f)>> \in order
           ELSE pmem = "FIFO" => ftable[frame] = None

\* A compaction keeps every page that is in a frame there, keeps the order of
\* the processes, and leaves no hole in either memory.
CompactionKeeps ==
    [][stage'[1] = "compacted" /\ stage[1] # "compacted" =>
         /\ Resident' = Resident
         /\ Active' = Active
         /\ \A p, q \in Active : base[p] < base[q] <=> base'[p] < base'[q]
         /\ \A pg, x \in Pages : pg < x /\ ptable'[x].pid # None => ptable'[pg].pid # None
         /\ \A f, g \in Frames : f < g /\ ftable'[g] # None => ftable'[f] # None]_vars

=============================================================================
