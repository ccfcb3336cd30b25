----------------------------- MODULE Paginators -----------------------------
(***************************************************************************)
(* The page replacement algorithms of the memory simulator                 *)
(* (paginators.py) as operators on their control data: the list of FIFO,   *)
(* the bits of LRU4 and the next accesses of Optimal.  The rows of the bit *)
(* matrix of LRU2 and the timers of LRU4, numbers of NumFrames bits in the *)
(* code, are the sets of the bits that are 1.                              *)
(***************************************************************************)
EXTENDS Integers, Sequences, FiniteSetsExt, SequencesExt

CONSTANTS
    NumFrames,  \* tot_pages of a paginator: the frames of the physical memory
    MaxGap      \* bound: ticks between two accesses of a process

ASSUME PaginatorAssumption == NumFrames \in Nat \ {0} /\ MaxGap \in Nat

AllPaginators == {"Optimal", "FIFO", "LRU2", "LRU4"}

Frames == 0 .. NumFrames - 1
None == -1
Never == MaxGap + 1     \* math.inf: more than any number of ticks

Control ==
    [next : [Frames -> 0 .. Never], fifo : SeqOf(Frames, NumFrames),
     matrix : [Frames -> SUBSET Frames], timer : [Frames -> SUBSET Frames],
     bit_r : [Frames -> BOOLEAN]]

NewControl ==
    [next |-> [f \in Frames |-> Never], fifo |-> << >>, matrix |-> [f \in Frames |-> {}],
     timer |-> [f \in Frames |-> {}], bit_r |-> [f \in Frames |-> FALSE]]

\* The order of binary numbers.
Below(bits1, bits2) == bits1 # bits2 /\ Max(SymDiff(bits1, bits2)) \in bits2

LowestFrame(bits) == Min({f \in Frames : \A g \in Frames : ~Below(bits[g], bits[f])})

\* Where the process will not come back for longest.
FarthestFrame(ctl) == Min({f \in Frames : \A g \in Frames : ctl.next[g] <= ctl.next[f]})

\* A free frame as long as the list is shorter than the memory.
NextInLine(ctl, ftable) ==
    IF Len(ctl.fifo) = NumFrames THEN Head(ctl.fifo) ELSE Min({f \in Frames : ftable[f] = None})

\* get_new_frame: only FIFO asks whether a frame is free.
NewFrame(pmem, ctl, ftable) ==
    CASE pmem = "Optimal" -> FarthestFrame(ctl)
      [] pmem = "FIFO"    -> NextInLine(ctl, ftable)
      [] pmem = "LRU2"    -> LowestFrame(ctl.matrix)
      [] pmem = "LRU4"    -> LowestFrame(ctl.timer)

\* FIFO appends the frame of a page fault and has dropped it when the list
\* was full.
Enqueued(ctl, frame) ==
    Append(IF Len(ctl.fifo) = NumFrames THEN Tail(ctl.fifo) ELSE ctl.fifo, frame)

\* The control data after an access to a frame; the next access of the
\* process is in gap ticks.
Touched(pmem, ctl, frame, fault, gap) ==
    CASE pmem = "Optimal" -> [ctl EXCEPT !.next[frame] = gap]
      [] pmem = "FIFO"    -> IF fault THEN [ctl EXCEPT !.fifo = Enqueued(ctl, frame)] ELSE ctl
      [] pmem = "LRU2"    -> [ctl EXCEPT !.matrix =
                                [f \in Frames |-> (IF f = frame THEN Frames ELSE @[f]) \ {frame}]]
      [] pmem = "LRU4"    -> [ctl EXCEPT !.bit_r[frame] = TRUE]

\* swap_frames: LRU2 exchanges the rows and not the columns, LRU4 the timers
\* and not the bits.
Swapped(pmem, ctl, f1, f2) ==
    LET Other(f) == CASE f = f1 -> f2 [] f = f2 -> f1 [] OTHER -> f
        Exchanged(x) == [f \in Frames |-> x[Other(f)]]
    IN  CASE pmem = "Optimal" -> [ctl EXCEPT !.next = Exchanged(@)]
          [] pmem = "FIFO"    -> [ctl EXCEPT !.fifo = [i \in DOMAIN @ |-> Other(@[i])]]
          [] pmem = "LRU2"    -> [ctl EXCEPT !.matrix = Exchanged(@)]
          [] pmem = "LRU4"    -> [ctl EXCEPT !.timer = Exchanged(@)]

\* Mutant: FIFO keeps the frames of processes that end.
DeletedNever(pmem, ctl, frame) == ctl

\* delete_frame, the control data's part of it.
Deleted(pmem, ctl, frame) ==
    CASE pmem = "Optimal" -> [ctl EXCEPT !.next[frame] = Never]
      [] pmem = "FIFO"    -> [ctl EXCEPT !.fifo = RemoveFirst(@, frame)]
      [] pmem = "LRU2"    -> [ctl EXCEPT !.matrix[frame] = {}]
      [] pmem = "LRU4"    -> [ctl EXCEPT !.timer[frame] = {}]

\* The ticks left until an access, one tick later.
Later(ticks) == IF ticks \in {0, Never} THEN Never ELSE ticks - 1

\* A timer is shifted to the right.
Aged(timer) == {bit - 1 : bit \in timer \ {0}}

\* update, at the end of every tick.  LRU4 ages the timers only in ticks with
\* an access.
Updated(pmem, ctl) ==
    LET aged(f) == IF \E g \in Frames : ctl.bit_r[g] THEN Aged(ctl.timer[f]) ELSE ctl.timer[f]
        top(f) == IF ctl.bit_r[f] THEN {NumFrames - 1} ELSE {}
    IN  CASE pmem = "Optimal" -> [ctl EXCEPT !.next = [f \in Frames |-> Later(@[f])]]
          [] pmem = "LRU4"    -> [ctl EXCEPT
                                    !.timer = [f \in Frames |-> aged(f) \union top(f)],
                                    !.bit_r = [f \in Frames |-> FALSE]]
          [] OTHER            -> ctl

=============================================================================
