------------------------------ MODULE FreeSpace ------------------------------
(***************************************************************************)
(* The free-space managers of the memory simulator (freeSpace.py) as       *)
(* operators on the memory map, the linked list of pieces of memory.       *)
(* Sizes and positions are counted in pages: page_size is a multiple of    *)
(* the allocation unit and every process gets whole pages.  refs maps each *)
(* frequent size of QuickFit to its list of free pieces, by their bases;   *)
(* for BestFit and WorstFit it is empty.                                   *)
(***************************************************************************)
EXTENDS Integers, Sequences, FiniteSetsExt, SequencesExt

Managers == {"BestFit", "WorstFit", "QuickFit"}

Piece(status, base, qtd) == [status |-> status, base |-> base, qtd |-> qtd]
End(piece) == piece.base + piece.qtd

IsFree(map, i) == i \in DOMAIN map /\ map[i].status = "L"
At(map, base) == CHOOSE i \in DOMAIN map : map[i].base = base

\* The pieces from i to j are replaced by the given ones.
Replace(map, i, j, pieces) == SubSeq(map, 1, i - 1) \o pieces \o SubSeq(map, j + 1, Len(map))

-----------------------------------------------------------------------------
(* Where a process of n pages goes: the free pieces from the first to the
   last of the pair. *)

Fitting(map, n) == {i \in DOMAIN map : IsFree(map, i) /\ n <= map[i].qtd}

BestPiece(map, n) ==
    Min({i \in Fitting(map, n) : \A j \in Fitting(map, n) : map[i].qtd <= map[j].qtd})

WorstPiece(map, n) ==
    Min({i \in Fitting(map, n) : \A j \in Fitting(map, n) : map[i].qtd >= map[j].qtd})

\* QuickFit: a run of free pieces, taken from its first piece on.
Spans(map, n) ==
    {s \in (DOMAIN map) \X (DOMAIN map) :
        /\ ~IsFree(map, s[1] - 1)
        /\ \A k \in s[1] .. s[2] : IsFree(map, k)
        /\ s[1] <= s[2] /\ End(map[s[2]]) - map[s[1]].base >= n}

FirstSpan(map, n) ==
    CHOOSE s \in Spans(map, n) : \A t \in Spans(map, n) : s[1] < t[1] \/ (s[1] = t[1] /\ s[2] <= t[2])

Span(fspc, map, n) ==
    CASE fspc = "BestFit"  -> <<BestPiece(map, n), BestPiece(map, n)>>
      [] fspc = "WorstFit" -> <<WorstPiece(map, n), WorstPiece(map, n)>>
      [] fspc = "QuickFit" -> FirstSpan(map, n)

\* A piece of a frequent size waits in its list.
Listed(refs, n) == n \in DOMAIN refs /\ refs[n] # << >>

HasSpace(fspc, map, refs, n) ==
    IF fspc = "QuickFit" THEN Listed(refs, n) \/ Spans(map, n) # {} ELSE Fitting(map, n) # {}

\* Mutant: the pieces taken stay in the lists.
StillListedAll(map, refs, span, s) == refs[s]

\* The list of size s without the pieces of the span, which leave it one by one.
StillListed(map, refs, span, s) ==
    LET left[n \in 0 .. span[2]] ==
          IF n < span[1] THEN refs[s]
          ELSE IF map[n].qtd = s THEN RemoveFirst(left[n - 1], map[n].base) ELSE left[n - 1]
    IN  left[span[2]]

\* malloc: the map, the lists and the base of the new process.
MallocFromList(map, refs, n) ==
    LET base == Last(refs[n])
    IN  [map |-> [map EXCEPT ![At(map, base)].status = "P"],
         refs |-> [refs EXCEPT ![n] = Front(@)],
         base |-> base]

MallocFromSpan(fspc, map, refs, n) ==
    LET span == Span(fspc, map, n)
        base == map[span[1]].base
        rest == End(map[span[2]]) - (base + n)
    IN  [map |-> Replace(map, span[1], span[2],
                         <<Piece("P", base, n)>>
                         \o (IF rest = 0 THEN << >> ELSE <<Piece("L", base + n, rest)>>)),
         refs |-> [s \in DOMAIN refs |-> StillListed(map, refs, span, s)
                                         \o (IF rest = s THEN <<base + n>> ELSE << >>)],
         base |-> base]

Malloc(fspc, map, refs, n) ==
    IF Listed(refs, n) THEN MallocFromList(map, refs, n) ELSE MallocFromSpan(fspc, map, refs, n)

-----------------------------------------------------------------------------
\* A free piece of no frequent size can be joined with its neighbours.
Joins(map, refs, k) == IsFree(map, k) /\ map[k].qtd \notin DOMAIN refs

FirstJoined(map, refs, i) == IF Joins(map, refs, i - 1) THEN i - 1 ELSE i

LastJoined(map, refs, i) == IF Joins(map, refs, i + 1) THEN i + 1 ELSE i

\* free: a piece of a frequent size goes to its list, any other is joined
\* with its free neighbours.
Free(map, refs, base) ==
    LET i == At(map, base)
        first == FirstJoined(map, refs, i)
        last == LastJoined(map, refs, i)
    IN  IF map[i].qtd \in DOMAIN refs
        THEN [map |-> [map EXCEPT ![i].status = "L"],
              refs |-> [refs EXCEPT ![map[i].qtd] = Append(@, base)]]
        ELSE [map |-> Replace(map, first, last,
                              <<Piece("L", map[first].base, End(map[last]) - map[first].base)>>),
              refs |-> refs]

-----------------------------------------------------------------------------
\* reorder_references: for every frequent size up to max, as many pieces as its
\* list had are cut off the last piece, as long as it is large enough.
ReorderReferences(map, refs, max) ==
    LET end == Last(map)
        Cut(state, s) ==
            LET count == Min({Len(refs[s]), (End(end) - state.base) \div s})
                bases == [x \in 1 .. count |-> state.base + (x - 1) * s]
            IN  [base |-> state.base + count * s,
                 map |-> state.map \o [x \in 1 .. count |-> Piece("L", bases[x], s)],
                 refs |-> [state.refs EXCEPT ![s] = bases]]
        cut[s \in 0 .. max] ==
            IF s = 0 THEN [base |-> end.base, map |-> Front(map), refs |-> refs]
            ELSE IF s \in DOMAIN refs THEN Cut(cut[s - 1], s) ELSE cut[s - 1]
        all == cut[max]
    IN  [map |-> IF all.base = End(end) THEN all.map
                 ELSE Append(all.map, Piece("L", all.base, End(end) - all.base)),
         refs |-> all.refs]

=============================================================================
