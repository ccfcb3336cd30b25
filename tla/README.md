# Verification of OSdevelopment

The repository holds three exercises of an operating systems course. This
directory models them in TLA+, checks the models with TLC and proves with TLAPS, for
every number of threads, processes and pages, the safety properties of the race, its road, its graph and
scoreboard, of the three schedulers and of the memory simulator.

| directory | program | language |
| --- | --- | --- |
| `src/multithreadSync` | a velodrome race, one thread per biker | C, pthreads |
| `src/CPU-schedulers` | a shell and three CPU schedulers on simulated cores | C, pthreads |
| `src/EP3` | a simulator of memory allocation and paging | Python |

## 1. The system

### 1.1 Velodrome race (`multithreadSync`)

*Race threads, dummies and barriers* (`bikeSim.c`, `biker.c`, `bikeStructures.c`).
State: `lap`, `biker_status` and the thread of every biker; `sb.act_num_bikers`;
the table of dummy threads; the four barriers `start_shot`, `barr`,
`debugger_barr`, `prep_barr`, each for `num_bikers + 1` threads. A round is: all
bikers move, `barr`, those who broke or finished call `run_next` and exit while
the others take their semaphores back and write their edges, `debugger_barr`,
main computes who may change lanes, `prep_barr`. A biker that leaves starts a
dummy thread that waits at the barriers in its place. `while (sb.act_num_bikers
!= 0)` in main and in every dummy decides when the race is over.
*Hard*: three kinds of threads must agree on the last round although they read
the counter without its mutex; `V(&sb.scbr_mtx)` is the body of the `for` above it
and may be called several times. *Correct* means: nobody is left at a barrier,
main is alone while it classifies, the race ends, and only when nobody races.

*Road and movement* (`biker.c`, `try_move`). State: `speedway.road` with a mutex
per cell, `nbpl` (bikers per lane), every biker's position, `moved`, `moveType`
and its four semaphores `mtxs[k]` with `used_mtx[k]`. A biker waits for the bikers
in its way, then tries the inner lane, its own and the outer one. *Hard*: `nbpl`
and most cells are read without a mutex; waiting is a chain of semaphores around a
closed road; the lane just above is looked at under the wrong mutex. *Correct*
means: road and positions agree, no change of a count is lost, no unlock is lost, nobody
tries to move before the one ahead has, no circle of waits.

*Dependency graph* (`graph.c`): the edges of a round and Tarjan's strongly
connected components, which main turns into `moveType`; the stacks that hold the
components are kept from round to round. *Hard*: stacks are found by being empty, and
the directions are inverted in place. *Correct* means: the stacks hold exactly the
large components of this round, and the moves they lead to cut every circle.

*Scoreboard* (`bikeStructures.c`): a ring of buffers, one per lap that some have
completed and others not, the points, and `tot_num_bikers` per interval. *Hard*: several laps share
a slot, the ring is doubled while in use, bikers break between the crossings that
a report waits for. *Correct* means: no completed lap is lost, a report names everybody
once, the bonus goes to who is a lap ahead. *Randomizer*, *debugger*, *errors and
macros*, *scripts*: no state shared with the rest, but for the values drawn.

### 1.2 Schedulers (`CPU-schedulers`)

*Round robin* (`roundrobin.c`): a scheduler thread, a thread per process that
sleeps a quantum each time its own mutex is unlocked, a queue, and the cores
(`cores[i].n`, `.ready`) under `mtx`. A process that gives its core back signals
`gcond` without `gmtx`. *SJF* (`sjf.c`): the shortest arrived process goes to an
idle core as a new thread, which finds its core by looking `pthread_self()` up in
`coreCPU`; `CPU`, `idleCPU`, `pool` are under `mutex`, but the scheduler tests `idleCPU` and
`CPU` without it. *Priority* (`priorityScheduler.c`): round robin with a turn
whose length follows from running statistics, which the process threads read
while the scheduler changes them. *Correct* means: a process is in exactly one
place, a core belongs to one process, nobody overtakes, the program ends.
*Queue, stack, heap* (`queue.c`, `stack.c`, `minPQ.c`), *trace reader* (`ep1.c`), *shell*
(`ep1sh.c`), *timer and output* (`utilities.c`), *single-threaded variants* (`*MONO.c`,
not built by the Makefile), *scripts*.

### 1.3 Memory simulator (`EP3`)

*Simulator* (`simulator.py`): in every tick processes arrive (`malloc`), access a
page, end (`free`), and the memory may be compacted. *Free-space managers*
(`freeSpace.py`): best, worst and quick fit on a linked list of pieces. *Paginators*
(`paginators.py`): Optimal, FIFO, LRU2 (bit matrix) and LRU4 (aging). *Tables*
(`tables.py`). Single-threaded; *hard* because one fact is kept six times (the
map, the bases of the processes, the page table, the frame table, the control data
of the paginator, the lists of quick fit), and compaction rewrites all of them.
*Correct* means: they agree after every sequence of operations, and the paginator takes
away the page its algorithm names.

Every part, modelled or not, is listed under `components` in `PROJECT.json`, and
every place that is hard to test under `hazards`, with the properties that watch it.

## 2. The modules

| module | models | remarks |
| --- | --- | --- |
| `BikeRace` | race threads, dummies, barriers, `act_num_bikers` | refines `RaceRounds` |
| `RaceRounds` | what the barriers promise: rounds that everybody goes through together | abstract |
| `RoadMoves` | movement, semaphores, counts, classification | |
| `DependencyGraph` | `graph.c` and the loop of main between `debugger_barr` and `prep_barr` | |
| `Scoreboard` | the scoreboard and the changes of `tot_num_bikers` | |
| `CoreScheduler` | cores served by one queue: what the two schedulers below promise | abstract |
| `RoundRobin` | `roundrobin.c` | refines `CoreScheduler` |
| `PriorityScheduler` | `priorityScheduler.c` and `queue.c` | extends `RoundRobin`, refines `CoreScheduler` |
| `MinPQ` | `minPQ.c`: the heap, the loops of `swim` and `sink` as recursive functions | instantiated by `SJF` |
| `ProcArray` | the trace reader of `ep1.c` | used by `SJF` |
| `SJF` | `sjf.c`, the output file and `main` around it | |
| `FreeSpace` | `freeSpace.py`: operators on the map and on quick fit's lists | used by `Memory` |
| `Paginators` | `paginators.py`: operators on the control data | used by `Memory` |
| `Memory` | `simulator.py` and `tables.py` | extends both |
| `MC*` | the instances TLC checks | |
| `ProofLemmas` | induction over sets and numbers, loops, queues, sums, division | TLAPS |
| `BikeRaceProofs`, `RoadMovesProofs`, `DependencyGraphProofs`, `ScoreboardProofs` | theorems about the modules of the race | TLAPS |
| `SchedulerProofs` | theorems about `RoundRobin`, then about `PriorityScheduler`, which extends it | TLAPS |
| `SJFProofs` | theorems about `SJF`, its heap and the trace reader | TLAPS |
| `MemoryProofs` | theorems about `Memory`, the free-space managers and the paginators | TLAPS |

Definitions whose comment starts with "Mutant" are wrong versions of the next
definition. No specification uses them: they are substituted to see that a property
notices the mistake.

**BikeRace.** Every thread's variable `..._pc` says where it stands; a thread at a
barrier has the barrier's name as location, so the number of waiting threads is
derived and `Release` is the barrier opening. `act_num_bikers--` is a load and a
store. `unlocks` counts the calls of `V(&sb.scbr_mtx)` still to come: one when a
biker finishes, `Laps \div Span - lap \div Span` when it breaks. Dummies are named
after the biker whose `run_next` created them, `counted` is the part of the table
below `dummy_threads->i`, joined in any order. Crossing the line is a choice (the road is
in the other module), the coin of `event(0.01)` stands for `tot_num_bikers > 5` too. The
assumption `LapsAssumption` is what `laps % 20 == 0` and 15 give: no lap is both the last
one and one to break after.

**RoadMoves.** `pc[b]` is a stage and a side or lane; looking at `nbpl`, probing a
cell under its mutex, waiting, and each write of `try_move` to the road and the counts are
separate steps. `mymtx` is a variable, taken around `nbpl[j]--` and `nbpl[next_lane]++`
(`LockLanes` to `UnlockLanes`) and around the `nbpl--` of a biker that leaves (`LockOff` to
`UnlockOff`), which comes after that biker took itself off the road under the mutex of its cell (`LeaveRoad`).
`--` and `++` are a load and a store: the value loaded is in `count`. The load is part of the step
before, since no writer can come between as long as all of them hold `mymtx`; that they do is what the
mutant without `P(&speedway.mymtx)` breaks. `self->i` and `self->j` are read by their own thread and by
no other before `barr`, so both are written in one step with `moved` (`Place`). The barriers are the joint steps `Barr` and `Classify`. The size of a
component that counts is `length - 1`, as in `bikeStructures.c:252` and `graph.c:136`.
`LaneMoves` contains the inversion of the directions as the loop does it (it
exchanges DOWN of a lane with TOP of the next). The move to the outer lane is not guarded
by `moveType` (`biker.c:194`), as in the code. Speeds are drawn by `Event`, which may
return true only for a positive probability, and `Randint` is any value of its range.

**DependencyGraph.** One action per part of `SCC_aux`: entering a call, looking at an edge
to a new node (`Descend`), at one to a node seen before (`LookBack`), coming back to the caller,
and popping a component (`Collect`); `calls` is the stack of the C program. `UpTo` states the result of the loop that
empties the stack down to a node. `Classify` is what main does then, with the lanes drawn where they matter; `MovesOf` is its loop over the lanes as a
recursive function of the number of turns. Every round has another graph, and
`sccl` and the rest keep what the round before left.

**Scoreboard.** A round is: each biker stays or crosses the line once (`Cross` is the
whole of `add_score` and what follows it under `scbr_mtx`), then those that break
update `tot_num_bikers` interval by interval, a load and a store each, outside the mutex. A buffer
is the set of bikers in it, because nothing but printing uses their order. The assumption
`ScoreboardAssumption` says what the code relies on: `tot_num_bikers` is allocated with an entry
per 15 bikers and indexed per 15 laps (`bikeStructures.c:275`), so `laps / 15` must not exceed
`num_bikers / 15 + 1`; it also keeps to races in which a breaking biker unlocks `scbr_mtx` once, the
longer ones are the subject of `race_count`.

**RoundRobin, PriorityScheduler, CoreScheduler.** Time is counted in quanta; processes arrive in
the order of `t0`, at any moment, but the idle scheduler sleeps until one has come. Every pass
over the cores is a step per core under `mtx`. Waits may wake up spuriously. `dt0` and `missed` are history
variables. `PriorityScheduler` takes the actions of `RoundRobin` where the two
files agree and adds the statistics, each update in three assignments (`StoreMoment`,
`StoreAverage`, `StoreVariance`), the torn reads of `run` (`var` twice, `avg` once) and the linked
ring. Its arithmetic is exact; the one place where rounding decides, a variance and a distance that
are both zero, may give any turn. The shared refinement maps `cores[i].ready` and the
threads' locations to the phase of a core.

**SJF, MinPQ, ProcArray.** Threads are named after the process they were started for, which no
thread knows: it has its pthread id, and ids of dead threads are used again. Arrived processes are
admitted one per step (`Admit`), until the loop of `sjf.c:112` may have ended (`Admitted`): processes of one
arrival time are admitted together, and at least one is when the scheduler has slept with an empty heap. `coreCPU`
starts with arbitrary values because the code does not initialise it. The finishing
critical section is split store by store since the scheduler reads `idleCPU` and `CPU`
without the mutex. A join waits until no living thread has the id. `qsort` may leave equal
processes in any order (`CreateProcArray` is a set). `outInfo` is the array of pointers, NULL until a core
stores its line; `WriteOutput` sorts it, or crashes on a NULL.

**Memory.** Positions are counted in pages (`page_size` is a multiple of the allocation unit
and every process gets whole pages). `stage` keeps the order inside a tick:
arrivals, accesses in the order of pids, ends, compaction, `update`. The trace is
nondeterministic; only Optimal looks into the future, so only with it does `due`
hold the time of a process's next access. `frame # None` is `bit_p`. A malloc without space
ends the simulation, as `exit()` does; so does a compaction of a full memory, where
`simulator.py:122` or `:130` indexes past the table. The rows of LRU2's matrix and the timers of LRU4, numbers of as many bits as
there are frames, are the sets of their bits and compared as binary numbers. The loops over pages (deleting
the frames of a process, looking at every page in a compaction) and over frequent sizes are recursive functions of the
number of turns. The first pass of a compaction is stated by its result: a used page goes to the number of
used pages below it (`Packed`), a process to the place of the number of processes below it (`Nth`). The bytes of the memory
files follow the tables and are left out. `order` is a history variable: the pairs of resident pages of which
FIFO or LRU2 has to give up the first one first; it is `Off` where the code keeps no such order.

## 3. What is checked

Deadlock is checked in every run but `road`, where a circle of waits stops the round; each specification has a step
for the finished program, or never ends (`DependencyGraph`).

| run | instance | distinct states | result |
| --- | --- | --- | --- |
| `race` | 3 bikers, 2 laps, breaking after lap 1 | 94 000 | invariants, refinement of `RaceRounds`, the race ends |
| `race_count` | the same with 4 laps | | **violated**: `act_num_bikers` loses a decrement |
| `race_destroy` | 2 bikers, 2 laps | | **violated**: the dummies' table is freed while a dummy is created or runs |
| `road` | 4 bikers, 3 lanes, 4 meters, 3 laps, speeds drawn as in `OthersCatchUp` | 635 000 | road and positions agree, no count and no unlock is lost, the one ahead has moved; the race ends unless a circle of waits goes around the road |
| `road_circle` | the same with all speeds, nobody breaks | | **violated**: a lane fills, and all of it waits for the one ahead |
| `scc` | 4 bikers, 3 lanes, every graph, any number of rounds | 454 000 | the components are found, their circles cut |
| `score` | 3 bikers, 7 laps, breaking in the fifth, points every second lap | 685 000 | no lap lost, reports complete, the bonus goes to who earned it |
| `rr` | 3 processes, 2 cores, up to 2 quanta | 222 000 | one place per process, refinement of `CoreScheduler`, ends unless the signal is lost |
| `prio` | the same, priorities 1 and 9 | 2 053 000 | statistics exact, ring is the queue, refinement of `CoreScheduler` |
| `sjf` | 3 processes, 2 cores, 3 ids | 73 000 | cores found and counted; nothing lost; shortest first; ends unless the signal is lost |
| `sjf_output` | 2 processes, 2 cores | | **violated**: the output is written before a process has left its line |
| `mem` | 3 processes of 1-3 pages, 4 pages, 2 frames; 3 managers; Optimal, FIFO, LRU2, LRU4 | 673 000 | tables, map, lists and eviction order agree, compaction keeps everything |

**What the properties say.** `RefinesRounds`, `NobodyStranded`, `LoopReadStable`, `NoEarlyEnd`: main, bikers
and dummies agree on every round and on the last one. `RoadMatchesBikers`,
`LaneCountsExact`: no biker is lost, doubled or ridden over, and no load and store of a lane's count overwrites
another, whatever the others do between the writes of a move or of a departure. `NoCircle`: no bikers wait for each
other in a circle, which is false; `EndsOrCircles`: nothing else stops the race, and a circle that does has a biker
on every meter (`CircleGoesAround`). `NoUnlockLost`, `HandshakesOver`, `AheadHasMoved`: the semaphores. `StacksHoldComponents`
compares Tarjan's algorithm with reachability on every graph; `CirclesAreCut` is what main
wants from it. `NothingLost`: each completed lap is in exactly one buffer or report.
`ReportsWaitForAll`: a report names each biker once, except those breaking in that very
round. `RefinesCores` contains first come first served, no idle core while somebody waits, one turn per
handing out; `LeavesWhenAllDone` also compares the counted context changes with the turns. `StatsExact`
compares the three running numbers with their definitions; `RingIsQueue` the links with the
sequence. `GetCoreFindsOwn`, `IdleCountExact`: ids used again are harmless, because cores are filled from the first.
`TablesAgree`, `MapMatchesTable`, `QuickListsFresh`, `EvictsOldest`, `CompactionKeeps`: the six copies of one fact.

**Why these bounds.** *race*: three bikers are the fewest for which one breaks, one
finishes and one goes on in the same round. Laps 2, Span 2 stands for 20 laps, where a
breaking biker unlocks `scbr_mtx` at most once; Laps 4 is the shortest race in
which it unlocks twice, as from 40 laps on. *road*: three lanes make an inner, a middle
and an outer one. A lane of four meters is full after two bikers that wait for nobody in common (on meters 0 and 2)
have read its count and both enter it, and its bikers are all due at once when two of them have come from behind: four
meters, two lanes to change from and three laps to catch up are the smallest instance found in which a circle
forms. All draws of speeds give more than 20 million states, so `OthersCatchUp` keeps the first biker slow and lets the
others ride at 60 km/h from their second lap on, one of them at any speed in its third: circles occur in it,
and every order of the steps remains. A state that draws another speed is not continued, and as each draw may
also give one that is kept, no run is cut off without a continuation. With Span 3 everybody may break after the second completed lap.
`road_circle` has no such restriction. *scc*: all 4096 graphs of four
nodes have circles of two, three and four, and two components at once; Threshold 2 lets two stacks be in use.
*score*: seven laps begin with a ring of three slots, which is doubled at the third lap ahead and again at the
sixth; Sprint 2 puts points on half of the laps; three bikers let one be lapped by another while the third breaks.
*rr*, *prio*: two cores and three processes are the smallest instance with somebody waiting in the queue
while two run; two quanta make a process come back; a polynomial priority of 1 and a default of 9 make
variances zero and not zero. *sjf*: three processes on two cores make one core be used twice, with an id used
again; each is shorter than those before, so that the heap has to move it up. The heap alone is
compared with its definition for six processes of all durations up to three (`MCSJF`), where its array
grows twice and is halved. *mem*: three processes make holes between others and fill four pages, with which the memory is compacted full as well; two lists of
quick fit suffice for taking from one, losing pieces to a split and rebuilding both; with two frames every fault
after the second evicts. LRU order among three frames was not affordable with four paginators.

**Fairness.** Threads that can run do (weak fairness per thread), full barriers
open, and a thread that asks for a mutex again and again gets it (strong
fairness on the acquisitions), which is what pthreads on a fair scheduler give. One
assumption is about the abstraction: in `BikeRace` a biker that may cross the
line in infinitely many rounds does (the road is abstracted: `RaceEnds` is about the barriers, and
says nothing of a round that a circle of waits stops). In `RoadMoves` no thread runs for ever without
the others, so it is enough that some step is taken as long as one can be (`WF_vars(Next)`).
Spurious wake-ups may happen and are never assumed. `Memory`, `Scoreboard`, `DependencyGraph` and
`PriorityScheduler` have no liveness property: the first two end because the trace and the race do, the third is a
terminating loop inside a round, and the threads of the fourth are those of `RoundRobin`.

**Disagreements found.** Those with a run are listed under `findings`: a lost decrement of
`act_num_bikers`, the dummies' table destroyed too early, a lane that fills and stops the race, an output
written before its last line exists. Seen and
modelled as the code has them, without a run:

* The schedulers lose a signal sent between the test and the wait (`roundrobin.c:132`, `sjf.c:134`);
  `EndsOrLosesSignal` says that nothing else stops them.
* `run` tests `var` and divides by it after the scheduler may have made it zero
  (`priorityScheduler.c:169`); `fmin` hides the infinity.
* `biker.c:214` tests the count of the interval that is ending, which never changes, so all bikers may break
  at once; the decrements of `tot_num_bikers` are unprotected and may be lost. Either leaves later laps
  unreported, and the draw of the fast biker (`bikeStructures.c:140`) then has nobody to find.
* `moveType` does not restrict moves to the outer lane, against slide
  `multithreadSync/overleaf/Presentation.tex:205`. The wait for the one ahead (`biker.c:158`) looks at no
  `moveType` either, which is what lets the full lane of `road_circle` stop.
* `finished++` (`roundrobin.c:192`) can number two lines alike.
* FIFO under quick fit evicts while frames are free (`freeSpace.py:320` does not
  tell the paginator); LRU2 can evict a younger page after a compaction (`swap_frames`
  exchanges rows and not columns), LRU4 leaves its bits behind; LRU2, LRU4 and Optimal
  prefer the lowest frame among equals, which may be in use while another is free.

## 4. What is proved

The theorems hold for all values of the constants that satisfy the `ASSUME` of the module;
TLC evaluates the same assumptions on its instances. Each proof has an inductive
invariant, a conjunction of named parts that the header of the module lists, a lemma or a step
per action, and a lemma where an argument is not about the shape of the code.

| module | invariants and action properties of the runs that are proved | also proved |
| --- | --- | --- |
| `BikeRaceProofs` | `TypeOK`, `LoopReadStable`, `ClassifyAlone`, `NobodyStranded`, `NoEarlyEnd`, `NeverDies`, `RefinesRounds` (in races of fewer than two intervals) | `ActiveCountExact` in the same races |
| `RoadMovesProofs` | `TypeOK`, `RoadMatchesBikers`, `LaneCountsExact`, `NoUnlockLost`, `HandshakesOver`, `AheadHasMoved` | `CircleGoesAround`; `NoCircle` with fewer bikers than meters |
| `DependencyGraphProofs` | `StacksHoldComponents`, `CirclesAreCut` | what `Reach` and `MovesOf` compute |
| `ScoreboardProofs` | `NothingLost`, `ReportsWaitForAll`, `BonusEarned` | |
| `SchedulerProofs`, round robin | `TypeOK`, `NobodyLostOrDoubled`, `RunsOnItsCore`, `LeavesWhenAllDone`, `RefinesCores` | the invariant for turns of any length |
| `SchedulerProofs`, priorities | `StatsExact`, `RingIsQueue`, `RefinesCores` | `NobodyLostOrDoubled`, `RunsOnItsCore` |
| `SJFProofs` | `TypeOK`, `GetCoreFindsOwn`, `IdleCountExact`, `NobodyLost`, `ServesShortest` | the heap, the trace reader |
| `MemoryProofs` | `TablesAgree`, `MapMatchesTable` (with `TypeOK`), `QuickListsFresh`, `EvictsOldest`, `CompactionKeeps` | what `Malloc`, `Free` and `ReorderReferences` keep |

**Race (`BikeRaceProofs`).** That main is alone in `classify` depends on where it was at the last
barriers, so `IInv` adds to the types `StatusOK` (where a biker stands tells whether it still
races), `DummyOK` (a dummy exists exactly for a biker past `run_next`), `PhaseOK` (where main stands
bounds where everybody else can be) and `CountOK` (`act_num_bikers`, and every loaded value about
to be stored, is at least the number of bikers that have not stored their decrement). `FullMeansAll`
says by a cardinality argument that a full barrier holds main and, for each biker, the biker or its
dummy: a biker with a dummy waits at no barrier. `CountOK` is an inequality on purpose: the equation
fails in `race_count`, so the safe end of the race does not depend on the lost decrement, only its
coming to an end does. Under `Short` (`Laps < 2 * Span`, which 20 laps are) a breaking biker unlocks
`scbr_mtx` once; then the mutex excludes, the count is exact (`CountsShortRaces`) and every step is a step of
`RaceRounds` or a stutter (`ShortRacesGoInRounds`). The run `race_count` shows that the hypothesis cannot go.

**Road (`RoadMovesProofs`).** A move writes two cells and two counts, the mover being in two cells or in
no lane in between, so the invariant ties each cell and lane count to the stage of the biker concerned. That no
count is lost rests on `MutexOK` (who stands between `P` and `V` is who holds `mymtx`, so there is one) and `LoadedOK`
(what it has loaded is still what `nbpl` holds); the set of those counted in a lane then loses or
gains exactly the biker that stores (`CountsMove`, `CountsLeaving`), and at every other step stays as it is. For
the semaphores the argument is about geometry: one `V` wakes one waiter, so a biker that
waits is safe only if nobody else waits on the same semaphore (`OneWaits`). Two bikers that watch one cell
from the same side are one biker, and a biker cannot leave a cell while its mutex is held for the look, which settles
the sides 0 to 2. For side 3 the code holds the mutex of another cell, so two bikers might
wait for one that is between two cells, one below its old cell and one below its new one. `NotOnBothSides` excludes that, a case for
each move: it would not have moved on with the biker ahead still to move (`AheadOK`), and would not have moved out with the biker
below still to move (`BelowOK`).

Circles need no more of the state than the invariant has. Who is in one has not moved, so each waits for somebody
who is in the cell it looked at (`CircleWatches`): one meter on, or beside it one lane further in. Of those of the
circle on one meter, the one of the innermost lane cannot wait for the lane beside, so the circle has somebody on the
next meter (`CircleGoesOn`), and the meters it touches are all of them (`AroundTheRoad`). That is `CirclesAreAround`; counting
meters gives `FewBikersNoCircle`, whose hypothesis cannot go, as `road_circle` shows.

**Dependency graph (`DependencyGraphProofs`).** That Tarjan's algorithm collects exactly the classes of nodes that reach each
other is a statement about paths of any length, while a step looks at one edge. The invariant bridges this with two facts about the
stack (`PathsOK`): the node of a call reaches everything above it on the stack, and everything on the stack reaches the
node of a call at or below its place. `LowOK` says that `low` of a call's node is the number of a node on the stack which it
reaches, and bounds the numbers to which the edges lead that were looked at from it and from the nodes above it whose calls have returned
(`Returned`). A call that returns with a smaller `low` therefore reaches a call below it (`EarlierReached`), which keeps
`PathsOK`. If `low` is its own number, no edge leaves what is above it but to finished components (`CollectedIs`);
these are closed (`EdgesOK`), so no path comes back, and what is above it is one component. Of `Reach`, a loop over the intermediate nodes as in
Warshall's algorithm, only four facts are used (`ReachIs`): it contains the edges, is reflexive and transitive, and leaves no
set that no edge leaves; each follows from an invariant of the loop (`Through`). The list of stacks holds the large ones among the finished
components (`Holds`); components are disjoint, so at most `V \div Threshold` stacks are in use (`UsedFew`) and the list stays short over all
rounds. `CirclesAreCut` rests on the loop of main: after turn `i` the lanes up to `i` have DOWN exactly if the next one had TOP, and
the next one TOP exactly if they had DOWN (`Exchanged`), although each turn reads lanes that the turn before has changed.

**Scoreboard (`ScoreboardProofs`).** The claim to prove is that doubling the ring once always makes room,
although the laps in it can be far apart. `LiveOK` holds the reason: no biker has completed a lap that is a
ring's size or more ahead of a live buffer. So a lap that collides with an older one is exactly one ring's
size ahead (`LiveEarlier`), which in a ring twice as large is another slot (`RingForLap`). The decrements of
`tot_num_bikers` may be lost, so again there is an inequality (`CountOK`): the count is at least the number of those that stay,
hence a complete buffer holds everyone that stays (`CompleteHasAll`). For the bonus, a buffer of one biker in
the slot before is that of the lap before exactly when nobody else has completed that lap (`LonelyIsAlone`).
Each report is of a lap only one biker completes in the step (`ReportStep`).

**Schedulers (`SchedulerProofs`).** The invariant relates the unlock of a process's own mutex
(`open`), its place, its core and the queue (`ServedOK`, `ThreadOK`, `QueueOK`), says that who has work left waits or
is on a core, and what the pass over the cores has found so far (`PassOK`). How long a turn is matters nowhere:
the steps are proved for `Sleep`, a turn of any length, which `Run` implements in both modules, so the torn
reads of `var` and `avg` cannot break the scheduling. From the invariant each step of the code is a step of
`CoreScheduler` or a stutter. For the statistics `StatsOK` says after each of the three assignments what the numbers are, as
equations between multiples (`count * avg` is the sum), under the hypothesis of `StatsExact` that the divisions are
exact. `RingOf` is the doubly linked ring, node by node, preserved by additions at the end and removals of the head.

**Shortest job first (`SJFProofs`).** The invariant is the types with `HeapOK` (who has arrived and was not started is in
the heap once, the heap is ordered and fits into its array), `ThreadOK` (where a thread stands tells what it has in its
hands; living threads have different ids), `CoreOK`, `MutexOK`, `CountOK` (between its two stores a finishing thread is
counted apart), `AssignOK` and `OutputOK` (who has left its line). Ids used again are harmless for a reason that
spans the loop over the cores: when core `c` gets a thread, all cores before it are busy (`AssignOK`), each with the id of
a living thread (`CoreOK`), so the new id, which no living thread has, is met at `c` first, and later writes go to
cores further on or to cores of threads that have ended. For the heap, `SwimTurnKeeps` and `SinkTurnKeeps` say that a turn
of either loop keeps the elements and leaves one pair that may be out of order, and that the loop is over when there is none;
`InsertKeeps` and `DelMinKeeps` follow, for every order of the elements and every heap, and `ServesShortest` needs
of them that the first element is a least one. `ReadyJobsAre` says of the trace reader that whatever `qsort` does
with equal processes, every line of the trace is in the array once, so no two threads store their output in one place.

**Memory (`MemoryProofs`).** The invariant is `Typed`, `Mapped` (the pieces cover the memory without gaps and the used ones are
the active processes), `ListsMapped` (each entry of a list of quick fit is a free piece of that size, once), `Owned` (the
page table names the owner of every page), `TablesAgree`, `Queued` (the list of FIFO has the frames in use, in the order of
their arrival) and `Ranked` (the bits of LRU2's matrix between frames in use are the order of their last uses, which is
total). `MapMatchesTable` and `TablesAgree` are not inductive without the others: a free piece
is given out because a list names it, and a list is right because the map was. `MallocGives`, `FreeTakes` and `ReorderGives` say for every map
and every lists what the three managers do to pieces and entries; `ReplaceIs` and `ReplaceChain` are about the one surgery all of
them are made of, the run of pieces from `i` to `j` replaced by others. Frames in use have a bit against each other only in one
direction, so the lowest row of a full memory is the frame all others come after (`OldestOut`); frames that a process left are the reason
why this is claimed of a full memory only. For compaction, ranks do the work: the ranks of a finite set of numbers have no gaps (`RankIs`), so
`Packed` is a bijection onto an initial part of the memory that keeps the order and the offsets inside a process (`PackedStep`,
`PackedProcess`), and the pieces of the new map are those of the processes in their order (`PackedMapIs`). The loop over the frames has
the invariant `Packing(k)`: no page has lost its frame, the frames in use are those of the pages, the first `k` pages stand in frames below which
none is free and which know their new numbers, FIFO's list follows the pages that moved, and either nothing has moved or a frame is in use that was
not before (`Stayed`), which is how the model recognises that LRU2's columns are out of date. After the last turn no frame below one in
use is free (`CompactionKeeps`). The frame table is wrong in the middle of the loop, where entries still hold old page numbers, and no
part of `Packing(k)` needs those.

**Lemmas (`ProofLemmas`).** The library's induction theorems take a predicate, so induction is proved
here about a set: the family of subsets, or the set of numbers, for which the statement holds. A smallest counterexample
comes from the well-founded order of finite subsets. With it the recursive function behind the library's folds is
shown to exist, and what it computes: `SumAdd`, `SumSame`, `SumChange`, `SumScale`; `MinIn` and `MaxIn` are about the
extremes of sets, `SequenceSize` about the length of a sequence without repetitions. A loop of the
code is a function of the number of its turns; `LoopExists` and `LoopInvariant` say that there is one and that it keeps
what each turn keeps, `StagedLoop` the same for a loop whose invariant names the turn.

**Only model-checked.** Liveness (`RaceEnds`, `EndsOrCircles`, `EndsOrLosesSignal` of both schedulers) and
everything with `ENABLED`: outside the prover's reach. That the heap's array is halved only when little of it is used, and grows back, is checked for six
processes in `MCSJF`; proved is that it is always long enough.

## 5. What is not modelled

* The shell (`ep1sh.c`): a sequential loop that reads a line, forks and waits for that one child.
  No state outlives a command.
* The single-threaded variants (`*MONO.c`): earlier versions that the Makefile does not build.
* Debugger, error wrappers, timer, parsing of arguments, formatting of the outputs, the scripts that generate inputs and plots,
  the command shell of the memory simulator: input and output without state the others depend on.
* The random numbers are nondeterministic choices. The memory files repeat the tables.
* The loop that draws the fast biker (`bikeStructures.c:140`) is one choice among those who have not
  broken; that it ends is a matter of probability, not of fairness.
* Undefined behaviour outside the assumptions: `tot_num_bikers` past its end, `pthread_join` of a detached thread.

## 6. Plan

The models are in place, and every safety property and every refinement of the passing runs is proved. What a continuation could take up is
liveness, which rests on the runs, and the exact sizes of the heap's array; then the parts listed as `partly` in
`PROJECT.json`, none of which holds state the others depend on.
