# A verification project for vcube

vcube (`src/`) finds shortest solutions of Rubik's cube in the half-turn metric.
At its first start it generates a *pruning table* (the distances of several billion
positions of a reduced cube), keeps it in a file or in shared memory, and then
answers one cube per line of its standard input with a pool of worker threads.

This directory holds TLA+ modules for the parts of vcube in which order,
concurrency, failure or layout can go wrong, TLC configurations that check them on
small instances, and proofs of properties that hold for every instance.

Run a model:   `tlc -config EdgeScan_row.cfg MCEdgeScan.tla`
Check proofs:  `tlapm PruneGeneratorProofs.tla`, and so on for the eight modules `*Proofs.tla`

Contents: 1 inventory, 2 plan, 3 modules, 4 runs, 5 findings, 6 fairness,
7 proofs, 8 what is not modelled.

---------------------------------------------------------------------------

## 1. Inventory

| Component | Code | State it keeps | Operations |
|---|---|---|---|
| Pruning table generator | `nxprune_generator.h` | the table (2-bit entries in 16-byte stripes with a 4-bit minimum), `neighbors`, `dirty`, `busy`, `done`, `found`, one mutex | `getNeighbors`, `generate` (a pass per depth, worker threads per pass), `generateCornerPair`, `zero_visited` |
| Corner symmetry index | `nxprune.cpp`, `nxprune.h` (`prune_base`) | `index[2187]` (base, array), `os_unique[139]` arrays of (offset, symmetry) | constructor, `sym_coord`, `get_sym`, `getCornerRepresentatives` |
| Edge coordinates | `nxprune.h` (`ecoord`, `ecoord_rep`) | none (pure), tables of representatives | `ecoord(cube)`, `decode`, `ecoord_rep::get` |
| Pruning lookup | `nxprune.h` (`prune`) | none beside the table | `prefetch`, `fetch`, `lookup`, `initial_depth` |
| Optimal search | `nxsolve.h`, `nxsolve.cpp` | the queue of positions at depth 4, `moves[]`, `axis_mask_expand`, `last_face_mask` | `init`, `solve`, `search`, `queue_search`, `get_moves` |
| Worker pool | `vc-optimal.cpp` (`solver`, second part) | `mtx`, `out_mtx`, `next_id`, the deque `solutions` | read a line, solve, print |
| Table persistence | `nxprune.cpp` (`save`, `load`, `loadShared`), `alloc.cpp`, first part of `solver` | table file, temporary file, shared memory segment | load, attach, create, generate, save |
| Move sequences | `util.cpp`, `util.h` | none (pure) | `parse`, `canonical`, `to_string` |
| Cube algebra and views | `cube.h`, `cube.cpp`, `cube6.h`, `sse_cube.h`, `avx2_cube.h`, `util.h`, `types.h` | none (pure) | composition, inverse, parity, turns, conjugation, coordinates and their setters, six views |
| Input formats reid, speffz | `cube.cpp` | the variables of a parser | `from_moveseq`, `from_reid`, `to_reid`, `from_speffz` |
| Constant tables | `const-cubes.h`, `gen-const-cubes.cpp` | constants, printed once by a program and kept with the code | - |
| Command line, variants | `vc-optimal.cpp` | `cf`, the list of `solver_variant`s | option parsing, usage, choice of a variant |
| Tests, build | `tests/`, `CMakeLists.txt` | - | - |

**How they interact.** `main` picks a variant and calls `solver`. That obtains a
table: it attaches a shared segment, or loads the file (into a new segment with
`--shm`), or runs the generator and saves. The generator asks the corner index for
the representative of each row and the edge coordinate for the place in the row,
and moves cubes with the cube algebra. Then `solver_base::init` builds the queue of
depth 4 once, and every worker owns a `solver` that only reads the table and the
queue. The workers share standard input (under `mtx`), the sequence number (`mtx`),
the deque of answers (`mtx` for insertion, `out_mtx` for everything else) and
standard output (`out_mtx`). Invocations of the program meet in the file system
and in the shared memory segment, without any lock.

**What is hard.**
 * *Threads over an unlocked table.* Four entries share a byte and threads
   read-modify-write bytes without a lock. Only the claim of whole rows under the
   mutex keeps them apart; a thread passes over pairs whose rows are busy and has to
   come back to them; a thread that finds nothing ends while others still hold rows.
 * *Values whose meaning changes.* Distances modulo 3 up to the base depth, then a
   sweep zeroes every visited entry, then 1 and 2 mean base + 1 and base + 2. The
   `dirty` filter, the stripe minimum, the xor masks and the mod-3 codes (a frontier
   of depth d looks like one of depth d - 3) depend on each other.
 * *Search at both ends.* Turns masked by six pruning values, one order of opposite
   faces at each end, values passed down instead of looked up, BPMX, and a queue
   that replaces the first four turns: each cuts solutions, and together they must
   leave one shortest solution.
 * *Symmetry.* A row stands for up to 16 corner positions; self-symmetric goals have
   several edge coordinates in one row; two numberings of rows have to agree.
 * *One cube in many guises.* A table is looked up in six views of a cube that are
   turned along with it, two bytes per place are composed with a sign that depends
   on a reflection, coordinates leave most of a cube out, and one cube stands for all
   that share them. Each identity has to hold for the real cube, whatever the
   tables of numbers say; and what a line describes has to be that cube.
 * *Two locks for one deque*, answers that become ready out of order, a worker
   that blocks in `fgets` with `mtx` locked.
 * *Crashes, full disks and overlapping invocations* around one file, one temporary
   file and one segment.

**What makes each component correct.**
 * Generator: each entry ends up with the value its distance calls for, whatever the
   threads do; no two threads share a row; no pair is forgotten; it ends.
 * Corner index: rows number the orbits; the stored symmetry leads to the
   representative; row order and list of representatives agree.
 * Edge coordinate: the scan of the bits meets exactly the entries, and makes for
   each entry the configuration that belongs to it.
 * Search: the answer solves the cube and is as short as possible.
 * Pool: each accepted line is answered once, in order with `--ordered`, and without
   waiting for more input.
 * Persistence: nobody searches with an incomplete table; a saved table stays.
 * Cube: it moves as the puzzle does; the views are those of one cube; each coordinate
   is had by the cube made for it; what shares an entry shares its neighbours.
 * Formats: a line is taken for the position that it describes or not at all, and
   nothing insoluble gets to the search, which would not find an end.
 * Moves: what is printed is a solution, reads back as it was meant, and is unique
   up to the order that the printing fixes.

`PROJECT.json` lists the components with their status, and as "hazards" the
places of the code where these things are at stake, each with the properties
that would catch it going wrong or with the reason why none does.

---------------------------------------------------------------------------

## 2. Plan

The most consequential behaviour first. A wrong table makes every later answer
suspect and takes hours to build, so it comes before the search, the search before
the threads around it.

| Order | Module | Composition | State |
|---|---|---|---|
| 1 | `DistanceLayers` | abstract specification of a generation | done |
| 2 | `PruneGenerator` | implements `DistanceLayers` | done |
| 3 | `PruneGeneratorProofs` | theorems about 2 | done: types, exclusion, no pair forgotten |
| 4 | `LineService` | abstract specification of the program as a filter of lines | done |
| 5 | `SolverPool` | implements `LineService` | done |
| 6 | `TableStore` | invocations, disk and segment | done |
| 7 | `OptimalSearch` | over a table that `PruneGenerator` could have made | done |
| 8 | `MoveSequence`, `LineSolver` | the life of a line: `LineSolver` extends `OptimalSearch` and `MoveSequence` | done |
| 9 | `OrbitNumbering`, `CornerIndex` | `CornerIndex` implements `OrbitNumbering` | done |
| 10 | `SymmetryGraph` | the graph the generator walks, on top of `CornerIndex` | done |
| 11 | `EdgeCoordinate`, `EdgeScan` | the bits behind the entries of `PruneGenerator` | done |
| 12 | `EdgeScanProofs` | the numbers of `EdgeCoordinate`, then all properties of `EdgeScan` | done |
| 13 | `PruneGeneratorProofs`, second part | `WriteOnce`, `EntriesEncodeDistance`, `LayersRefined`, `HeuristicAdmissible`, `FoundCount` | done |
| 14 | `SolverPoolProofs` | all safety properties of `SolverPool`, and the safety part of its refinement under the hypothesis that a raw string reads as empty | done |
| 15 | `TableStoreProofs` | all safety properties of `TableStore` | done |
| 16 | `SymmetryGraphProofs` | theorems about 9 and 10: `CornerIndex` implements `OrbitNumbering`; `IndexConsistent`; `ReductionExact` | done |
| 17 | `StickerCube`, `Cube`, `CubeCoordinates` | the puzzle as stickers; the real cube, its views and coordinates | done |
| 18 | `CubeInput`, `CubeViews` | lines become cubes that the search turns; extends `MoveSequence` | done |
| 19 | `OptimalSearchProofs` | `TypeOK`, soundness and optimality of the search | done |
| 20 | `LineSolverProofs` | extends 19: a line is solved by that search; `PrintedSolves`, `PrintedInOrder` | done |
| 21 | `CubeViewsProofs` | composition and inverse are those of a group; every line is read as a cube; `ViewsAgree` | done |
| 22 | proofs: stickers and coordinates | the other properties of `CubeViews` | open: calculations with tables of bytes, see section 7 |

The modules are written to be proved about: puzzles, threads and sizes are
constants with named assumptions, an operation is an action, and no module that
carries a theorem declares or reaches a recursive operator (recursive
*functions* are used in `OptimalSearch`, `MoveSequence` and `CubeViews`; `RECURSIVE` only in `MCOptimalSearch`).

---------------------------------------------------------------------------

## 3. Modules

Puzzles are parameters of all that searches or generates. The real cube has far too many positions to
check, and none of the control of the code depends on which puzzle it is: a module
takes positions, turns and distances as constants and states as an `ASSUME` what
it needs of them; the MC modules supply small puzzles on which TLC evaluates those
assumptions.
The modules of the real cube are the exception: they have no positions to enumerate,
and check on single cubes what the parameters stand for.

### DistanceLayers, PruneGenerator
`generate` and the lambda of its workers. The variables carry the names of the
code: `table` and `stripeMin` (the bytes), `dirty`, `found`, `done`, `busy`, the
mutex, `depth`; per thread `ok`, `cur` (the pair), `ahead` (the iterator, as the
set of pairs not come to yet), and for the expansion `todo`, `target`, `latch`.

| Code | Action |
|---|---|
| top of the depth loop (zeroing at the base depth, new `done` and `busy`, threads started) | `Prepare` |
| `mtx.lock()` of a fresh worker | `Lock` |
| the scan up to a pair that is neither done nor busy nor clean: mark skipped pairs done, set `dirty`, `busy`, `done`, unlock | `Claim` |
| `generateCornerPair`: read a frontier entry and its target | `Visit` |
| ... write the byte of the target and the stripe minimum | `Store` |
| second direction of the pair | `Swap` |
| end of the pair; `mtx.lock()`; `found +=`, rows given back | `Finish`, `Relock` |
| end of a scan that claimed something / nothing | `Rescan`, `Exit` |
| joins, end of the depth loop | `Join` |

A scan runs under the mutex, so the passage over several pairs is one step.
`Visit` and `Store` are two: `latch` holds the byte loaded by the first, with the
other entries in it, so that a second writer of the byte would be undone and seen
by `WriteOnce`. A member of `Moves` is a turn with one self-symmetry of the goal.

### CornerIndex, OrbitNumbering, SymmetryGraph
`CornerIndex` runs the two loops of the constructor of `prune_base` (`NewOrient`,
`FillOffset`, `CloseOrient`), with `os_tmp` that is never cleared (it starts with
`Garbage`), arrays shared when equal, and a base and offsets taken over from the
representative's orientation. `OrbitNumbering` is what it promises. `SymmetryGraph`
continues with `getCornerRepresentatives`, and with the entries that a turn from a
representative reaches (`moves`, `moves_inv` and `selfsym` of `neighbor_t`), pass
by pass and without threads; its states are what `PruneGenerator` calls `Rows`,
`Moves` and `Image`. Of the group it assumes what makes a reduction possible at all: a symmetry
takes a turn to a turn, leaves the solved cube as it is and can be undone, on edges
and corners alike; and a turn can be undone. The rows are at most as many as a `uint16_t`
counts (`MaxBase`; the code has 9930 of them, `N_CORNER_SYM`).

### EdgeCoordinate, EdgeScan
`EdgeCoordinate` has the numbers of the code: 495 places of the equatorial edges in
8 stripes of 64 fields, of which 62 (the last time 61) are entries, with the
expression `(i + 63) * 33 / 2048` for the gaps. `EdgeScan` is one pass over a row,
on fields of two bits: the constants `mod3`, `mod3_mask`, `mod3_next_xor` and
`depth_xor` of a pass, `zero_visited`, the mask that leaves the minimum and the end
of the last stripe out, the loop over the set bits, `decode` and `ecoord_rep::get`,
and the two xors that store an entry and a minimum.

### OptimalSearch, MoveSequence, LineSolver
`Lookup`, `Search`, `GetMoves`, `Level` (the queue) and `InitialDepth` are functions
that follow the functions of the code. `Search[n]` is `search` with `max_depth` n, a function of
its other arguments: `Visit` has the early returns, `Try` the loop over the turns in the order of
their bits with the cuts of BPMX, where `ending` are the turns that end the loop if it comes to
them and the first of them decides. A level of the queue is a set of entries; of two ways
to a position the one whose packed turns are the smaller number is kept, which is the
one that the code finds first. The actions are the iterations of `solve` (`Deepen`, `ToQueue`,
`QueuePass`, `GiveUp`). `queue_search` sorts its queue by the cost of the previous
pass, so any of the solving entries may come first: `QueuePass` leaves that open.
The puzzle is a group given by `Product` and the turns; `Move` and `Premove` are what a turn does at either
end.
`stray` is what an `axis_mask` holds that `lookup` did not set (see the findings). It
is one value per solve, where the code has one per call: `search_stray` shows some of the
behaviours of the code, and `search_striped` and `AnswersSolve` speak of a mask that does
not change during a solve.

`MoveSequence` has the loops of `parse` and `canonical` as functions from the number of
characters or moves behind them to what has been made of these (`ReadChar` and `Sift` are
one turn of each), with `power` in a byte, and `to_string` as the letters at each place. `LineSolver` puts
`Parse`, the inversion, the search, `Canonical` and `Written` together in the order of the worker.

### Cube, CubeCoordinates, StickerCube
`Cube` and `CubeCoordinates` have the real cube in the numbers of the code: a lane is
the sequence of its bytes, a byte a cubie and an orientation. A vector instruction is
modelled by what it does to all places at once: a byte shuffle by a lookup, the minimum
of a sum and its carry by a remainder, `pext` and `pdep` by `Squeeze` and `Spread` of
sets of places. What the code computes in an odd way is kept: the inverse as the power
27719 by the same addition chain, division by powers of three as multiplication by
16-bit reciprocals, the parities that the setters of orientations make up. The turns
and symmetries are built as `gen-const-cubes` builds them; `sym_inv` and `move_sym6`,
which are found by search there, are copied from the file that is kept.

`StickerCube` knows faces and stickers only. It is the definition of the puzzle that
the cubes are compared with: `Picture` draws the stickers of a cube.

### CubeInput, CubeViews
| Code | Action |
|---|---|
| `fgets` and the branch of the format | `ReadLine` |
| the loops of `from_moveseq`, `from_reid`, `from_speffz`: one turn, word, letter | `ReadMove`, `ReadWord`, `ReadLetter` |
| the tests at their end, and what they return | `ReadEnd` |
| `--inverse`, the call of `solve` | `Solve` |
| a turn or a premove in `search` | `TurnForward`, `TurnReverse` |
| `c6 * q.c6` in `queue_search` | `FromQueue` |

`parent` keeps the views of the call that made the step, which the code has on its
stack, and `made` what was done. Which turns `search` takes is a matter of
`OptimalSearch`; here every turn is taken at either end.

### SolverPool, LineService
The loop of a worker, with a step per lock, unlock and access to shared data. The
deque is a sequence of line numbers (`solutions`) and a text per slot. An insertion
is one step (`Insert`) or, through `emplace_front` of the library when the deque is
empty, two (`InsertRaw`, `Construct`); what is read in between is `RawText`.
`Arrive` and `Close` are the program that feeds the input.

### TableStore
`solver`'s first part, `load`, `loadShared` and `save` for several processes over
one disk and one segment. A table is the set of its rows that hold data. Files have
inodes: a rename does not disturb who has the file open, a truncation does. A
*situation* (chosen at the start, then fixed) says who has `--shm`, whether
invocations may overlap, whether they may be killed, whether resources may be short
and calls on files may fail, and what the table file holds at first. `LoadFails` stands for every way in
which `load` and the load of a segment fail beside a file that is short: all lead to `generate`. A failing
`rename` is a disjunct of `Rename`; `save`'s other failures are `WriteFails`.

---------------------------------------------------------------------------

## 4. Runs

"States" are distinct states.

| Run | Instance | Shows |
|---|---|---|
| `generator_path` | 2 threads, 8 positions in a line of diameter 7, 4 rows, base 4; 11418 states | `EntriesEncodeDistance`, `HeuristicAdmissible`, `LayersRefined` (refinement of `DistanceLayers`), `Generated` (liveness) |
| `generator_cube` | 3 symmetric threads, 8 positions, 4 rows of 2 entries that share a byte, base 1; 15289 states | `TypeOK`, `RowExclusive`, `AllPairsDone`, `FoundCount`, `WriteOnce` |
| `symmetry_square` | a puzzle of 4 corners and 4 edges: 27 orientations, 6 combinations, 4 symmetries with a reflection, 972 positions, 7 passes; 232 states | `OrbitsNumbered` (refinement of `OrbitNumbering`), `IndexConsistent`, `ReductionExact` |
| `edge_scan` | 3960 configurations in 64 stripes, base 2; 815 states | `ScanFaithful`, `EntriesEncodeDistance`, `ValuesEncodeDistance` |
| `search_striped` | lines for all 120 positions of a puzzle of diameter 7 or their inverses, base 2, queue of depth 2, limits 3, 5 and 20; 2075 states | `Optimal`, `PrintedSolves`, `PrintedInOrder` |
| `pool_service` | 3 workers, at most 3 lines, ordered and unordered; 13880 states | `ServiceImplemented` (refinement of `LineService`, with liveness), `NothingHeldBack`, `AllAnswered`, `WorkersEnd` |
| `store_runs` | 3 processes, one of them with `--shm`: one after the other with kills and faults, or undisturbed and overlapping, with a segment or while the table is generated; table file missing, short or whole; 268169 states | `TablesComplete`, `NamedWhole`, `SavedForGood`, `WholeAtRest`, `TableObtained` (liveness) |
| `cube_lines` | the real cube; 4 lines of moves, 22 of Reid's words, 116 of Speffz letters; one of the cubes turned twice at either end; 5153 states | `CoordinatesInvert`, `IndexFits`, `ReidReadsBack`, `SpeffzSolves`, `ViewsAgree`, `FollowsThePuzzle`, `EntriesKept`, `RepsMoveAlike` |
| `pool_raw`, `store_shm_first`, `store_overlap`, `search_stray` | violations, section 5 | |

**Why the bounds are enough for what is claimed.**
 * *Generator.* Base 4 on the path has two full rounds of the mod-3 codes (depth 3
   repeats code 0, depth 4 code 1), the zeroing at depth 4, both passes after it and
   an entry beyond BASE + 2, and rows that neighbour themselves. Stripes are smaller
   than rows there, so that a minimum and its entries belong to different depths.
   The cube puzzle has a frontier over several rows, so that with three threads one
   scans while two hold disjoint pairs: the case in which a pair is passed over and
   must be found again. Thread symmetry is sound there, as no property of that run
   names a thread and it has no liveness property.
 * *Edge scan.* The 495 places, 512 fields and the constants 33/2048 are those of
   the code; only the other factors are small. The moves cross both ends of a range,
   both ends of stripes, and change each part of the coordinate.
 * *Symmetry.* The group has self-symmetric positions, orientations whose
   representative is another orientation, equal arrays and a reflection; all
   distances of the puzzle are covered.
 * *Search.* Every position, with a deep one at distance 7 = BASE + LEAD + 3, so
   that the direct search, the queue, the values above the base and a limit that
   is too low all occur. The stripes hold several cosets, so that values below the
   distance and zeros of unsolved cubes occur.
 * *Pool.* Three lines can be ready in each order, the deque runs empty in between,
   and one worker can block in the input with two answers outstanding.
 * *Cube.* This is the real cube, so it is the lines and cubes that are few, not
   the places, turns and symmetries. Coordinates are tried in full, those of whole
   permutations at even intervals; the index of the rows is computed for all 2187
   orientations and 70 combinations. The lines are the positions of the
   repository's tests; those of Reid's words also with two words exchanged, a word
   turned, dropped, repeated, added or no name of a cubie; those of letters are every
   letter in either case, for corners and edges, with every buffer and with a buffer that is no
   letter. `Searched` is a position without symmetry, which is inverted first; `MaxSteps` is 2, so that a step starts
   from a cube that was turned at either end; all 18 turns are tried; `Queued` has two
   sequences of four turns, over all six faces. The variants have each kind of edge
   permutation and of edge orientation once.
 * *Store.* Two rows distinguish empty, short, holed and whole. The processes start
   over without limit.

Counters that the bounds cap: `Lines` (pool), `MaxSteps` (turns of a cube). `depth` and the passes end by
themselves, as in the code.

---------------------------------------------------------------------------

## 5. Findings

Four of the runs are expected to find a violation: each checks one property
that the documentation promises.

 * `pool_raw` (`vc-optimal.cpp:375`): the deque is extended under `mtx` while its
   front is tested, printed and popped under `out_mtx`. When the insertion makes
   a slot reachable before its string is constructed, a line of garbage can be
   printed, and the order of the answers is lost. `pool_service` shows that this is
   the only obstacle: if such a string reads as empty the service is implemented.
 * `store_shm_first` (`nxprune.cpp:139`): with `--shm` and no table file, the segment
   is created, the load fails and the zeroed segment stays; the next invocation
   attaches it. `store_runs` shows that a segment made from a whole file is complete,
   for invocations that overlap as soon as the load is over. Those that attach it during the
   load (`nxprune.cpp:133`) do use it without its last rows; nothing in the code prevents it, and
   `TablesComplete` leaves them out.
 * `store_overlap` (`nxprune.cpp:87`): two first invocations share the temporary file;
   one renames what the other is still filling, and a third load accepts its holes,
   because only the length is tested. `store_runs` shows that it heals by the time
   all have finished undisturbed.
 * `search_stray` (`nxprune.h:417`): `lookup` leaves `axis_mask` unset when three values
   are zero, and `search` uses it. An unsolved cube can have three zeros, as the
   value of an entry within the base depth is the minimum of its stripe; then turns
   are masked at random, and the answer may not be shortest. `search_striped` shows
   that the search is optimal if the mask is zero there.

Noted, and no run of their own: the comment at `cube.h:194` says that P twists the URF
corner clockwise and J counterclockwise; `c_map` (`cube.cpp:143`) puts P on the DRF corner,
and M is the letter of URF that belongs with J. `src/README.md:199` names the shared memory key of
table 212 with the digits `2b`; `vc-optimal.cpp:84-87` yields `2c`.

---------------------------------------------------------------------------

## 6. Fairness

 * `PruneGenerator`: weak fairness of `Prepare`, `Join` and of each thread, that is
   the operating system runs every runnable thread. No strong fairness of the
   mutex: a thread may be overtaken as often as others come to the mutex, and they
   come there finitely often in a pass.
 * `SolverPool`: weak fairness of each worker. Nothing is assumed of `Arrive` and
   `Close`, since input may never come; `WorkersEnd` speaks of closed input. With
   endless input the code relies on mutexes that starve nobody, which the bound on
   `Lines` hides.
 * `TableStore`: weak fairness of `Obtain(p)`, a running process gets on. Nobody need
   invoke, end or kill one.
 * `LineService`: weak fairness of each answer, the promise to be kept.
 * The other specifications have no fairness: their properties are about safety.

---------------------------------------------------------------------------

## 7. Proofs

Every safety property that a passing run checks is a theorem for every value of the constants,
except for seven of the eight of the real cube (`CubeViews`; see the end of this section). The
hypotheses are the `ASSUME`s of the modules, which TLC evaluates on the instances
of the runs; some theorems have one more, and state it. For each component the
properties follow from an inductive invariant; what it adds to them, and
why it has to, is the argument of the proof.

**Generator** (`PruneGeneratorProofs`). Every puzzle, any set of threads
(even an infinite one), every base in 1..12.
 * `TypeCorrect`. `TypeOK` is not inductive, as `Join` adds to
   `depth`; `TypeInv` adds that there is room for another pass until the table is
   generated.
 * `ThreadsNeverShareRows`, `NoPairForgotten`, from `LockInv`. The rows in `busy` are those of
   the pairs at work (`HeldBusy`), a claim asks for rows that are not busy, and `Relock`
   takes out of `busy` only rows that, by the exclusion itself, nobody else holds.
   That no pair is forgotten is an argument about the *last*
   thread to leave. It leaves after a scan without a claim; such a scan began at the
   top of the list (`FreshScan`: only a claim interrupts a scan); it saw no busy
   pair, because a row in `busy` belongs to a thread at work (`BusyHeld`) and all
   others have left; so each pair was done or clean, and is done now. That threads
   leave while others hold pairs back is therefore harmless: whoever holds a pair
   has `ok` set (`HeldOk`) and will scan again.
 * `EntriesWrittenOnce`, from `AccessInv`: between the load of a byte and its store the byte
   has not changed (`LatchFresh`), since its row is one of the two that the thread
   holds and no other thread has that row.
 * `TableEncodesDistance`, `GeneratorImplementsLayers`, `TableAdmissible`, from `CodeInv` and `WorkInv`. `CodeInv` says what
   codes, minima and `dirty` mean *during* a pass, when entries of two layers are
   there (`CodesExact`, `LayersComplete`, `MinimumBelow`, `MinimumReached`), that `dirty` of a row
   is not above the distance of any reached entry in it (`DirtyEarly`: so the filter
   passes over pairs without a frontier only), and that an entry to be stored is one of the next layer. `WorkInv` says
   which expansions are behind: all those of pairs that are done and not in anybody's hands (`DoneClosed`), of the
   pair in hand the first direction when the second is going on (`FirstClosed`), and all that left
   `todo` (`TodoRest`). With `NoPairForgotten` the layer is complete when the threads are
   joined.
 * `EntriesCounted`, from `CountInv`. `found` and the counters of the threads are summed up
   piece by piece; instead of a sum over the threads (which would need an induction over a set) the invariant says that
   the reached entries can be distributed over the threads and a rest, without overlap, so that each counter is the
   size of its part.

**Edge coordinate and scan** (`EdgeScanProofs`). Every variant of the
table, every base in 1..12, every graph of configurations, with the constants of the code.
 * `EntriesAvoidMinima`: a coordinate is inside the table and never one of the two
   fields of a stripe minimum. `DecodeInverts`, `RepInvertsCoord`: `decode` and `ecoord_rep` take a coordinate to
   the configuration it was made of, so that no two configurations share an entry.
   They rest on lemmas about division (`DivMod`, `Packed`) and about the gaps
   (`GapRange`, `GapInjective`, by linear arithmetic over 0..494).
 * `ScanTypeCorrect`, `ScanFindsConfigurations`, `ScanEncodesDistance`, `FetchedValues`, from `ScanInv`.
   `PassConstants` and `XorFacts` turn the masks and xors of a pass into statements about values of fields;
   with them `BitsFound` says that the bits found in a stripe are those of reached
   entries with the code of the frontier, be it of depth d or d - 3: the invariant has no
   exact frontier, only `Frontier` (nothing farther than it), and the target of a
   nearer entry proves to be reached already. `Covered` says what the loops over moves,
   stripes and bits have behind them; its inner part is what makes a layer complete
   at the end of a pass. `Minima` relates a minimum to the entries of its own stripe, `Gaps`
   keeps the fields that belong to no configuration out of all this.

**Corner index and symmetry** (`SymmetryGraphProofs`; what it says of `CornerIndex` uses
`SizeAssumption` and `SymmetryAssumption` only). Every number of orientations and combinations, every group of symmetries, whatever `os_tmp` held at first.
 * `IndexNumbersOrbits`, `IndexTypeCorrect`, `RowsMeanTheSame`, from `IndexInv`. The constructor goes through the positions in
   the order `Less`, so that the representative of a position, the least of its orbit, has been
   numbered before it (`RepIndexed`). If the representative of an *orientation* is another one, none
   of its positions represents itself (`OrientOfRep`), so that `offset` stays 0 and the base can be
   taken over (`BaseOf`). `RowOfRep` and `SymStored` say of each position gone through, whether it is in
   an array that is closed or in `os_tmp`, what was meant to be stored; `RowsUsed` and `RowsInOrder` that the rows given are an
   initial segment and follow the order of the representatives. The last is why the k-th
   of `getCornerRepresentatives` belongs to row k (`ListOfRepresentatives`), although the two never meet in
   the code. That bases fit their 16 bits needs another argument: there are never more
   rows than orbits (`RowsFit`), since different rows have different representatives.
 * `SymmetryReductionExact`, from `GraphInv`: the entries entered in pass d are those whose
   representative has distance d. A symmetry does not change the distance (`ImageDistance`, by the least
   distance at which it would); so entries reached from a layer are at most one step away
   (`TargetsNear`). That none is missed (`TargetsAll`) is what the self-symmetries are for: a step from the representative
   of a neighbour may end in another edge coordinate of the same row, and differs from the one wanted by
   a symmetry that leaves the corners of the row alone.

**Pool** (`SolverPoolProofs`). Any number of workers and lines, ordered and unordered.
 * `PoolTypeCorrect`, `NoAnswerHeldBack`, `AllAnsweredAtEnd`, `AnswersInPlace`, from `PoolInv`, whatever unconstructed memory
   reads as. In ordered mode the deque holds consecutive numbers, from the first line not popped to
   the last one inserted (`Slots`): the first of them trails the output by one while a
   worker is about to pop (`Popping`), the last trails `next_id` while one is about to insert
   (`Inserting`). A slot without an answer has a worker that will assign one (`Pending`), and if
   the front has an answer a worker that holds `out_mtx` is about to print or pop it (`FrontSeen`);
   both carry `NothingHeldBack` and `AllAnswered`. In unordered mode the answers are
   counted: they are different numbers below `next_id`, and each line read is answered or in a worker's hands (`UnorderedInv`).
 * `OutputOrdered`, `PoolImplementsService`, under `CleanMemory`: a string that is not constructed yet reads
   as empty, or no run is ordered. The hypothesis is satisfied by the instance of
   `pool_service` and not by that of `pool_raw`, which violates `OutputInOrder`: it is exactly what the code
   leaves to chance. Without it there is `AnswersInPlace`: in ordered mode the k-th line printed
   is the k-th answer or garbage that was printed in its place.
   `PoolImplementsService` is `ServiceImplemented` without its fairness.

**Store** (`TableStoreProofs`). Any number of processes and rows, and all situations.
 * `StoreTypeCorrect`, from `TypeInv`: `TypeOK` needs to know who has a file open (`OpenFiles`).
 * `OnlyWholeFilesNamed`, `SavedTablesStay`, from `TurnInv`: when invocations take turns, the temporary
   file holds the rows that its one writer has written so far, and is complete
   when it is renamed.
 * `NobodySearchesWithHoles`, from `PrivateInv` and `SegmentInv`. `load` accepts what has the right length; that
   this is enough needs `FileUnholed`: what a file holds it holds from its first row on. That was no
   invariant at first: a file that had holes *before* the first invocation is accepted. Such a file is only
   left behind by writers that overlapped and of which one was killed, so the property now says
   that the initial file has none (`Unholed(situation.saved)`), which the situations of all runs satisfy.
   A segment is loaded by the process that created it before anybody can attach it (`NobodyWhileLoading`).
   When invocations overlap this is replaced by `OverlapInv`: nobody generates a table, so that the file
   stays whole, and a segment is being loaded or complete. It needs that one process has `--shm`
   (`OneSharer`): with three, TLC finds that two fail to create the segment, generate, and share the
   temporary file, and that the third loads what one of them renamed while the other was writing, so
   that the segment lacks rows for good, a consequence of the fixed temporary name as in `store_overlap`.
 * `FileWholeAtRest`, from `CoverInv`, for invocations that overlap: of each file that has a name, each row is
   there or still to be written by a process that has the file open, be it the one
   that created it or not.

**Search** (`OptimalSearchProofs`). Every puzzle, every table, base, depth of the queue and limit that meet
the assumptions: positions are multiplied and turns with them; turns of one face amount to
one or to none and undo each other; turns of opposite faces commute; the pruning values are not above the distance, and a
view is unchanged by the turns of its axis at the other end. The length of a shortest solution
is a parameter, `Dist`, that is characterised (`DistAssumption`), not computed.
 * `TypeCorrect`, `AnswersSolve`, from `SoundInv`, whatever `lookup` leaves in the mask. A call that succeeds
   leaves turns that, appended and prepended as they are marked, solve its cube in exactly
   its depth (`SearchSound`, by induction on the depth); `GetMoves` winds the two ends
   together (`Windings`), so that the sequence is a solution, and behind an entry of the queue
   it continues the turns of the entry (`EntrySound`).
 * `SearchIsOptimal` if the mask that `lookup` leaves unset is empty: the hypothesis that
   `search_striped` satisfies and `search_stray` does not. Two facts about `Search` carry it, each by induction on the
   depth. `SearchAdmissible`: a value above 1 that a call returns is a lower bound of the distance; so a child that
   returns n + 1 tells that the turns of its face, which are one turn away from it, are in vain (the loop skips them),
   and a larger one that the call itself is (the loop ends). `SearchComplete`: a call that is
   `Ready` finds a solution. Ready means that its depth is the distance of its cube *and that a way is open to its ends*
   (`Open`): some shortest solution begins and ends with turns that the call may still make, and
   the faces turned last shorten it no more. It is not enough to be at the distance, since a call that has
   turned D may not turn U next. `GoodTurn` shows that at whichever end the call searches, one of
   the turns it tries leads to a call that is ready again: not masked, since a view that it leaves unchanged would
   be at the limit otherwise (`NotMasked`), and in order, since a shortest solution that the order
   bars exchanges two turns of opposite faces (`Descend`, `FollowOrSwap`, `OppositeFollows`).
 * The search behind the queue starts from calls that are ready (`QueueSolved`): a shortest solution leads through an entry of every level (`LevelWay`),
   which need not have come by the turns of that solution; its last face is spent
   (`EntrySpent`), and if the solution goes on with a turn that may not follow it, another entry is met after the
   exchange (`QueueWay`).
 * `OptimalInv` says of the loop that the depth to be searched has not passed the distance: in "deepen", and in "queue" unless
   the limit is below the distance. A solution of that depth is a shortest one (`AtDistance`).

**Lines** (`LineSolverProofs`). All lines of turns, both styles.
 * `LineSearches`: `LineSolver` implements `OptimalSearch` (it extends it, so the mapping is the identity), which carries the
   theorems about the search over to lines.
 * `PrintIsSolution`, `PrintIsOrdered`, from `Shown`: what is printed is the answer in canonical form, and the search is over. The
   rest is about the functions. `ParseWritten`: every sequence of moves reads back from either style as it was; the state of the
   loop of `parse` after k letters has a closed form (the moves of the letters so far and the face that waits), and what
   `to_string` removes at the end is at most the amount and the blank of the last move, which `parse` supplies. `CanonicalIs`: if at most two turns of an axis
   come in a row, and those of different faces, `canonical` exchanges the pairs that are out of order and changes nothing else; in
   particular it drops nothing, the powers stay below their 256, and writing over the moves that were read
   does not overtake the reading. `ShortestIsTame`: shortest solutions are such sequences, since
   two turns of a face, or of a face with only its opposite between them, could be had for one less. Nothing is claimed of other
   sequences: `canonical` may merge or drop turns of them.

**Cube** (`CubeViewsProofs`). Every line in the three formats, every set of turns, every queue, any number of steps. Edges
and corners are treated at once: a lane of N places and T orientations (`Kind`) holds each of N cubies once, legal or not.
 * `InvertInverts`: what `invert` makes of a cube is its inverse on either side. Composition is associative and has a unit
   (`JoinedAssociates`, `OneJoined`). That the 27719th power of a permutation of at most twelve places is its inverse is not a matter of
   trying them: each place comes back after some period of at most twelve steps (`PowerPeriod`), which divides 27720
   (`PowerWhole`); the steps of the chain add up to 27719 (`EdgePower`, `CornerPower`). `UndoneParts` and
   `UndoneJoined` follow the orientations, which are negated and sent to where the cubies go.
 * `LinesAreCubes`, `ViewsAgreeAlways`, from `IInv`: what is read is a cube, and the views are `Cube6` of one (`Sixes`). `ViewsAgree` alone is not
   inductive: that the last three views of a turned cube are those of the turned inverse needs the inverse of a product to be the product of the inverses,
   which holds of cubes and not of all lanes of bytes. So every format has to yield cubes. For moves, `ParseType` says that
   only turns are made of characters. Letters of Speffz exchange cubies and turn them in place (`SwappingLane`, `TurningLane`). Words of Reid's notation
   may name a cubie twice: `Entered` says that each cubie that is not to do any more is in one of the places gone through, so that
   a line with nothing left to do and no place left over names each cubie (`EnteredLast`); and as many cubies as places means once (`edges_todo`
   is toggled, so that a cubie named three times counts as done; it is the number of places that leaves no room for it).
   The turns of the views come from `TiltedTurns`: the table `move_sym6` agrees (`TableSays`) with the faces before and after a face
   about a corner (`TiltedFace`), because three thirds of a turn about the corner are none (`URF3Order`) and four quarters neither
   (`TurnOrder`); conjugation does the rest (`ConjProduct`, `ConjTwice`).

Recursive functions (`Search`, `Level`, `GetMoves`, `Apply`, `Parse`, `Canonical`, `QueueCube`) are reasoned about without the
library's theorem on recursive definitions, which takes an operator as its parameter: a function that satisfies the equation
is exhibited (a closed form, or one put together value by value), and two that do are equal by an induction up to a bound.

Least elements (`LeastNatural`) take the place of induction: a theorem about all depths of a table is
the invariance of a statement about the current one, and where a number has to be
gone down (distances, positions before one in the order) the least counterexample is refuted.

**Only model-checked.**
 * *Liveness* (`Generated`, `WorkersEnd`, `TableObtained`, the fairness of `LineService`): out of reach of the prover.
 * *The real cube*, apart from `ViewsAgree`: that coordinates are what their setters make them of (`CoordinatesInvert`), that the
   index has as many rows as its arrays (`IndexFits`), that a position is taken for what its words and letters say and is soluble
   (`ReidReadsBack`, `SpeffzSolves`), that turns move the stickers (`FollowsThePuzzle`) and leave an entry alone
   (`EntriesKept`, `RepsMoveAlike`). These are calculations with numberings of combinations, reciprocals and stickers,
   which TLC does; where they speak of all cubes, the run takes some.

---------------------------------------------------------------------------

## 8. Not modelled

 * *The command line*: options and usage text. What the options choose is a constant
   or an input of the modules (workers, order, format, buffers, inverse, depth, shared
   memory, variant). That `--workers=0` reads no input is noted as a hazard.
 * *Characters of a line* beyond those that stand for turns: words are sequences of
   faces and letters are numbers; the case of Reid's words, blanks, and the split of a
   line above 1023 characters by `fgets` (a hazard) have no counterpart.
 * *Unused bytes* of a lane, and the comparisons `==` and `<` of cubes, which are those
   of TLA+; the printing of `gen-const-cubes`; `less_than` serves containers only.
 * *Tests and build*: no behaviour of their own. `const-cubes.h` is not made again by
   the build, so it is the printed file that the modules follow.
 * *Out-of-bounds access*: `prune[-1]` is written when there is no view to skip
   (`nxprune.h:393`); the model has no memory beside the array, takes the call as it
   is meant, and the hazard is listed.
 * *A stray `axis_mask` per call of `lookup`* (`nxprune.h:417`): `Search` is a function, and the mask
   one of its arguments, so it is the same in all calls of a solve.
 * *Limits above 254* (`nxsolve.h:214`): depths are bytes in the code; `SearchAssumption` excludes
   limits that do not fit, and positions without a solution.
 * *Page sizes, timing, prefetching, output of progress.*
 * The *order* in which `queue_search` goes through the queue is left open on purpose.
