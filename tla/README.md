# attic-shogi in TLA+

attic-shogi is a shogi engine in Rust: a USI front end (`attic-protocol`), a
multi-threaded alpha-beta search (`attic-search`), a board (`attic-state`), a
neural evaluation (`attic-eval`), the transposition table, the book and the table
memory (`attic-storage`), and NUMA placement (`attic-numa`). This directory holds
TLA+ models of its control (which thread may do what when, who answers a `go`, when
a search must stop) and of the rules, tables and services under it (the board and its
generators, the search tree, the accumulators, the histories, the book, the options).
TLC checks them on small instances, and TLAPS proves the most important properties
for every value of their constants.

File names below are relative to `src/crates/`; `driver.rs` is
`attic-protocol/src/driver.rs`, `qsearch.rs` and `timeman.rs` are in
`attic-search/src/`, `tt.rs` in `attic-storage/src/`.

## 1. The system: inventory

| component | state it keeps | operations | what makes it hard | correct when |
|---|---|---|---|---|
| **worker pool** (`driver.rs`: `ThreadPool`, `HelperSlot`, `helper_loop`, the coordinator's dispatch and collect loops) | one mutex-and-condvar slot per helper, `Arc` clones of the table, `ActiveSearch` | assign, collect, shutdown, rebuild, resize or clear the table | helpers are never joined between searches, yet `Arc::get_mut` must find no clone; notifies outside the lock; spurious wakeups | no clone at `get_mut`, no lost wakeup, no slot overwritten, every join returns |
| **USI session** (`driver.rs`: `UsiDriver`, `run_coordinated`) | position, retained `position` and `go`, the running search's stop, ponder and suppress flags | every USI command | the GUI's commands race the reply; `Stochastic_Ponder` runs two searches for one `go`; four short-circuits before the search | one `bestmove` per `go`, held while pondering or infinite, for the right position; no command hangs |
| **time management** (`timeman.rs`) | budget of a `go` (minimum, optimum, maximum, remain) | init, round_up, set_search_end | second rounding, two network delays, byoyomi and increments, a ponder origin | never over the clock less its margin, never wasteful rounding |
| **search clock** (`qsearch.rs`: `PonderSignal`, `check_time`, the budget block of `run_worker`) | stamp and flag of the ponderhit, `search_end`, `stop_on_ponderhit` | checkpoint, end of iteration, ponderhit, stop | two threads, two atomics and a mutex; the end time decided in three places | decided once, on our own clock, and the search ends |
| **score carry** (`driver.rs`) | `best_previous_score`, its average, `last_game_ply` | carry and side flip at every `go` | parity over rewinds, short-circuits, new games, bench | carried score has the sign of the side to move |
| **root search** (`qsearch.rs` `run_worker`, `root.rs`) | root moves with scores and PVs, depth, window | iterate, widen, rotate, roll back on abort | an abort anywhere must leave the last completed lines | the best line is from a completed search |
| **worker vote** (`root.rs`) | the workers' results | `select_best_worker` | ties, mates, bounds | a proved win outvotes what is not proved |
| **interior search** (`qsearch.rs`) | node stack, window, position, accumulator, table | search, qsearch | null-move verification, singular and ProbCut searches on the node's own cell, aborts | everything unwinds together, bounds and mate distances sound, a PV is what was searched |
| **move picker** (`movepick.rs`) | stage, move buffer | next_move, skip_quiet_moves | staged generation on one buffer, TT move repeated | every legal move exactly once, in order |
| **histories** (`history.rs`, `update.rs`) | statistics tables, some shared by the workers of a node | index, read, gravity update at every fail high | 16-bit entries, flat indexes, loads and stores of two workers apart | entries stay within their bound, every update under its own move |
| **transposition table** (`tt.rs`) | clusters of entries, generation | probe, save, new search, resize, clear | fields stored one by one by many threads; generations wrap | payloads mix only where stores overlap, entries age by searches |
| **memory arena** (`arena.rs`, `large_page.rs`) | one aligned region | carve, zero | layout arithmetic | tables do not overlap |
| **opening book** (`attic-storage/src/book.rs`, `attic-search/src/book.rs`) | open binary files with their index, the signature they were loaded for | load at `isready`, probe, choose | truncated or unsorted files, a series of files, two read modes, the flipped position, plies | what it answers is legal, and is what its files hold for the position |
| **option store** (`options.rs`, `engine_options.rs`, `option_profile.rs`, `driver.rs`) | values, fixed flags, and what they drive: threads, binding, tables, networks | set, override, profile, isready | the order of `setoption`, override files and loads; a refused value | fixed values never change; threads, tables and networks are those of the current options |
| **keep-alive** (`driver.rs`) | a thread and its cancel flag | start, join | shares the output with the job | gone before `readyok` |
| **position, keys** (`position.rs`, `board.rs`, `hand.rs`, `key.rs`) | board, hands, state stack, cached check info | do, undo, null move, repetition | six incremental keys, repetition counts threaded through the states | undo restores; keys are those from scratch; repetition is the game's |
| **move generation, mate1ply, SEE** (`movegen.rs`, `search_movegen.rs`, `mate.rs`, `see.rs`) | none | generators and tests | hand-optimised bitboards | equal to the plain definition |
| **notation** (`sfen.rs`, `packed_sfen.rs`) | none | parse, print, pack | variable-length bit codes | round trip |
| **accumulator** (`transformer.rs`, `finny.rs`, `features.rs`) | accumulator stack, king-bucket cache | refresh, update | differential updates and a cache that outlives the nodes it was filled at | equals a full refresh |
| **network and SIMD** (`network.rs`, `loader.rs`, `simd/`) | weights | load, propagate | vector arithmetic | equals the scalar code |
| **NUMA** (`attic-numa`) | node lists | parse, detect, bundle, distribute | uneven nodes, missing files, a process bound to part of the machine | every thread bound to a node, none overfull |
| **parser, formatter, binary, xtask** | none | text in and out | none | not modelled |

How they meet: the GUI's lines go through the parser to `UsiDriver`, on the main
thread. A `go` joins the previous search, then spawns a *coordinator* thread with
clones of the table, the network and the pool's slots. The coordinator looks for a
short-circuit (no legal move, declaration win, book), else assigns a job to every
helper slot and runs the main worker itself. Meanwhile the driver goes on reading;
its `stop`, `ponderhit` and all the commands that need the search to be over reach
the workers through three shared cells: the stop flag, the `PonderSignal` and
`suppress_bestmove`. The main worker raises the same stop flag when its own limits
run out. The coordinator holds the reply while pondering or infinite, stops and
collects the helpers, votes, and writes `bestmove`.

## 2. The modules

| module | models | proved about in |
|---|---|---|
| `WorkerPool` | what the worker pool promises, without threads (abstract) | |
| `HelperPool` | driver, coordinator and helper threads on slots, condvars and `Arc` clones; implements `WorkerPool` | `GoProofs` |
| `UsiSession` | the command loop and the reply protocol | `UsiSessionProofs` |
| `TimeManagement` | the budget of a `go`, as operators | |
| `PonderTime` | main worker's clock against `stop` and `ponderhit`; EXTENDS `TimeManagement` | `ServicesProofs` |
| `RootSearch` | one worker's iterations, PV lines, aspiration windows, abort and rollback, up to the last PV shown | `GoProofs` |
| `TransTable` | one cluster of the transposition table under concurrent nodes, field by field | `TransTableProofs` |
| `Shogi` | squares, pieces, hands, the board's piece sets, attack tables, attackers | |
| `MoveGen` | the generators, the predicates on a move, check info; EXTENDS `Shogi` | |
| `ScanRules` | the rules walked square by square, the reference for the others | |
| `See`, `MateOne` | `see_ge` and its oracle; `mate1ply` with its candidate masks | |
| `RepetitionRule`, `Repetition` | the chain of states and both builds' repetition queries; lines of play over it | `NodeProofs` |
| `Position` | do, undo, null moves, keys; EXTENDS `MoveGen`, `RepetitionRule` | |
| `Game` | positions as the search uses them: composes all of the above | |
| `MovePicker` | both builds' pickers, stage by stage | `NodeProofs` |
| `InteriorSearch` | `search` and `qsearch` as a machine over the stack of their activations | `InteriorSearchProofs` |
| `Accumulator` | features, the accumulator stack and the king-bucket cache | |
| `Histories` | every history table, its indexes and updates, for several workers | `ServicesProofs` |
| `Book` | loading, reading and probing the opening book | |
| `Numa`, `EngineSetup` | layouts and threads; options, overrides and what they rebuild, isready and keep-alive | `EngineProofs` |
| `Declaration`, `SearchOutcome` | entering-king declaration; vote and carried score | `ServicesProofs` |
| `TimeBudget` | one `go` under a clock, from `TimeManagement` | `ServicesProofs` |
| `PvLines` | the last lines, the ponder move and the reply of a `go` | `EngineProofs` |
| `MCServices` | composes the seven services; the instance TLC checks them on | |
| `FoldProofs` | no part of the code: lemmas, induction over the folds the models are built from | `FoldProofs` |
| `MCHelperPool`, `MCUsiSession`, `MCPonderTime`, `MCRootSearch`, `MCTransTable`, `MCRepetition`, `MCGame`, `MCMovePicker`, `MCInteriorSearch` | the other instances TLC checks | |

### HelperPool and WorkerPool

`slot[h]` is the `SlotState` behind helper `h`'s mutex, `job[h]` the `go` its last
job or result belongs to, `clone[h]` whether that job still holds its clone of the
table. `hpc`, `cpc` and `dpc` are where `helper_loop`, `run_coordinated` and the
driver stand. A critical section of a slot mutex is one action. A `notify_all`,
which the code calls after the lock is released, is an action of its own
(`CoordAssignNotify`, `HelperNotify`, `PoolExitNotify`), and `cv.wait` is a sleep
that a notify or a spurious wakeup ends: a wakeup that could be lost in the code
would be lost here. `drop(job.tt)` and the publication of the result are separate
actions (`HelperDrop`, `HelperPublish`), because their order alone keeps
`Arc::get_mut` from panicking: the driver joins the coordinator, not the helpers.
`DriverGetMut` goes to `"panic"` when a clone is alive.

`WorkerPool` is the promise: searches one at a time, each collecting one result of
every worker, table and pool touched only between searches. The refinement mapping
is at the end of `HelperPool`: an abstract search is what the coordinator's program
counter says, and the pool is being rebuilt while the driver is in `shutdown` or
about to spawn.

### UsiSession

The driver executes one command at a time (`dpc`); commands that first call
`finish_search_join` do so in two steps (`Joining`, then `DoGo`, `DoReissue`, ...)
between which the coordinator runs. `cur` is what the coordinator was given, `stop`,
`ponder` and `suppress` the three shared cells. The root's outcome (no move, win,
book, search) is a choice the coordinator makes, except that a rewound root always
has a legal move. A position is the number of moves of the last `position` command,
enough to tell the board from the rewound one. `polite`, chosen for a whole session,
says whether the GUI keeps to the order of the protocol: the safety of what the GUI
sees is stated for a polite one, that no command hangs for any. Helpers are left to
`HelperPool`.

### TimeManagement, TimeBudget and PonderTime

`TimeManagement` translates `init` (`InitBudget`), `round_up` and `set_search_end`.
Times are integers in the code's milliseconds; the float factors (`max_ratio`,
1.2, 1.25, 0.3) are rationals with the code's truncation. `PonderTime` is the main
worker: `check_time` is one step (`CheckStopFlag`, `CheckAbort`, `CheckFix`,
`CheckNothing`), since the flags it reads change one way only; the budget block is
three (`BudgetSync`, `BudgetRead`, then `BudgetOver` or `BudgetLeft`), since it reads
the `PonderSignal` twice. `PonderSignal::ponderhit` is two (`Stamp`, `Clear`).
`total_time`, which depends on scores and node counts, is any value its cap allows.
`TimeBudget` runs the same operators in whole milliseconds over a grid of inputs, from
the plan of a `go` to the end time fixed for it.

### RootSearch

`rootMoves` is the vector of `RootMove`s as records; `rootDepth`, `pvIdx` (from 1),
`alpha`, `beta`, `delta` and `bestValue` are the locals of `run_worker`, and `low` is
`alpha` as `search` raises it while it goes through the root moves. `pc` stands at the
head of a loop (`iterate`, `window`), inside `search`, between its return and the
widening (`returned`), after a line (`inside`, `aborted`) or after an iteration
(`complete`). One action is one root move searched (`SearchMove`: Step 20, with
whatever value the child returns), a return from the root before its move loop
(`ProbCut`: Steps 11 and 12 are the only early returns the root is not barred from;
Steps 1 to 9 test `root_node`, `pv_node`, `tt_pv` or `cut_node`, and a declaration win
never gets past the coordinator), a stop inside a child (`Abort`), or one pass through
the body of a loop. The stable sort is `Sorted`, on both its ranges. A move's moving
averages are left open: only whether it has been searched (`averaged`) is kept, and
the window then opens anywhere `Centre` and `Width` allow. `uci_score`, which the
resignation and one gate of the PV output read, is left out: the gate is a choice, and
a reply is the move even where `ResignValue` would replace it. `completedLines` is
what an abort falls back on, `uciPvSent` and `shown` what the GUI has been shown, and
`Result` ends with the coordinator's last PV and the move.

### TransTable

The table's entries are relaxed atomics that all workers load and store without any
lock. One cluster is modelled, since no operation touches two. A `Node` is a node of
some worker's tree: it locates an entry (`Visit`, `LocateKey` for each key compared,
then `LocateOccupied` and four `LocateRead`, or the comparisons of `LocateVictim`),
and may store any number of times into the *located* entry (`SaveBegin`, `SaveLoad`,
`SaveMove`, four `SaveStore`), which is what `tt_store` does with the `TtSlot` that
the node holds across the search of its children. Several nodes of one worker on one
path behave as several nodes of different workers, and less freely, so a `Node` has
no worker. `NewSearch`, `Clear` and `Resize` need every node gone: `new_search` runs
before a helper is assigned, the other two behind `Arc::get_mut`, which is
`HandoverSafe` of `HelperPool`.

What is stored is told apart by the number of the store: `value` and `move` hold it.
`eval16`, always next to `value16`, is one field with it. The history variables say
which stores overlapped: `alone[n]` while no other store met that of `n`, `quiet[n]`
while none met its read, `raced[e]` from an overlap on `e` until an undisturbed store
has written the whole entry again.

### The board: Shogi, MoveGen, ScanRules, See, MateOne, Position, Game

A bitboard is the set of its squares; files, ranks and the depth of the promotion zone
are constants, so the code's tables (steps, rays, attack sets, blockers, candidate
masks) are computed for the board at hand by the rule that fills them in the code.
`MoveGen` has one operator per generator, in the order the code emits, and one per
predicate the search asks of a remembered move (`PseudoLegal`, `IsLegal`,
`GivesCheck`, `ToMove`). `ScanRules` knows nothing of tables, sets or cached check
info: it walks the board, like the oracles the repository's tests keep beside the
generators, and the properties of `Game` compare the two. A key is a set of terms under
symmetric difference, a hand key counts its steps: no two positions share one by
accident, so a term counted wrongly always shows. `Position` keeps what `do_move` saves
for `undo_move`, and the check info derived for the child from that of the parent.
`Game` plays and takes back legal moves and null moves from its starts, on a stack.

`Repetition` plays longer lines on less: each side has one piece that moves between
places, hands may be exchanged, and whether a board is check is a function of the
board. Both builds' queries (`QuickRepetition`, `ChainedRepetition`) are those of
`RepetitionRule`, which `Position` uses too.

### MovePicker

Generation and the exchange are functions of the position, chosen once; the score of a
move may be anything each time a stage is scored, because histories change between two
calls. One step is one call of `next_move`, or `skip_quiet_moves`. The list-based
picker of the reference build runs beside the single-buffer one, as a twin that gets
the same answers.

### InteriorSearch

A frame is one activation of `search` or `qsearch`; `pc` names the call it waits for. One
step is the code from one call or return to the next, since a worker is sequential. What
the table answers, what a position evaluates to, which pruning condition holds and how far
a move is reduced are choices; control, windows, depths, the cells of the search stack
(`cells`), the position (`board`), the accumulator's depth and the PV lines are not.
`qsearch` enters (`QEnter`), looks into the table, stands pat unless in check, goes
through its captures, averages a fail high that decides nothing, and stores. The rare
events (a null move, a verification, a stop, a mate distance cut...) share a budget,
`MaxRare`, so that the tree stays small: every pair of an event and its consequences is
explored, not every product of events.

### The services, and MCServices

Seven components that share no state with each other run in one instance: `part` says
which, and the variables of the others hold `<<>>`. Their properties are implications
on `part`.

* `Accumulator`: a half is the number of times each feature's column stands in it, so a
  column added or removed twice shows where a sum might hide it. `refresh`, the
  differential `update`, the finny table, which outlives the nodes that filled it, and
  the stack are compared with the features of the position on the board.
* `Histories`: tables are functions from the flat index the code computes. Two workers
  climb their lines and learn; an update of a shared table is a load and a store, with the
  other's between them. A node's own searches, verification and singular, run on its cell,
  so that what it taught before it is taught again within them. Bonuses are computed as in
  the code, from outcomes at both ends of their ranges; tables start empty, at their fill,
  or at their bounds.
* `Book`: a file is its header, its sorted index and its move records; truncated,
  unsorted and torn files are among the disks. Loading follows the signature and the
  file series, the probe runs the binary search in both read modes and on the flipped
  position, selection and the shown lines follow.
* `Numa`, `EngineSetup`: layouts from a custom string, from nodes under the numbers `/sys`
  gives them and from shared caches; the threads distributed; then a session of
  `setoption`, override files, `isready` with its keep-alive, `usinewgame` and searches
  that borrow tables and networks.
* `Declaration`, `SearchOutcome`: the points at the root and the declaration at any node
  below it; the vote over every triple of reports; what is carried to the next `go`.
* `TimeBudget`: as above.
* `PvLines`: from a worker's report to the reply. `build_pv_infos` shows the lines, in
  `ConsiderationMode` walked on through the table, where every probe may hit another
  position's entry; `extract_ponder` looks for a ponder move. The root is taken with no
  history before it, and `pseudo_legal` and `is_legal` are the rules themselves, which
  `MovesExact` of `Game` justifies. In `ConsiderationMode` a repetition after the best
  move cuts the line shown before its ponder move: the property allows it.

## 3. The runs

| run | instance | properties |
|---|---|---|
| `helper_pool` | 0 to 2 helpers, 2 searches, with fairness | `PoolTypeOK`, `HandoverSafe`, `NoLostWakeup`, `PoolProtocol`, `ImplementsWorkerPool`, `EveryWaitEnds` |
| `usi_session` | polite GUI with 3 searches or any GUI with 2; positions of at most 1 move, 2 `go`s, with fairness | `TypeOK`, `OneReply`, `RepliesRight`, `NeverBlocked`, `Answered` |
| `ponder_time` | second of 2 units, ponderhit at 0..3, clock to 8, 2 iterations, with fairness | `DeadlineWithinClock`, `EndTimeRules`, `SearchEnds` |
| `root_search` | 3 moves, 2 PV lines, 2 depths, infinity 6, a win from 3 on, values -3 and 1, first windows at -3, -1, 1, with fairness | `TypeOK`, `WindowOpen`, `LinesExact`, `AspirationEnds` |
| `trans_table` | 2 nodes, 2 entries, 2 fragments (one is an empty entry's), 2 payloads, 2 generations, 3 stores, 2 searches | `TornOnlyByRace`, `HitIsWhole`, `AgeExact` |
| `repetition` | 3 places, 3 pairs of hands, lines of 12 with 1 null move and 1 exchange, window of 8 | `QuickExact`, `StoredRight` |
| `game` | 3 files, 5 ranks, a zone of 2; 10 starts, lines of 2 plies and back | `PositionExact`, `KingsAndPiecesKept`, `MovesExact`, `SeeExact`, `MateOneSound` |
| `move_picker` | 3 captures, 3 quiets, 2 exchange values, 2 and 3 scores, depths 1 and 5 | `YieldsEach`, `OrderRight` |
| `interior_search` | 2 moves a node, 3 plies, depths 1 to 2 at the root, mate at 8, 1 rare event | `Unwinds`, `WindowsAndValues`, `PvIsTheLine` |
| `services` | see below | `EvalExact`, `LearnsSound`, `BookRight`, `SetupRight`, `GoRight`, `TimeRight`, `LastLinesRight` |
| `root_pv`, `search_abort` | the instances of `root_search` (one line) and of `interior_search` (a losing window) | the findings of section 6 |

**helper_pool.** `HandoverSafe`: `get_mut` never meets a clone, and what a search
collects is its own. `NoLostWakeup`: a sleeper whose condition holds has its notify
still coming. `PoolProtocol`: slots keep the cycle of `SlotState`'s doc, so no `Exit`
is overwritten, and the coordinator's slot list stays valid. `ImplementsWorkerPool`:
refinement. `EveryWaitEnds`: commands and stopped searches come to an end.

**usi_session.** `OneReply`: one `bestmove` for each `go`, re-issued or not.
`RepliesRight`: replies to `go ponder` and `go infinite` wait until they are released,
and a ponderhit is answered for the position on the GUI's board. `Answered`: a `go`
told to stop, or bounded and not held, gets its reply. `NeverBlocked`: no GUI can make a
command hang.

**ponder_time.** `EndTimeRules`: fixed once, never while pondering, and counted from the
ponderhit. `DeadlineWithinClock`: whatever the moment of the hit.

**root_search.** `WindowOpen`: the assertion at the top of `search`, for every window
it is called with. `LinesExact`: after a fail high or ProbCut some moves keep the
scores of an earlier attempt, window or line, and the sort compares them with new ones;
the last attempt, inside its window, has tried them all, so its move ends up first with
the value returned, and an abort falls back on lines of one iteration.
`AspirationEnds`: no sequence of fails goes on for ever.

**trans_table.** `TornOnlyByRace`: an occupied entry is one store's payload, and its
move one stored for the same fragment, unless stores overlapped on it; that a held
slot may by then be another position's does not mix them, because a store under
another key writes the move even when it has none and is never refused by depth.
`HitIsWhole`: the same for the copy `locate` returns. `AgeExact`: what `hashfull`
counts is what the searches since the store say, through the wrap of the generation,
`clear` (which resets it) and `resize` (which does not). That the mixtures do occur
when stores overlap is what the module's documentation says, and TLC finds it when
`raced` is left out of the property.

**repetition.** `QuickExact`: the build without stored counts answers for the latest
earlier state on the same board, compares hands, and blames the side that checked all
the way. `StoredRight`: the triple the other build stores counts real occurrences, calls
a perpetual check only where that side checked since the first of them, and reports it
to a node only when the occurrences lie below the root or number four.

**game.** `PositionExact`: taking back restores everything, the keys are those from
scratch, and the cached check info is that of a scan. `KingsAndPiecesKept`: no line of
legal moves leaves a king to be taken, or loses a piece. `MovesExact`: the legal
generator emits the legal moves, each once; captures and quiets split them; the
predicates agree with playing the move; a remembered move is accepted exactly when the
generator would emit it. `SeeExact`: the threshold `see_ge` accepts is the value of the
least-valuable-attacker exchange with pins. `MateOneSound`: every mate the detector may
find is one, and the candidate masks drop none of them. (That it finds every mate is not
claimed: the code says it does not.)

**move_picker.** `YieldsEach`: every legal move once, the table's move first; after
`skip_quiet_moves` the deferred captures still come. `OrderRight`: captures by exchange,
quiets by score down to the sorting limit, and both builds agree move by move.

**interior_search.** `Unwinds`: position, accumulator, excluded move and `nmp_min_ply`
follow the activations. `WindowsAndValues`: the assertions at the head of `search`, and
values within the mates of their ply, in the table too (a stopped search's are exempt:
`search_abort` is about those); beyond ply `Reach` (half of the ply
limit), where an average of `qsearch` may claim a mate nearer than its node is, within the
mates of `Reach`. `PvIsTheLine`: the line in a node's cell is the one its searches
returned.

**services.** `EvalExact`: the accumulator on top of the stack counts exactly the features
of the position, whatever the cache held, and `FeaturesDistinct` holds the index
arithmetic. `LearnsSound`: entries within their bounds, the sentinel cells never written,
the correction within what the evaluation can take, no two moves under one index.
`BookRight`: whatever the files hold, the answer and its ponder move are legal; when they
are whole, it is what a reader of the whole file in memory would choose (of several
records with the best value, the property lets any be deep enough; the code asks the first
stored, and no book of the run tells them apart). `SetupRight`: whatever the order of
commands, threads, tables and networks are those of the options, a running search keeps
what it borrowed, and the keep-alive is gone before `readyok`. `GoRight`: a proved win is
not voted down by scores that prove nothing (reports that mix a win with a proved loss are
exempt), an unfinished worker has no say, the carried score has the right sign, the
declaration keeps its rules. `TimeRight`: budget and end time within the clock, margins
kept, whole seconds, no time gone by asked for. `LastLinesRight`: lines and reply are
legal play and tell the same story; a walked line meets no position twice within the
window of the repetition query (16 plies); a resignation has shown its score.

*Bounds.* Two helpers are what it takes for one to be collected while the other
still runs, and for a pool to grow, shrink and empty; a third helper adds no new pair
of neighbours in the loops, which go through the slots in order (the inductive
invariant was also checked with three). Two searches are what it takes for a result
of one to be met by the next; the third would find what the second found. In
`UsiSession` one move makes a rewind possible and none impossible; three searches let
either of two `go`s be re-issued. `PonderTime` counts a second as two units so that
rounding matters within a clock of eight. In `TransTable` two entries are what it
takes for a key to be found at one place and a victim at another, three stores for
two to mix and a third to meet the mixture, and two generations wrap at once; the
payloads are chosen so that depth, age and another fragment each decide alone to
replace an entry, and so that none does (an exact bound, which always replaces, has
the effect of a greater depth). In `RootSearch` three moves leave one behind the two
lines, two depths are what it takes for an iteration to be aborted after a completed
one, and of the two values one is a proved loss and one is near a draw, so that windows
fail both ways, values tie, and the exits for decisive scores are taken.

A line of twelve holds three repetitions of a cycle of four, and a window of eight lets an
occurrence fall out of it. A board of three files and five ranks has corners, edges, a
middle file and squares in neither zone; the ten starts hold pins by rook and lance,
discovered and double checks, a pawn drop that mates, sliders behind a piece that
captures, and mates by drops, by promotions, by sliders and by each small piece. Two plies
are what it takes for a capture to be dropped again and for a takeback to restore a
takeback's position. The pickers' scores lie on both sides of every threshold. In
`InteriorSearch` three plies put a verification or singular search over a node with
children of its own, and the mate distances meet the window; the depth from which a raised
alpha no longer lowers the depth (14) is scaled to 4. `search_abort` opens its root on
`(-5, -3)`, which puts ProbCut's bound below the zero of an aborted child. The
accumulators play four moves in lines of two on three by three squares, on which kings
cross the mirror and a table entry filled in one branch is reused in another. Two workers
are what a lost update takes; one may verify at its node, the other search it again with a
move excluded, and learn twice from its evaluation; a node is entered again only while its
worker may still learn. Of the books one is whole, one has other plies and a turned
position, one is unsorted and short, one torn. Lines of six let two kings go round.


*Fairness.* Weak, per thread: each helper, the coordinator and the driver keep
taking their own steps, which is what the operating system's scheduler gives a
runnable thread. A search (`HelperSearched`, `CoordStop`, `SearchEnds`) is only
obliged to end once its stop flag is set, or once it is bounded and not pondering:
`check_time` runs every few thousand nodes. Spurious wakeups, the GUI, and the
completion of an iteration are obliged to nothing. In `PonderTime` time passes, the
driver finishes `ponderhit` once begun, and the worker reaches its checkpoints. In
`RootSearch` the worker keeps taking steps, because every child's search returns; a stop
need not come.

Deadlock is checked except where behaviours end by themselves: `move_picker` with the
last move, `interior_search` and `search_abort` with the root's return, `root_search`
and `root_pv` with the worker's result, `services` with the bounds of each part. The
end of the process is an explicit step (`Exited`), and the end of a `PonderTime` run
leaves the `Stop` of the driver possible.


## 4. The proofs

The pool in `GoProofs`, for every number of helpers and of searches
(`MaxHelpers \in Nat`, `MaxGo \in Nat`, nothing else assumed):
`PoolTypeCorrect`, `TableHasSoleOwner`, `ResultsAreFresh`, `NoWakeupIsLost`,
`SlotsFollowTheProtocol`, `PoolIsStableUnderSearch` and `Refinement`
(`PoolSpec => ImplementsWorkerPool`); `HandoverIsSafe` and `PoolKeepsItsProtocol` join them
into the two properties the run checks. None of the properties is inductive. The
invariant `IInv` says, for each helper, what its place in `helper_loop` makes of its
slot, its job and its clone (`HelperInv`); for each slot of the pool, whether it is
still the coordinator's to assign, in flight, collected, or already told to exit, by
comparing it with the loop indices `ck` and `dk` (`SlotInv`); what the coordinator's
place says about the flags and about the set of collected results (`CoordInv`); and
that the driver is beyond its join only when there is no search (`DriverInv`). The
step lemmas `HelperKeepsIInv`, `CoordinatorKeepsIInv`, `DriverKeepsIInv` go action by
action; `SlotStep`, `PoolStep` and `StepRefines` derive the action properties and the
refinement from one step under `IInv`.

The search clock in `ServicesProofs` (invariant `ClockInv`), for every set of budgets over
the naturals, every `movetime`, every length of the second and all three bounds:
`TypeCorrect`, `DeadlineIsWithinClock`, `EndIsFixedOnce`, `NoEndIsFixedWhilePondering`,
`CheckpointsCountFromHit`, and the last three as `EndTimeKeepsItsRules`. The lemmas
`RoundUpBounded` and `SearchEndBounded` say that whatever is rounded, no more than
`remain` of our own clock is used; the invariant adds where the worker may stand with an
end time decided, and how its copies of the stamp and the flag relate to the
`PonderSignal`.

`TransTableProofs`, for every set of nodes, fragments and payloads, every size of a
cluster, every number of generations, stores and searches: `TypeCorrect`,
`TornOnlyByRaceAlways`, `HitsAreWhole`. The entry at rest is the easy half of the
invariant (`RestInv`); the rest says what holds in between. Of the nodes storing into
an entry at most one is `alone`, and any other has left its mark in `raced`
(`StoreInv`). The one that is alone has loaded what is in the entry, and finds there
what it has stored so far (`ProgressInv`), so that its last store completes the
entry, and so that where it stores nothing but a move, the entry was already its
fragment's and occupied: the depth comparison refuses only where the old depth is
positive. A quiet read has copied what is still there (`ReadInv`). The lemmas follow
the steps of a store, of a locate, and those between searches. `AgesAreExact`
adds the arithmetic of `%` by an unknown modulus: a generation is the number of searches
since the last `clear`, and the difference of two is what `hashfull` counts, `resize`
or not.

The root search in `GoProofs`, for every list of different root moves, every MultiPV,
depth, set of values, centres and widths: `TypeCorrect`, `WindowOpenAlways`,
`HeadHasTheValueAlways`, `CompletedLinesExactAlways`, the last two as `LinesExactAlways`.
First the sort: `Place` is an injection of the range into itself, hence (by counting) onto
it, so `Sorted` is a permutation, and it puts no move behind one it precedes. The
invariant says that the list is a permutation of the root moves with scores in range; that
within an attempt no move tried has a score above `bestValue`, and one has exactly that,
as an exact score, once the value is above `alpha` and below `beta`; that the sort then
makes this one the head and leaves all others below it; and that the lines before `pvIdx`
are exact, of this iteration and in order, whatever their scores are to the lines still to
come.

`UsiSessionProofs`, for every number of moves, `go`s and searches: `TypeCorrect`,
`OneReplyAlways`, `RepliesAreRight`. The invariant says which `go` the latest search
serves and what a command that waits for its end relies on (`Spawned`); that a search
still able to write leaves room for its line among those its `go` may get (`Counted`);
that a pondering or infinite search is past its hold loop only when released (`Held`);
and, for a GUI that keeps the protocol, that a search to be re-issued is silenced before
it reads the flag, that the `go` waited for has a search that will speak, and that only a
stochastic ponder looks at another position than the board's (`Protocol`). One lemma per
part goes through the actions.

`InteriorSearchProofs`, for every branching, ply limit, depth, window, evaluation and set
of table values that the named assumptions of `InteriorSearch` allow (a mate is more than
two ply limits away, evaluations and contempt decide nothing, a root window is open and
reaches above the lowest mate, the margin of a singular search is at most the ply limit
plus one): `UnwindsAlways`, `WindowsAndValuesAlways`, `PvIsTheLineAlways`. The invariant
describes an activation by itself (what it is, its window, the moves it has been through,
the scores it has: `Kind`, `Window`, `Count`, `Score`), each caller with the activation it
waits for (`Link`, `Stack`), when a value has been returned and which values count before
a stop (`Control`, `Values`), which cell holds whose line (`CellLines`), which activation
answers for each excluded move and for `nmp_min_ply` (`Exclusion`), and the moves on the
board (`Board`). Values and lines depend on each other's plies, so none of the three
properties is inductive without all of it. `GotoKeeps`, `CallKeeps` and `ReturnKeeps` do
once what every step does to the stack; then comes one lemma per action. `StoredInRange`,
`ReadInRange` and `RoundTrip` are on `value_to_tt` and `value_from_tt`: a value stored at
one ply and read at another stays within the mates of the reader's ply, which is what
keeps `MateRange` from depending on who stored it.

`NodeProofs` has two parts. The picker, for any lists the generators may give (without
repeats and without a move in common), any sets of illegal moves, exchange values and
integer scores, which may change at each stage: `YieldsEachAlways`. The invariant
`PickInv` says what the buffer holds: the legal captures without the table's move, each
once, in front of the quiets, each once, if they were generated; and it divides the
buffer, stage by stage, into positions whose moves have come out or were refused for good
(`Spent`) and positions still to be offered (`Fresh`), the losing captures swapped to the
front among them. A sort rearranges (`SortKeeps`: each promotion is a rotation of a range,
so every entry is still there once), compaction only swaps (`CompactionRight`), and each
stage hands the next exactly what it has not given; these are inductions over folds, by
`FoldSteps`. What has come out, what is held and what was skipped then account for every
move wanted.

The repetition queries, for any places, any relation of checks, any hands, window and
length of line (`StartAssumption`: both pieces start on a place; `WindowAssumption`):
`QuickExactAlways` and `StoredRightAlways`. `LineInv` says of every state of the line, and
so of those that come back when moves are taken back, what its counters mean in the moves
that were played: whose turn it is and that a move takes its own piece elsewhere
(`TurnInv`), that the plies since a null move are those without one (`NullInv`), that a
run of checks reaches an even distance back exactly when all of that side's moves since
were checks (`RunInv`), and that the stored count is the number of earlier occurrences
since one of them, with the perpetual verdict true from there (`ChainInv`). The code looks
at every second state only, from the fourth, and stores only the nearest match:
`StopsAreEarlier` and `NoneBetween` show that nothing is missed, because a board met again
has the same side to move and two plies of real moves cannot restore it, and `ChainStep`
that chaining to the nearest match counts all.

`FoldProofs` is induction over data. The library's induction theorems have an operator for
a parameter, which the installed provers cannot instantiate; but a set of naturals has a
least element, and a module with constants `Op` and `Holds` can be instantiated with any
operators that stand for themselves. Its three lemmas say nothing of the program by
themselves; the theorems below instantiate them. `FoldLeftHolds`: what holds of the base
and is kept by `Op` holds of `FoldLeft`. `FlattenSeqOver`: flattening sequences over a set
stays over it. `FoldSteps`: a relation between what is folded and what was consumed, kept
by each step, holds of the whole.

`ServicesProofs` has three parts besides the clock. The histories, for every number of
workers, script and set of keys under `ScriptsAssumption` (squares, pieces and numbers are
such, and no move puts an unpromoted pawn where none can stand) and `ThreadsAssumption`
(some thread is counted, which the size of the shared tables follows):
`LearnsSoundAlways`, through any nesting of a node's own searches on its cell.
`SentinelKept`, its part on the sentinel, speaks of the continuation table alone. The
invariant `HistInv` adds to the bounds that every line of the stack is one a worker can
have, that every update waiting is under a real index with any bonus, and that a value
loaded for the next update is within its table's bound, whatever the others have stored
since. That the updates of a handler are such is a fact about folds over lists of moves
and about the concatenation of their parts, by instances of `FoldProofs`; that no two
moves share an index is arithmetic of mixed radices (`IndexesAreDistinct`).
`GravityBounded` (the gravity of an update, a truncated product, keeps an entry within the
bound of its table), `UpdateKeepsBounds` and `LateStoreKeepsBounds` (a store computed from
an entry loaded before other workers stored theirs: what makes the unsynchronised shared
tables harmless) rest on `ProductGrows` and `QuotientBelow`, the only facts about a
product and a quotient of two unknowns. The budget, for every input of integers, every
ponderhit and every elapsed time: `TimeRightAlways`, from what rounding up to a second
keeps and what the plan makes of a clock, overdrawn ones included.

The vote and the carried score, for any number of workers, any reports
(`VotesAssumption`) and any game: `VoteAndCarryAlways`. The votes of the workers and the
choice among them are folds over the reports, so two instances of `FoldProofs` carry the
induction: after the first `n` workers the votes for a move come from workers that
finished an iteration (`Counted`), and the best so far is no worse, by the comparison that
applies, than any of them (`BestOf`). Three comparisons take turns and are not one order:
`PreferredIsBest` shows that each is kept as long as no report of another kind meets it.
The carried score is seen from the right side because a ply passes with each change of
sides: `Phase`, the side to move at even plies, is the same at every position of a game,
at the root of its search and in what the last search left (`OutcomeInv`), so that the
parity of the plies between two roots tells whether the sign turns.

`EngineProofs` has two parts. The last lines, for any board, any reports
(`ReportsAssumption`: a worker holds lines of legal moves from the position it was given),
anything the table may hold and any answer to each probe: `LastLinesAlways`. The invariant
`PvInv` says that the lines kept are searched ones with the chosen one at the head
(`FinalOk`), that a walk stands on the last board of a legal line, with the states of all
its boards behind it and none of them met twice within the window (`Walked`), that the
walk and the line it shows begin alike, and that the first line shown began as the chosen
one does and bears its score. The boards of a line are a fold (`BoardsAre`); lines that
begin alike have the same ones (`BoardsAgree`), which is why the move of the searched line
is legal where the walk stands. The repetition query looks at even distances from the
fourth only: `SidesTakeTurns` excludes the odd ones, and `TwoMovesDiffer` the second,
because a move leaves its square, or fills one, and the answer cannot put back what was
there (`WalkStays`).

The set-up, for any machine, declared options, requests, override files and networks
(`OptionsAssumption`: a request's text is one of its option's type, and the defaults are;
`MachinesAssumption`: on each machine the CPU lists are finite lists of numbers, the
process may use some CPU, and the CPUs behind one L3 cache lie in one node and name the
same siblings): `SetupAlways`. First what the algorithms give. `DetectedLayout`: on such a
machine, whatever its nodes, their numbers and a missing or blank file, and with regard to
the affinity or not, the nodes detected are not empty,
share no CPU, hold usable CPUs only and stay each within one of the system's nodes; it
follows the walk over the caches (`WalkedAreDomains`), the passes that merge neighbouring
domains (`PassKeepsNodes`, `BundlesAreNodes`) and their concatenation node by node
(`ListsAreNodes`), each a fold. `CustomLayout` is the same of a text. `DistributedEvenly`:
of any layout no node is filled more, by its size, than another would be by one thread
more; the greedy choice keeps that because fractions are ordered (`LeastFraction`).
`PowerReaches` and `SharedBuilt`: a shared table has room for the workers of its node;
`NetworksResolved`: every worker finds the replica of its node, or the one network there
is. Then the invariant `EngineInv`: there is a layout, and it is the detected one while
the policy asks for that (`LayoutInv`); the pool has the threads of the option, its
binding is one of this layout, and the shared tables and networks are those of the
workers so bound (`WorkersInv`, `NetworksInv`); the table is unsized or has the size of its
option, and is sized once a network is there (`SizeInv`); the main thread's histories go
with the first worker's table (`ReturnInv`); a search that runs was lent what there is
(`LentInv`); and the stages of an `isready` follow each other, its override lines and its
keep-alive with them (`ReadyInv`). The property is not inductive: what a search was lent
survives an `isready` only because that waits for the search before it reads a line,
and a network that is loaded is that of every worker only because the binding is still
one of the present layout. One lemma per command goes through them.

What is not proved stays with TLC, which checks it on the runs' instances. Liveness
(`EveryWaitEnds`, `NeverBlocked`, `Answered`, `SearchEnds`, `AspirationEnds`) is beyond
the prover. `game`, `OrderRight`, `EvalExact` and `BookRight` compare two computations
over a board or a list; an instance of `FoldProofs` needs operators without parameters of
the step at hand, and their folds are nested and take them; `SelectSeq`, on which some
rest, has no definition the prover can use. Of `GoRight` the declaration is left, which
counts pieces on a board.


## 5. What is left out

* Memory order. The models are sequentially consistent. `suppress` and `stop` are
  relaxed stores (`driver.rs` 1337), the table's fields and the shared histories relaxed
  loads and stores; on x86-64, which the project targets, the machine reorders neither
  stores with stores nor loads with loads. A compiler that did would widen what counts
  as an overlap in `TransTable`.
* Sizes. The board is smaller than nine by nine: the bit layout under the sets, with its
  two words and its carries, is not modelled, nor is the table that turns an occupancy
  into a slide.
* Which cluster a key selects, the prefetch, `probe`, which repeats `locate` for the
  reads outside the tree (the ponder move, the consideration-mode PV), and the
  `TTWriter` it hands the tests, which repeats `write_at`. A comparison of the victim
  search is one step: a store in between changes which entry is replaced, no more.
* Numbers of the search. Margins and reductions are constants or choices, evaluations
  small integers: `interior_search` shows that bounds, windows
  and unwinding do not depend on them, and says nothing of playing strength. That the
  tree ends is not stated: depths fall or plies rise to `MAX_PLY`, and singular
  extensions are bounded by tuned numbers. `SingularAssumption`, that the margin of a
  singular search is at most `MAX_PLY + 1`, is what keeps its window above the lowest
  value; the code's margin grows with the depth and is that up to depth 107, beyond which
  only a table value near a proved loss could break the assertion.
* The king-bucket cache lives as long as one `go` in the engine
  (`QSearch::with_histories`), so it never meets another network.
* `bench` runs its coordinators in line on the driver's thread: to the pool it is one
  more `go`, to the session a `sync` that leaves a position behind.
* `NumaPolicy` with no valid node exits the process from the option handler: a
  `quit` for the session. Reading `/sys` and binding a thread are external.
* Node limits end a search the way `movetime` does.
* `RootSearch` is one worker: the helpers run the same loops without PV output.
  `effort`, `selDepth`, `bestMoveChanges` and the depth reductions feed the budget block
  and the children only. What its moves' averages are is left open.
* Text: parsing, formatting, logging, option listing, SFEN, the profile file of the
  options, the random numbers of the book and of `rtime`.
* The SIMD kernels, the network's loader and forward pass, the layout of the table
  memory, the binary and the tools.

## 6. Where documentation and code disagree

Two have a run:

1. `root_pv`: when a stop ends an iteration whose PV has just become due, that PV is
   shown and counted as the final one (`qsearch.rs` 1711) although the result is the
   iteration's before; with another first move, what the GUI saw last disagrees with
   `bestmove`, against `qsearch.rs` 528 and the assertion of `multipv_session.rs` 310.
2. `search_abort`: the comment at `qsearch.rs` 1106 says of the zero a stopped `qsearch`
   returns that it "is discarded, the interior caller unwinding on its own check". The
   ProbCut loop makes no such check after its child returns: where its bound is not above
   zero, that zero reaches it, is stored as a lower bound (2762) and, less the margin,
   is returned. (Under the windows of `interior_search`, whose ProbCut bound is above
   zero, the value stored is the negated `-VALUE_INFINITE` of a stopped child in check, 1186
   and 1346.)

The properties of the session and of the clock exempt these by name, because the code
does them:

3. A rewound root under `Stochastic_Ponder` that is a declaration win is answered at
   once, unsuppressed, and the re-issued `go` is answered again; `driver.rs` 1333
   promises exactly one `bestmove`.
4. `go infinite` with a node ceiling or `movetime` replies without a `stop`:
   `request_abort` (`qsearch.rs` 916) raises the flag the hold loop waits for;
   `driver.rs` 2222 says the reply is held regardless of the clock.
5. The short-circuits (`driver.rs` 2311) reply while pondering, so no property covers
   them there; `driver.rs` 2420 says a
   pondering search must not reply.
6. A ponderhit between `sync_ponderhit` and `is_pondering` of the budget block still
   yields an end time counted from the `go`; `qsearch.rs` 1788. The end is early by the
   time pondered, never late (`DeadlineWithinClock`).

Smaller ones, met while modelling:

* A suppressed search still writes its final PV (`driver.rs` 2500, against 2224).
* Without `RoundUpToFullSecond` an end time may be decided to be 0, which `timeman.rs` 66
  reserves for "not yet decided".
* `attic-storage/src/book.rs` 7 promises identical results of both read modes; on a
  record of no moves whose offset lies outside the file they differ.
* `root.rs` 144 and 191 choose "the longest defence" among proved losses; the code takes
  the lowest score, which is the shortest.
* `root.rs` 179: a PV of two moves has no weight, so on a level vote a worker that finished
  no iteration may be chosen before one that did, on the same move; the score reported and
  carried is then the lowest one, of nothing searched. `VoteRight` says that such a choice
  costs no more than the score.
* `driver.rs` 1016: the lowest score of a search that finished nothing, carried with its
  sign flipped, becomes the value that stands for a first move.
* After a bad `NumaPolicy` line in an override file, a later `setoption NumaPolicy`,
  which `driver.rs` 798 calls silently ignored, ends the process, because the fixed bad
  value is resolved again.
* `qsearch` averages a fail high with `beta` (`qsearch.rs` 1230, 1361). The average
  of a score that is no mate with a bound that is one can be a mate nearer than its node
  is, though never nearer than half of `MAX_PLY` (`Reach`); `MateRange` allows that. What is
  stored from there fits the 16 bits of an entry, but may lie up to `MAX_PLY` beyond the
  mates of the root: that table values lie between those mates (`TTValues`) is what the
  search keeps up to ply `Reach`, and is assumed of what deeper plies stored.
* `qsearch` of a PV node empties its cell's line only after the check for a stop, so for a
  moment the cell holds another node's; `PvIsTheLine` exempts a PV `qsearch` that has just
  been entered, which hands nothing to its caller before it has emptied the cell, or has
  been stopped.
* A book that failed to load is not tried again at the next `isready` while its options
  are the same.

## 7. Plan

What is left, in order of what matters to the engine:

1. The rest of `GoRight`: the declaration below the root.
2. The accumulator's `EntriesWhole`, and the pickers' `OrderRight`.
3. The table memory: regions are disjoint and aligned. The option profile file. The
   round trip of `PackedSfen`.
4. A bound on the tree of the search.
