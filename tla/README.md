# Verification of Owi

Owi is a toolkit for WebAssembly; its core is a symbolic execution engine
(`owi sym`) that explores the paths of a program in parallel, and the C library
that explored programs are linked with. This directory holds TLA+ models of
both, the TLC runs that check them and proofs about them. Paths below are
relative to `src/src/`.

## Inventory

| part | state it keeps | operations | talks to |
|---|---|---|---|
| Synchronised containers (`data_structures/synchronizer.ml`, `wq.ml`, `ws.ml`, `wpq.ml`) | mutex, condition variable, elements, pledge counter, `closed` | `get`, `write`, `make_pledge`, `end_pledge`, `fail`, and on top `work_while`, `read_as_seq` | the scheduler (work queue), the driver (result stack) |
| Priority queue (`data_structures/pq_imperative.ml`) | a heap in a growable array | `push`, `pop`, `is_empty`, `length` | the container `wpq` |
| Scheduler (`symbolic/symbolic_choice.ml`: `Schedulable`, `Scheduler`, `run`) | one work queue, a domain per worker, a solver per domain | spawn, pop a task, run it, push its continuations, call back with its results, fail | containers, driver (callbacks), solver |
| Driver of `owi sym` (`cmd/cmd_sym.ml`) | result stack, path counter, options | callback, read, sort, print, join, verdict | scheduler, result stack |
| Choices (`symbolic/symbolic_choice.ml`: `Make`) | the thread of a path | `select`, `select_i32`, `assume`, `assertion`, `trap` | path condition, solver |
| Path condition, union-find (`symbolic/symbolic_path_condition.ml`, `data_structures/union_find.ml`) | set of conditions; classes of symbols with their conditions | `add`, `slice`; `add`, `union`, `find` | choices |
| State of a path (`symbolic/thread*.ml`, `symbolic_memory_make.ml`, `symbolic_table.ml`, `symbolic_global.ml`, `symbolic_functor.ml`) | collections of mutable memories, tables, globals | `clone`, lazy conversion, `lift_mem`, the accesses | choices (cloning), interpreter (handles) |
| Interpreter (`interpret/interpret.ml`) | stack, frames, handles | one case per instruction | choices, state of the path |
| Concolic execution (`concolic/`, `cmd/cmd_conc.ml`) | a tree of the runs so far with cached counts | run once, add the trace, find the next model | solver, linker (backup and recover) |
| Heap of explored C programs (`lang_c/libc/src/stdlib.c` over the chunks of `symbolic/symbolic_memory_concretizing.ml`) | the pointer of malloc; chunks with their sizes; bytes | `malloc`, `calloc`, `realloc`, `free`, `alloca`, `strdup`; loads and stores, checked against a chunk | the functions of owi that open and close chunks |
| Contracts of E-ACSL (`lang_c/libowi/src/eacsl.c`) | a struct and an array of bits, both in the heap of the program | make, set a behaviour, get it, count, clean, assert | heap, assertions of owi |
| Symbolic input (`lang_c/libowi/src/klee.c`, `owi.c`, `test-comp.c`) | open scopes of symbols, temporary chunks | `klee_make_symbolic`, `klee_range`, one function for each type | heap, symbols of owi |
| C library (`lang_c/libc/src/`) | none that outlives a call | `qsort`; conversions to numbers; classes of characters; strings, bytes, byte order; `strftime`; functions that do nothing | heap |
| Linker (`link/`) | module environments, shared segments | link, instantiate, call | interpreter |
| Concrete execution, validation, parsing, text to binary, annotations, number primitives, scripts, other commands | none that outlives a call | pure transformations | |

How they interact: the main domain pushes the first task, makes one pledge on
the result stack per worker, spawns the workers, then reads the result stack.
Each worker pops a task together with a pledge on the work queue, runs it to a
tree of statuses, pushes the tasks in it back, calls back with the results, and
ends its pledge. Paths share nothing but the queues: a choice clones the
thread. An exception in a worker fails the work queue, is kept by the dead
domain, and comes out when the main domain joins it.

A C program calls the library it is linked with, on its own path. The library
knows nothing of chunks: it moves a pointer up and tells owi where a chunk
begins and ends, and owi checks every access against the chunk that the pointer
was derived from. The contracts and the functions of KLEE use the same heap as
the program and can be disturbed by it.

What is hard: wake-ups with a single `signal`; the end of work decided by a
counter; failures of workers, solvers and printing; the order of results;
slices of the path condition; handles to mutable objects kept across
choices; sums of sizes that wrap around and chunks that are enlarged in place;
the ends of texts, intervals and buffers. `PROJECT.json` lists each hazard with
its line and the properties that would catch it.

What makes each part correct: the containers lose no wake-up and no element and
end the work exactly when there is none; the exploration reports each failure
once and its verdict is right; the slice of a condition is what it depends on;
the paths of a program partition its inputs; a path sees its own effects only;
the tree of concolic runs forgets no input that the solver did not give up on
and its counts are right; chunks do not overlap, fresh memory is zero and freed
memory is not accessible; a contract keeps what it was told; every scope is
closed; an input has every value of its type; a function of the C library does
what its standard says. Where the code falls short of that, the property names
the exception and so does "Findings" below.

## Modules

| module | models | state and actions against the code |
|---|---|---|
| `Synchronizer` | one container | the record `sync` is the code's record with the elements of the container; `waiting` and `woken` stand for the condition variable. An operation holds the mutex throughout and is one step; `get` is `GetSome`, `GetNone` or `GetWait`, one turn of its loop each |
| `SynchronizerClient` | every legal use of it | threads with a pending call, the pledges they hold, histories of what was pushed and returned |
| `PriorityQueue` | the heap of `Wpq` | `h` and `n` are the array and its length; `x` is the element on its way up or down and `hole` the place it left free, as the arguments of `move_up` and `move_down`, one turn a step; `held` is what the queue should hold |
| `PathExploration` | what `owi sym` promises | failures reported one by one, then a verdict |
| `Exploration` | scheduler and driver | two instances of `Synchronizer`; per worker a program counter along `spawn_worker`, `work_while` and `handle_status`; the main domain along `run` and `handle_result` |
| `Exploration_proofs` | | the end of work and of exceptions, for any program, number of workers and faults |
| `UnionFind`, `UnionFindClient` | the union-find as operators on its two maps | every sequence of `add` and `union`, next to a reference partition |
| `Structures_proofs` | | the containers, the union-find and the priority queue, for any number of threads, keys and elements |
| `PathCondition` | the path condition | `addPC`, `slice`, and the reference closure `Linked`; `Merging` is the fold of `add` over the symbols |
| `SymbolicChoice` | the choices | one action per operation of `Make`, and one per continuation after a yield (`CheckReachability`, `GetModel`) |
| `SymbolicChoice_proofs` | | slices and paths, for any program |
| `ThreadState` | sharing of mutable state | a store per clone of the three collections; a path keeps the handle an instruction got; `Stages` says what each instruction does with it |
| `ThreadState_proofs` | | what a path sees and its handles, for any number of paths |
| `ConcolicTree` | `owi conc` | the tree of runs, its nodes named by their path conditions; one turn of the loop is `Run`, `Judge` and a search, of which each call of `find_model_to_run` is a step: `Trim`, then `Pick`, `GiveUp` or `NoCondition`; the calls return in turn, each updating the counts above the node it chose (`Return`, `Returned`), and `to_update` keeps these nodes |
| `ConcolicTree_proofs` | | the tree, its counts and the verdict, for any programs and inputs |
| `Heap` | chunks and malloc as operators on a record | `bump`, `live`, `size` and `mem` are the pointer of malloc, the map of chunks and the bits that are set; what owi does and what the library does are kept apart |
| `Runtime` | a program on one path, with the heap, the contracts and the functions of KLEE | one action per function, each with everything it calls, any pointer the program was ever given as its argument; `owner`, `given`, `declared` and `said` are histories |
| `Runtime_proofs` | | the heap and the contracts, for any address space and any arguments |
| `QuickSort` | `qsort` | a step per comparison or exchange; the recursion is a stack of intervals |
| `Numbers` | `atoi`, `strtod`, `strtol` and its relatives, `ctype` | a text is a sequence of codes; next to it what a numeral denotes |
| `Numbers_proofs` | | what each conversion computes, for any text, base and widths |
| `Strings` | `mem*`, `str*`, byte order | a memory is a function; the copies go byte by byte in the order of the code; next to it what a search or an order means |
| `Time` | `strftime` | directives and formats inside formats, into a buffer with an end |
| `Inputs` | inputs by type | the chain of functions down to the symbol of owi that is made |
| `Stubs` | functions that do nothing | the result of each |
| `Library` | a call of any of these | `qsort` in steps, the others in one step, on arguments for which the standard says what they do |
| `Library_proofs` | | `qsort`, numbers, strings, bytes, byte order, inputs and `strftime`, for arrays, texts, memories, words and formats of any size |
| `MC...` | | small programs, inputs and conditions for TLC; `MCStructures` runs the union-find and the priority queue side by side |

Operators named like `Write_SignalIfEmpty`, with a comment that begins with
"Faulty", are wrong variants of the definition that follows them. No action
uses them; each one replaced for its definition makes a property of a run fail.

Abstractions. A task is a name with the list of leaves of its status tree
(`Status`): binds and choices inside a task touch no shared state. Breadcrumbs
are compared through their rank. Random priorities make the priority queue hand
out any element. Conditions are kinds with their symbols and the valuations
they hold of; the solver decides exactly over that finite domain. When it does
not know, `owi sym` stops with `assert false` (`symbolic_choice.ml:394`, `413`),
which is not modelled; `owi conc` goes on as if there were no model
(`cmd_conc.ml:308`), which is: `NoModel` in `ConcolicTree`, with the history
`unknown` of the solutions of the conditions it gave up on. The `assert false` for a decided condition whose
model is not found (`solver.ml:26`) is left out. In `SymbolicChoice` a condition that
turns out constant when it is simplified again (`symbolic_choice.ml:339-342`) is added
like any other: it has the same models. The two halves of a choice
do not interact, so one is followed and the other parked after its check; the
interleavings are in `Exploration`. An object in `ThreadState` is a few cells,
each holding the path that wrote it last, and a size; of what `memory.copy` and
`table.copy` copy only who wrote it is kept. In `Exploration` a failure to create
the directory of the test suite (`cmd_sym.ml:166-168`) is not told from one to print a
result: both end the run with an error. In `QuickSort` the size of an element is
left out, and with it the test that it is below half of `SIZE_MAX` (`stdlib.c:407`). In `ConcolicTree` a
program is a function from paths to instructions, a condition a function of the
inputs, and a run is on any input with the wanted path condition, which covers
the solver's choice of a model and the random values of the other symbols; the
`Expr.equal` assertions of `add_trace` hold because programs are deterministic.

In `Runtime` a byte is the set of its bits; the two fields of a contract are
kept apart from the bytes, so a program that writes into the struct itself is
not followed (it can only do so once chunks overlap). A symbolic byte has any
value of `Values`. A function that ends the path leaves the status it ended
with. In `Numbers` the widths of `long` and `long long` are parameters, and a `double` is
an exact decimal: rounding is left out. In `Time` only the length of a name is
kept, and of the time zone its text as one character; dates are in their normal ranges and
the years 1900 to 9999 (`IsTime`). In `Inputs` a value is told by where each of its bits comes from:
a bit of the symbol, or the zeros it is extended with.

## Runs

| run | shows | bounds, and why they are enough |
|---|---|---|
| `queue` | no lost wake-up, sleepers have a pledge, exact pledge counter, None is final, exactly once | three threads and three elements: one sleeper, one woken, one thief; all of it is also proved without bounds |
| `explore` | exactly once, workers quit together, right verdict, exceptions surface, deterministic order, termination, refinement of `PathExploration` | seven runs of `MCInputs`: two and three workers, every option, programs with and without failures to report, every kind of fault. Four tasks are enough for a task to be queued, run and yielded by different workers while others wait; the second and the fourth are also proved without bounds |
| `explore_ties` (violated) | equal breadcrumbs break the deterministic order | |
| `structures` | representative, aliases and data against the reference; the queue serves the least priority first | four keys: two classes of two merge, so that aliases are redirected; seven elements of four priorities: a heap of three levels, both children, the last leaf on either side, ties; all of it is also proved without bounds |
| `choices` | slices exact and decisive, paths feasible, paths partition the inputs | three inputs of two values, three choices a path (`MaxOps`), two symbols added by `select_i32` (`MaxFresh`): slices grow, stay apart and are joined by a later condition; all of it is also proved without bounds |
| `threads` | a path with sound instructions sees its own effects only, and instructions use current handles | two paths (`MaxPaths`), two instructions each (`MaxOps`), two interchangeable cells; an instruction per pattern of stages; also proved without bounds |
| `threads_grow` (violated) | a symbolic `memory.grow` is lost | |
| `threads_leak` (violated) | a store at a symbolic address leaks into the other branch | |
| `concolic` | no input forgotten but those the solver gave up on, no path run twice, exact counts, the search ends, "All OK" right for `Exhaustible` programs if the solver always decided | every program of three of thirteen instructions in a row, the last one guarding a failure (6253 programs), three inputs: three nested nodes make stale counts, unsatisfiable branches, negated and forgotten assertions and repeated runs happen; also proved without bounds |
| `concolic_left` (violated) | "All OK" is said beside unexplored branches | |
| `runtime` | chunks do not overlap until a sum wraps around or `realloc` overreaches, no freed pointer is valid, fresh memory is zero, contracts keep what they were told, scopes are closed | an address space of 64 bytes (`AddressSpace`) with the heap from 16 (`HeapBase`), sizes 0, 1 and 10, offsets 0 and 2, contracts of 0 and 9 behaviours, one value, five calls (`MaxCalls`): a chunk is freed, enlarged, accessed at its end and behind it, a contract needs two cells, and the sums of malloc wrap around; also proved without bounds |
| `libc` | `qsort` sorts inside its interval; conversions, strings, `strftime` and inputs against the standard, but for the departures listed under "Findings" | arrays of up to six elements (`MaxElements`) with three keys: both scans, both folds and both recursive calls on intervals with and without equal elements; a `long` of 16 and a `long long` of 20 bits (`LongBits`, `LongLongBits`), so that the limits differ and every base reaches them; memories of five bytes with a zero, a small and a negative one; words of four bytes of `ByteSize` 4; buffers that end before, inside and behind every format, at the hours 0, 9, 12 and 15; all of it is also proved without bounds |

`Done`, `Finished` and `Exited` are steps that stutter where the program has
ended, so that the runs check for deadlock; `runtime` and `libc` do not, because
a path ends with a trap or an assertion and a call with its return. The bounds
named above are in the guards of the actions that would exceed them.

Fairness: `Exploration` and `ConcolicTree` have liveness properties. In
`ConcolicTree` the one thread keeps running; `Fairness` is weak fairness of
`Next` with its enabledness written out, because every step changes the phase or
`to_update` and one is possible until the phase is "done". `Exploration` assumes weak fairness
of each worker and of the main domain (`Fairness`): they are domains scheduled
by the operating system, tasks are finite, and a critical section ends. No
fairness is assumed of spurious wake-ups. A task is assumed to end: a path that
loops for ever, which the engine does not bound either, is outside the model.

## Findings

The four violated runs are disagreements between the code and what it says of
itself. Three are errors. `memory.grow` by a symbolic amount
(`interpret/interpret.ml:931-950`, run `threads_grow`) grows a memory that the
path has already left behind, because the choice it makes in between cloned the
path; the other instructions that keep a handle across a choice (`memory.fill`,
`memory.copy`, `memory.init` and the table instructions) share the pattern,
whereas loads and stores get their handle again. A store at a symbolic address
(`threads_leak`) chooses the address where there is no memory to clone
(`lift_mem`), so that its branches write into one memory before it is cloned.
And `owi conc` may say "All OK" with branches left to explore
(`cmd/cmd_conc.ml:323-336`, `concolic_left`): a search goes on after trimming a
node without updating the counts that led to it, and may follow them to the same
node again; an assertion below a branch is not counted as something to try
either. The fourth is a divergence: the "deterministic" order has ties
(`explore_ties`). `ThreadState!Sound` names the instructions that the first two
do not touch; `OwnEffects` holds of the paths that use only those, even next to
a path that uses others.

More shows in the models without a run of its own.

- A failed container still hands out elements (`data_structures/synchronizer.ml:26`
  against `work_ds_intf.ml:25-26`), and the strategies `lifo` and `fifo` are wired
  to the containers of the opposite names (`cmd/cmd_sym.ml:233`).
- A program whose first concolic run fails an assumption that cannot hold reaches
  `assert false` (`cmd_conc.ml:319`, action `NoCondition`). Nothing looks for the
  values of a `select_i32` that no run happened to have (`FrontierCoversInputs`
  makes an exception for them); `abort` lets the run go on.
- When the solver does not know, `owi conc` closes a branch for good or takes an
  assertion for valid (`cmd_conc.ml:308`, `321-327`), and may then say "All OK" of a program
  with a failure there. `FrontierCoversInputs` makes an exception for the inputs
  of such a condition (`unknown`), and `AllOkSound` speaks of runs without one.
- `realloc` does not move a chunk: one made larger than its room overlaps the next one.
  `realloc(NULL, n)` allocates nothing but makes a chunk of n bytes at address 0
  (`stdlib.c:52-56`), the same one at every such call, which lies over whatever the
  program has below the heap, and over the heap when n reaches it. A pointer into a chunk
  is taken for the beginning of one. The sums in `malloc` are not checked. `ChunksDisjoint` and
  the rest of the heap's properties speak of runs before one of these goes wrong (history `sound`):
  a chunk at 0 that stays below the heap is covered, and is apart from all others.
  `posix_memalign` returns 0 without memory.
- A trap inside `klee_make_symbolic` or an empty `klee_range` leaves its scope
  open (`ScopesClosed` names exactly these), and printing the model then stops
  with "Reached end without closing scope" (`symbolic/symbol_scope.ml:63`).
- `partial_count_behaviors` counts the first two of its arguments only.
- `__VERIFIER_nondet_uint128` returns the address of a function and makes no
  symbol. A symbol of 8 or 16 bits is extended with zeros, also for a signed type
  (`symbolic_wasm_ffi.ml:74-80`): the negative values of `signed char` and
  `short` are never tried. `InputsComplete` asks for the sign from 32 bits on only.
- `strftime` (`Departs` lists these, and `TimeBounded` does not speak of the text of a format that
  has one): at noon `%p` and `%P` are AM; `%I` and `%l` are 0 at noon and midnight; so is `%r`;
  `%j` is one day early and its hundreds are not digits; `%u` and `%w` have two digits; `%c` and `%x` have
  another order than in the C locale; `%s` is always 0; `%Z` has a name of its own;
  `%X` has a blank in front of an early hour; directives it does not know are left out.
  A text that does not fit is told by a length of max where the standard has 0
  (`strftime.c:193-198`), so `TimeBounded` asks only that the length is not below max then.
  A lone `%` at the end of the format reads past the end.
- `memchr` finds nothing for a value outside of 0 to 255, which is to be converted to
  `unsigned char`; `memccpy` never finds a byte given as 128 to 255; `strncpy` does not pad;
  `strcmp` compares signed bytes and `strncmp` unsigned ones. `StringsAgree` says nothing of the
  first two cases, and asks of `strncpy` and `strcmp` what they do.
- `strtod` takes a lone sign or point for a number and a sign for an exponent, and
  nothing of `1e`; `DecimalDenotes` speaks of the other texts (`WellFormed`).
  `strtol` sets `errno` to 0 when the result is `LONG_MIN`; an invalid base leaves
  `*endptr` unset.

## Proofs

`Structures_proofs`, containers: `Invariance` proves the inductive invariant `Inv`, for any finite set of
threads, any values and any of the three containers. `NoLostWakeup` is not
inductive alone: when a thread is woken it may go back to sleep, and then no
element may be left for it, which needs that only threads inside `get` sleep or
are woken (`OnlyCallersWait`); `SleepersHavePledge` needs the counter to be the
number of holders (`PledgesAccounted`), and `NoneIsFinal` needs that nobody but
a holder feeds the container once popping began (`CallsInOrder`). The
theorems `NoWakeupIsLost`, `NobodySleepsInVain`, `PledgeCounterExact` and
`NoneMeansDone` follow. `NothingLostOrTwice` proves `ExactlyOnce`, with an
invariant of its own: an element in the container or in the hands of a pushing
thread was not returned yet (`NotYetTaken`). Assumptions: `ThreadsAssumption`,
`DisciplineAssumption`.

`Structures_proofs`, union-find: `UnionInvariance` proves `UnionInv` for any finite set of keys
(`KeysAssumption`, `NoDatumAssumption`); `EquivalenceDecided`, `DataKept` and
`NodesExact` follow. The representative of a key is one look-up away only
because aliases are exact, and the aliases are exact only because no canonical
element is itself demoted: the conjuncts of `UnionInv` need each other. `NoChains`
adds that a demoted key points to a canonical one.

`Library_proofs`, `qsort`: `SortInvariance` proves `SortInv` for arrays of any length and
any integer keys (`SortAssumption`). The elements stay a permutation of those
given; in each phase of the partition the invariant says where the elements equal
to, smaller and larger than the pivot are; the intervals on the stack lie behind
the one at hand, in order, and what lies outside all of them is in its final
place. `SortCorrect` (`Sorted`) and `SortStaysWithin` (`WithinInterval`, the
comparisons and exchanges of every step included) follow.

`Numbers_proofs` and `Library_proofs`, numbers: `NumbersAlwaysDenote` proves `NumbersDenote` for any texts, any
bases, valid or not, and any `LongBits` and `LongLongBits` from 8 on, the first not above the second
(`WidthAssumption`). Four things carry it.

- A loop of the code is a function on the numbers up to the length of what it runs
  over (`IsRun`); two that agree at 0 and step alike are the same (`SameRun`). A
  loop over a class of characters so ends where the class does (`SkipIs`).
- The accumulator is looked at in two halves, and the carry out of the upper one is
  the overflow (`Halves`, `CarryIs`). As long as none was seen the accumulator is
  the number of the digits read; once seen, the number stays too large (`AddDigitIs`,
  `AccumulateIs`). In `strtoull` the accumulator is signed, so its upper half may be negative;
  another digit then overflows in any base, and the negative sum, taken as unsigned, shows
  it too (`HighIs`).
- What the code parses is the longest numeral at the beginning of the text: it is
  one (`ParsedIs`, `NumeralIs`), and every other one has the same blanks, sign and base, or is the zero
  before the x of a prefix, and is no longer (`FormsAre`, `FoundIs`). `strtol` takes a minus
  off where a letter or digit follows and calls `strtoul` on the rest; this finds the same
  numeral without it (`ParsedTail`), and the range of the signed type is checked
  afterwards (`ClampIs`).
- `strtod` finds each part where `DecimalText` put it, since no part begins with
  what would continue the one before (`SkipIs`, `ScannedIs`, `SkipsAre`). Squaring the
  power keeps what is left to multiply equal to the exponent (`HalfIs`, `ScaledIs`).

The powers of two and ten are functions too, and all that is used of them is that
they are positive and grow by their base (`PowerIs`, `PowerNext`, `PowerPositive`).

`Library_proofs`, strings and inputs: `CallsInvariance` proves, for any memories of bytes, any addresses
and counts, any word of four bytes and any number of values of a byte
(`CallsAssumption`), that a call is a legal one (`CallLegal`) and returned what
the properties of the calls say, `InputsComplete` among them (`InputIs`);
`StringsAlwaysAgree` (`StringsAgree`) follows. A call takes one step, so all the work is in what the functions
compute (`BytesHandled`, `WordTurns`), of which three things are not plain.

- A copy goes byte by byte and reads what it wrote before when blocks overlap. What the memory is after so
  many bytes has a closed form (`Moved`, `MovedBack`, `CopiedTo`); it satisfies the
  equation of the recursive function because a byte is read before it is
  overwritten (`MovedNext`, `MovedBackNext`, `CopiedToNext`), and a least
  counterexample (`LeastNatural`) shows that only the closed form does
  (`CopyForwardIs`, `CopyBackwardIs`, `MemccpyIs`). So `memmove` is right in both directions.
- `strcmp`, `strncmp` and `memcmp` return the difference of two bytes; that it
  is the order of the texts, signed or not, needs that two texts first differ at one
  place only (`DifferOnce`), which may be the zero of one of them (`ForkOrders`).
- A word is its four bytes (`Digits`, `HasDigits`), which `htonl` turns round.

`Library_proofs`, `strftime`: `TimeStaysBounded` proves `TimeBounded` for any date from 1900
to 9999 (`IsTime`), any format that is a sequence of items and any size of
the buffer (`CallsAssumption`, part of `CallsInvariance`). While a format is read the
text is what was read means, or the buffer is full and holds its beginning up to
the last character, which is overwritten in the end (`Tracks`); each character keeps this
(`CharacterRead`, `PercentRead`, `ModifierRead`, `DirectiveRead`), so each item and the
format do (`ItemRead`, `FormatRead`). The format inside a format is read so too
(`InnerIs`), into what is left of the buffer: the NUL at its end is overwritten, or is
the last character of the whole buffer (`NestedIs`). The weeks are counted by the days they begin on
(`EverySeventh`, `WeeksAre`). All this is about what the code's own directives give (`ItemMeaning`);
that this is what the standard says, where an item does not depart from it, is a second
part: two digits by two digits (`DigitsAre`, `YearIs`), directive by directive
(`SimpleStandard`), format by format (`CompositeStandard`, `ItemStandardIs`). The sequences that formats expand to are compared with
their definition as functions of the number of items (`IsRun`, `IsJoin`, `SameRun`).

`Structures_proofs`, priority queue: `QueueInvariance` proves `QueueInv` for any
elements and priorities (`QueueAssumption`). The order of a heap does not hold while an element
is carried: then only the hole is out of order with what is above and below it,
and what the loop compares next decides on which side.
That the root is least of all (`RootIsLeast`) follows from the order of parents and
children by a least counterexample. `QueueServesLeast` proves `LeastFirst`.

`ThreadState_proofs`: `PathsInvariance` proves `ThreadInv` for any cells, any
instructions of the modelled patterns, any choice of what is symbolic, any number
of paths and of instructions (`InstrsAssumption`). `OwnEffects` is not inductive
alone: nobody else may have, or be about to use, the store of a path (`Apart`),
and in the middle of an instruction the handle must still be of that store, but
for a store that was checked against a symbolic size and has not got its handle
again (`UnderWay`). A step changes one store, which belongs to the path that takes it,
and adds clones, which belong to nobody yet (`OnePath`, `TwoPaths`, `StaysGood`);
there is one lemma for each action. Paths that strayed are covered too: what
they share they share with nobody else (`LiftKeeps`). `PathsSeeTheirOwn`
(`OwnEffects`) and `HandlesStayCurrent` (`HandlesCurrent`) follow.

`Runtime_proofs`: `Invariance` proves `RuntimeInv`, for any address space that is
a multiple of 16, any base of the heap from 16 on that leaves 16 bytes behind it, and any sizes, offsets,
numbers of behaviours and number of calls (`HeapAssumption`,
`ProgramAssumption`). No property of the heap is inductive alone. `HeapGood` says
that the chunks ever given, freed ones included, lie behind each other below the
pointer of malloc, and that nothing above it was ever written. From it: an access
that owi lets through stays in its chunk (`AccessInside`), no other chunk has
those bytes (`ChunksApart`), and a new chunk lies behind everything written
(`NewChunk`). `ContractGood` and `ContractsApart` say that a contract in use owns
two chunks that no other contract has, so only calls on it change its bits
(`ContractStays`); there is one lemma for each call of the program. All this
holds (`sound`) while no sum in malloc wrapped around, and `realloc` made no chunk larger than
the room it was given, none at 0 that reaches the heap, and was given no pointer into the
middle of one. A chunk at 0 that stays below the heap is one of the chunks given
(`NullGood`), apart from all those of malloc, which lie from the base of the heap on (`HeapRoom`). `ChunksNeverOverlap`, `FreedStaysFreed`, `MallocGivesZeroes`,
`ContractsAreExact` and `ScopesClose` follow; the counts of a contract come from
a bijection between its behaviours and the bits of its array.

`Exploration_proofs`: `DomainsInvariance` proves `DomainsInv` for any programs,
options, faults and number of workers (`ProgramAssumption`, `OptionsAssumption`).
As long as nobody raised, the pledges on the work queue number the workers
between popping a task and ending its pledge (`WorkAccounted`): so the worker
that finds none left was the last, and the others leave with it. The main
domain knows whom it spawned and joined (`DomainsAccounted`), and a domain that
raised cannot be joined without its exception. `WorkersQuitRightly`
(`WorkersQuitTogether`) and `NoExceptionIsLost` (`ExceptionsSurface`) follow.
`FailuresInvariance` proves `FailuresInv` on top of it. `ExactlyOnce` counts the
places where a failure is; the invariant says the same without counting
(`Located`: it is seen somewhere, nowhere else, and there below one element
only), which each step keeps because it moves what is below one task or result
from one place to one other. A task that is run is replaced by its statuses,
and its failures stay apart because the branches of a task have no end in common
(`PathsAssumption`: a path has one end). What a worker has in hand must follow
from where it is (`HandsAccounted`), also when it raised. The pledges on the
result stack number the living workers, and the one about to be spawned
(`DeliveryAccounted`): so the main domain stops reading when nobody is left to
push, and if then every worker is joined without an exception, all failures are among
those read. `NoFailureIsLost` (`ExactlyOnce`) and `VerdictsAreSound`
(`VerdictSound`) follow, and `ExplorationImplementsPromise`: every step is one of
`PathExploration` or none there (`Abstract!Safety`, the safety half of
`PromiseKept`). `OrderDoesNotMatter` proves `OrderOfArrivalIrrelevant` under
`DistinctCrumbs`, that no two results have breadcrumbs of one rank; the run
`explore_ties` shows what happens without. It needs that sorting a sequence of
different results depends on their set alone (`SortIsCanonical`): the position
of each is the number of those of lower rank.

`SymbolicChoice_proofs`: `ChoicesInvariance` proves `ChoicesInv`, for any tests,
expressions, inputs and values and any number of choices and fresh symbols
(`ChoicesAssumption`: a condition has a symbol and depends on its symbols alone,
and the symbols of `select_i32` are new). It has three layers. The path condition
is in order (`PCGood`): the datum of each class is the conditions whose symbols
are in it, and a class joins only symbols that conditions connect; each turn of
`add` keeps this (`FirstSymbol`, `NextSymbol`). So a slice shares no symbol with
the rest (`SliceIs`), and is all that chains of shared symbols reach
(`SliceIsLinked`); a model of it and one of the rest make one of both (`Glue`).
A path that is to be checked could be taken before its last condition
(`ThreadGood`), which is what makes the slice enough (`SliceSat`). And each choice
divides the inputs of a path in two, because the inputs decide what it tests,
also when that is a symbol of `select_i32`, which names an expression over them
(`SplitInputs`, `NamingKeepsInputs`). `PathsHaveModels` (`PathsFeasible`),
`SlicesDecide` (`SliceDecides`), `SlicesAreExact` (`SliceExact`) and
`InputsArePartitioned` (`PathsPartitionInputs`) follow.

`ConcolicTree_proofs`: `ConcolicInvariance` proves `ConcolicInv`, for any inputs
and any programs over them that end on every input (`InputsAssumption`,
`ProgramsAssumption`). The nodes of the tree are paths with all that is above
them, a node that is not a leaf is what the program does there, and a select has
both its branches (`Shape`), so a run on a model of an open node meets no closed
one (`RunIsSane`). Neither counts nor coverage are inductive alone.

- `CountsExact` says nothing while calls of `find_model_to_run` are open. The
  invariant says where a count may be wrong then: on the way to a node that was
  trimmed or chosen and whose call has yet to return (`Stale`). That
  `update_unexplored` repairs a whole path by adding up what branches off it
  (`Updated`) needs that the nodes below a node are those below the branches beside
  the path, each below one of them (`LeavesAt`, `LeavesOnce`, `Counts`).
- For `FrontierCoversInputs` every node of the tree but one accounts for the inputs
  below it (`Settled`): an explored one was run, an unreachable one has no
  models but inputs the solver gave up on (`unknown`), one being explored only those and
  inputs that fail the assumption there, an assertion was not negated yet or holds of
  all others that reach it. The exception is the node that the next run
  is about, whose models are those it may draw (`Open`); the run ends there or
  passes it (`Lands`, `Added`). An input that ends outside the tree leaves it
  at a number nobody chose; one that ends inside meets its deepest node (`Deepest`).
- `NoPathTwice` needs that the paths that count are those of explored nodes
  (`RunsAccounted`).
- `AllOkSound`: if every branch can be taken then no node is without a model
  (`ExhaustibleRun`, `ExhaustibleBranch`), so nothing is trimmed if the solver
  decided all it was asked (`unknown` is empty), the counts are exact when a search
  gives up, and a select where it does has nothing unexplored below it
  (`NoTargetLeft`).

`CountsAreExact`, `NoPathIsCountedTwice`, `NoInputIsForgotten`, `AllOkIsRight` and
`ConcolicIsTyped` follow. What is proved of inputs below abort and below a number
nobody chose is what `FrontierCoversInputs` says: nothing.

Every invariant of the passing runs has a theorem. Only model-checked is liveness
(`WorkersEnd`, `Terminates`, the fairness part of `PromiseKept`), which is out of
the prover's reach. Induction over data is too, as a rule; what a function that
recurs over a bounded index computes is proved here all the same, by a closed form or
an invariant of its values and a least counterexample.

## Not modelled

- The segments that instances share, and `data.drop` on them by several paths;
  modules that are initialised in part; the table of coverage labels.
  `PROJECT.json` lists these as hazards without a property.
- Symbolic addresses and bytes that are expressions in a memory; the values
  concolic runs compute, with backup and recover of the module between runs.
- The stack machine of the interpreter, validation, number primitives: sequential,
  bit-precise and covered by the WebAssembly test suite in the repository.
- Parsing, printing, encodings, text to binary, annotations, scripts, the other
  commands: pure, or plain input and output.
- The rounding of `double`, the wording of messages, and the headers of the C
  library, which only declare.
- The solver and the expressions below it: external.

## Plan

The modules were written in the order containers, exploration, path condition,
choices, state of paths, concolic tree, heap and contracts, C library, priority
queue. What would
come next, in this order:

1. `LinkState`: environments, data and element segments, `drop`, modules
   initialised in part, and backup and recover as concolic execution uses them;
   then the segments in `ThreadState`.
2. `CoverageLabels`: the check and the update of the labels by several workers.
3. `Interpreter`: frames, blocks and calls, against a reference semantics; `Validation`.

Theorems to come: those of the new modules.
