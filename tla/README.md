# Atlus in TLA+

Models of the Atlus disassembler and decompiler front end (C++17, Qt): what its
threads, its caches, its parallel scans, its files and the computations over a
loaded binary do, model-checked with TLC on small instances, and their safety
properties proved with TLAPS for every instance. Paths below are relative to the root of the source
(`src/core/...`, `include/core/...`); `PROJECT.json` gives for every definition the
lines it stands for, with a leading `src/`.

## 1. The system

### Parts, state and interaction

| part | source | state | operations | who calls it |
|---|---|---|---|---|
| thread pool | `include/core/thread_pool.h`, `src/core/thread_pool.cpp` | task queue, `stop_`, workers, futures | `enqueue`, `parallel_for`, destructor | function finder, diff engine, `parallel::map/filter` |
| function finder, diff engine, pattern scanner | `analyzer.cpp`, `diff_engine.cpp`, `pattern_scanner.cpp` | per-worker buckets, candidates, progress | `find_functions[_parallel]`, `byte_diff[_parallel]`, `full_diff`, `make_chunks`, `scan` | pipeline stages, file analysis, compare panel |
| rev.ng decompiler | `revng_decompiler.cpp` | `m_state`, `m_binary`, generation, cache, pending queue, futures | `lift_async`, `clear_cache`, `decompile`, `decompile_async`, `emit_cfg_async`, `render_call_graph_async` | the window's workers |
| main window and workers | `src/ui/qt/mainwindow.cpp`, `decompiler_worker.cpp` | open file, options, pseudocode panel; path, binary and decompiler of each worker | menu slots, `onFunctionSelected`, `onAnalysisComplete`, `decompile`, `setPath`, `generateCFG`, `generateCallGraph` | the user, Qt's event loops |
| analysis pipeline | `analysis_pipeline.cpp` | runners, artifact cache | `register_stage`, `build_plan`, `run_all`, `run_stages`, `run_stage`, `invalidate*`, `clear*` | `AnalysisContext` |
| IR | `ir.cpp`, `include/core/ir.h` | entities in tables, maps by address and name | `create_*`, lookups, address conversions | everything below |
| index, queries | `index.cpp`, `query.cpp` | maps over a binary, what is built | `build`, `build_index`, `clear*`, searches, filters | context |
| invalidation engine | `invalidation.cpp` | three dirty sets | `invalidate*`, `cascade`, `mark_clean*` | context |
| control flow | `cfg_builder.cpp` | edges in the blocks | `build`, `compute_dominators`, `detect_loops` | pipeline |
| address spaces | `address_space.cpp` | image base, run-time base, sections | `initialize`, `translate`, `rebase` | IR, panels |
| cross references, governance | `xref_analysis.cpp`, `ir_governance.cpp` | references in functions, symbols of strings | `analyze_*`, `register_string_symbols`, `validate` | pipeline |
| type system | `type_system.cpp` | variables and types by identifier | `set_type`, `add_constraint`, `solve`, `add_type`, `alias` | built-in decompiler |
| session files | `ir_serialization.cpp` | a file | `save_session`, `load_session`, `verify_session_file` | UI |
| disassembly cache | `disassembly_cache.cpp` | a directory | `put_block`, `get_block`, `invalidate_file`, `purge_older_than`, `clear` | cached disassembler, any number of processes |
| annotations | `bookmarks.cpp` | annotations by identifier, a file | add, set, remove, `save`, `load`, CSV, session | UI |
| patch engine | `patch_engine.cpp` | patches, hooks, history | `patch_bytes`, `nop_out`, `install_jump_hook`, `undo`, `find_code_caves` | UI |
| parsers, string, struct and switch analyzers, disassembler, built-in decompiler, hashes, IDA export, errors, panels, platform code | see `PROJECT.json` | none shared, or views | | |

Control runs downwards: the user drives `MainWindow`, whose slots run on the GUI
thread; an analysis runs on a QtConcurrent thread and comes back as a queued
event; requests for pseudocode and for graphs go through queued connections to
two `RevngWorker`s with a thread each; each worker owns a `RevngDecompiler`, which
starts one `std::async` thread per lift and per request and an external rev.ng
process from each. Independently of this the file analysis and the pipeline use a
`ThreadPool`. The rest is called on one thread over one `ir::Binary`; it meets the
outside in files, which other processes or an earlier run may have written.

### What is hard in it

* `ThreadPool` notifies after it unlocks, is destroyed with work in the queue, and
  can be entered from its own tasks.
* `RevngDecompiler` has an atomic state that several threads write after testing
  it, a generation number that only some of the writes look at, three mutexes, one
  of which is held while futures are destroyed, and therefore waited for.
* `MainWindow` calls `setPath` directly on an object that lives on another thread,
  while that thread may be in the middle of `decompile`; answers do not say what
  they answer; a second analysis can start while one is running.
* The pipeline hands out pointers into a cache that nested calls write to.
* The parallel scans choose a worker's bucket by a hash of its thread id modulo the
  number of threads, and their result must not depend on the schedule.
* Index, dirty sets, edges, translations, references and types are derived from a
  binary that goes on changing, and nothing tells them: what they answer depends on
  the order of the calls.
* Files are emptied and written in place without a lock, and read back without
  looking whether a read was short: session, annotations, cache entries.

`PROJECT.json` lists these hazards each at its line with the properties that cover it.

### What makes each part correct

* pool: an accepted task is run once; no sleeper misses work; `parallel_for` covers
  its range and returns; the destructor ends with nothing left.
* decompiler: a request is never in two places, and one that is launched is answered once; no thread is detached;
  texts in the cache belong to the binary; Ready means lifted; nothing blocks.
* window: the panel settles on the answer to the last request; "Decompiling..."
  goes away; the rev.ng that runs is the one chosen.
* pipeline: answers are current; a cached stage runs once; inputs are alive while
  used; invalidation reaches all dependents; runs end.
* scans: the parallel result is the sequential one; chunks rebuild the new file from the
  old; a signature is found where it was taken; a finished bar is full.
* index and queries: what is built answers as the binary would; a filter has all the
  entities that pass it and no other.
* dirty sets: everything that a trigger's rule reaches is dirty afterwards.
* control flow: a block's dominators are on every path to it; a loop is the natural
  loop of its back edges.
* addresses: a translation and its inverse agree, within what is in the file.
* references: the calls of a function that was analysed are those of its code, and it has no caller that does not
  call it; that it has all of them (`ir.h:281`) is what the code does not do; a string has one symbol.
* types: what was told with the most certainty is what comes out; final stays final.
* sessions: what is loaded of what was saved keeps its identifiers, and the sections and functions of a whole
  session all come back; what a misread file adds comes behind them.
* cache: a hit is the block, cut at one place at worst; what was removed stays removed.
* annotations: identifiers are new; what is saved whole comes back.
* patches: the original bytes recorded are those at the patch's address.

## 2. The modules

| module | what it is |
|---|---|
| `TaskPool` | abstract: what a pool promises to the code that submits work |
| `ThreadPool` | the pool and `parallel_for`; implements `TaskPool` |
| `ThreadPool_proofs` | theorems about it |
| `RevngDecompiler` | one decompiler, its client thread, lifts and requests |
| `RevngDecompiler_proofs` | theorems about it |
| `MainWindow` | the window, the analyses of files and both workers |
| `MainWindow_proofs` | theorems about it |
| `AnalysisPipeline` | stages, cache, the recursion of `run_stage` |
| `AnalysisPipeline_proofs` | theorems about it |
| `Differences` | pure: the differences of two files, their chunks, pairs and signatures |
| `ParallelScan` | the two scans and their progress, over `Differences`, with their sequential twins as definitions |
| `ParallelScan_proofs` | theorems about it |
| `Binary` | pure: the tables and maps of `ir::Binary` and its creation of entities |
| `GlobalIndex`, `Invalidation`, `Query`, `Governance` | pure: operators of these parts over `Binary` |
| `AnalysisDatabase` | a client of a binary with an index or with an engine |
| `ControlFlow`, `AddressSpaces`, `CrossReferences`, `TypeSystem` | edges, dominators and loops; translations; references and strings; variables and types |
| `LoadedBinary` | composes these five |
| `LoadedBinary_proofs` | theorems about edges, dominators and loops, types, dirty sets, the index, addresses and references |
| `IRSerialization` | saving and loading a session, with crashes and a full disk |
| `DisassemblyCache` | the cache directory and the processes that share it |
| `DisassemblyCache_proofs` | theorems about it |
| `Annotations`, `PatchEngine` | annotations and their files; patches, hooks and undo |
| `Storage` | composes these two and `IRSerialization` |
| `Storage_proofs` | theorems about the three |
| `MC...` | the instance of each for TLC |

A definition commented *Faulty variant* belongs to no specification: it is the
mistake some property must catch when it takes the place of the definition after it.
`TypeOK` documents the types of a module's variables; where there are proofs it is
proved.

**ThreadPool.** `queue`, `stop` and `future` are `tasks_`, `stop_` and the promises;
`wpc` is where each worker is in its loop, `cpc` and `pos` where each
`parallel_for` is. One step is one critical section of `queue_mutex_` (`Enqueue`,
`Take`, `Wait`, `Exit`, `Stop`) or one action outside it (`NotifyOne`, `NotifyAll`,
`Finish`, `JoinAll`). `Wake` needs no notification, as the standard allows. A task
ends with a value or an exception. A call made by a task (`Host`) holds its worker
while it waits. The destructor may start once no outside thread is using the pool.

**TaskPool** knows a status for each task, whether the pool is open and whether it is
gone. `ThreadPool!Promise` is the refinement mapping: pending is accepted, value or
exception is executed, a broken promise is a status that `TaskPool` does not have.

**RevngDecompiler.** A binary is named by the number of the lift it is given to and a
text by the binary it was made from, so that `cache[a]` says whose text is stored.
`cpc` follows the client through the public operations, cut at each access to
shared state: `decompile_async` tests Lifting, pushes or tests Ready, launches;
`lift_async` clears, sets the binary, launches, waits for the future it replaces.
`lpc[g]` and `tpc[r]` follow the threads. `ExitChecked` chooses the build: the
Windows build's `run_process` throws on a failing command, the POSIX one does not look.
`quiet` is history: no lift or clear has begun while something was in flight.

**MainWindow.** A GUI slot is one step, since the event loop runs it to its end and its
dialogs are modal. A worker's slot is cut at each use of `m_decompiler`, because
`setPath` can come between any two. `dec` is what `m_decompiler` points to: path,
lifted file, state; what happens inside is `RevngDecompiler`. The destructor of a
decompiler waits for its lift, so the callback comes even when it was destroyed.
Calling through a null `m_decompiler` ends the program (`crashed`). `asked` is history.

**AnalysisPipeline.** `stack` holds the frames of the recursive `run_stage`: the stage, the
dependencies still to ask for, the inputs taken. An artifact is the version of the
binary it was made from and whether all it was made from is whole and of that
version. `operator[]` on an absent entry inserts the empty artifact, as `std::map`
does. `Invalidate` erases transitive dependents, `InvalidateFrom` all later numbers.

**Differences** and **ParallelScan.** `section[i]` is all that a scan can tell about offset `i`. Each
`push_back` is two steps; one that finds the vector changed under it is a data race,
whose outcome (an element lost, or the heap corrupted) is left open and recorded in
`raced`. Of `parallel_for` only what `ThreadPool` shows is assumed. The scans report to one
`AnalysisProgress`; a cancellation may come at any time and is looked at by nobody.
The text of a pattern is the sequence of its tokens.

**Binary.** The identifier of an entity is its place in its table, counted from 1 (from 0 in
the code), and `Invalid` is 0. The maps are functions; creating an entity appends to
the table and overwrites in the map, as `operator[]` does. An `Address` is its offset
except in `AddressSpaces`.

**AnalysisDatabase.** `build` visits every index type, and two pairs of types share a body; nothing
empties a map but `clear`. A behaviour has the index or the engine: the two read the
binary and never each other. `current` and `foreign` are history: which types were built
since the last creation, and whether entries of an earlier binary are left. The
properties compare each search with the tables themselves.

**ControlFlow.** A block is its addresses and the way it ends. `Build` replaces the edges of the blocks of
one function; a block of two functions has the edges of the last one built. The sets
of dominators are those after as many rounds of the code's loop as there are blocks, a
recursive function; `DominatorsAreFixed` shows that another round changes nothing. The
property compares them with paths in the graph.

**AddressSpaces.** An optional is a set with one element or none. Subtraction wraps at `Width`, 2^64 in the code.
`translating` is the binary whose sections were copied, `image` the one loaded.

**CrossReferences.** `analyzed` and `refs` are history: the properties say which references a function has
from the order in which the functions were analysed: at least the callers analysed since it was itself
(`CallsFollowCode`), and not those before, which `xref_analysis.cpp:11` empties (run `callers`). There are two classes of one
name, `analysis::XRefAnalyzer` and `XRefAnalyzer`; both are there and are compared.

**TypeSystem.** `told` is history: every type a variable was given and how certainly.

**IRSerialization.** A file is a sequence of items, one for each write with a check; an item cut short reads
like one that is missing. A save appends them one at a time, a crash or a full disk
ends it anywhere. The identifiers behind a block are an item of their own that the
loader never reads (`ir_serialization.cpp:518-537`), so that all that follows is read from the wrong place. What it
is taken for is `Misread`, any lists of entities: they are created behind those that were read, like any other, and
the load reports success, whose binary the program then has and may save, or ends with an error.

**DisassemblyCache.** An entry is a sequence of cells: the header, one for each byte of the block, two for the count of
instructions (its low and its high bytes; `Low` says what the low ones are worth) and two for each instruction. A file
can end between any two; the border within an instruction stands for any byte of it, in its address, its
length, its mnemonic or its operands, and so an instruction cut there comes back as neither the instruction nor zeros
(`<<Piece(2n - 1), Zero>>`). `put_block` opens (and empties), writes cell by cell, returns;
`get_block` reads header, bytes and instructions in three reads; a walk removes
entry by entry. No step takes a lock, a process may crash between any two. `remove`
throws on an open file, as on Windows. `writers`, `whole` and `gone` are history.

**Annotations.** A file is the sequence of its lines, a text its first line and the lines behind it as the
loader reads them. The order of a save is any, as that of the hash map. A crash cuts
the file at any line or within one.

**PatchEngine.** The file's bytes never change: `apply_to_file` reports success and does nothing. `history` and
`undone` are the two stacks of the engine.

## 3. Runs

| run | question | instance |
|---|---|---|
| `pool` | are tasks and wake-ups conserved, ranges covered, calls ended and `TaskPool` implemented, liveness included? | 2 workers; calls of 2 chunks, 1 chunk, and 2 chunks nested in a task of the first; the destructor whenever it may |
| `revng` | are requests in one place and answered, threads held, superseded lifts ended, the cache fresh and Ready true when nothing overlapped; does each operation return? | 2 lifts, an asynchronous, a synchronous and a graph request at one address, clears at will |
| `revng_graph` | *violated*: is an accepted graph request emitted? | the same |
| `window` | does the panel settle on the last request, does the placeholder end, is the right rev.ng used on the right file? | 2 files that both have the function, 2 rev.ng paths; up to 4 commands, of which at most 2 analyses, 2 selections, 1 change of options |
| `pipeline` | are answers current, stages run once, inputs alive, invalidations complete, runs finite? | 6 stages in a diamond; one not cached, one always stale, one that goes on after errors; 1 change of the binary |
| `scan` | is the parallel result the sequential one, do chunks and signatures describe the differences, does the progress end full? | every section of 4 bytes, 2 workers in the same or different buckets, chunks of 2 bytes, a lookahead of 1, a report every 2, cancellation at any time |
| `database` | do index, queries, dirty sets, dominators, loops, translations, references and types agree with the binary they are derived from, in whatever order it changes and they are asked? | see below |
| `cfg_idom` | *violated*: is the immediate dominator the nearest? | the same |
| `translate_file` | *violated*: does `translate` return? | the same |
| `callers` | *violated*: does a function know all analysed functions that call it? | the same |
| `cache` | what does a hit show while others write, sweep and crash, at any byte? is removed removed? | 2 processes, 2 keys of different files, blocks of 1 and 2 instructions (the count 1 is all in its low bytes, the count 2 all in its high ones), 2 calls of `put_block`, symmetry in the processes and in the keys |
| `files` | are identifiers new, does what was saved come back, are original bytes those of the address? what comes back of a session saved whole, cut by a crash or by a full disk, or misread? | annotations: 1 place, 2 texts, 2 edits, 1 crash; patches: 2 files, 4 patches, 2 calls; sessions: 4 binaries without blocks, with an empty one, with one that has contents, and with one behind that; 4 lists of misread entities; file sizes with a low byte of 0 and of 2 |

The violated runs are places where the code does something else than a comment of
it says; each is a finding in `PROJECT.json` with the line quoted.

**Other places where code and comments differ**, in the models as the code has them:

* `revng_decompiler.cpp:557` queues a request only during Lifting, `revng_decompiler.h:81` says while a lift is under way:
  during ImportingBinary and DetectingABI it is refused.
* The POSIX build drops the exit status of a command (`revng_decompiler.cpp:351`), so that Ready
  may not mean lifted (`ExitChecked`).
* A changed path reaches one of the two workers (`mainwindow.cpp:587`, against `:69`), and the one for graphs
  never lifts (`decompiler_worker.cpp:145`), so that graphs are refused.
* The pipeline registers no runner for `LoadBinary` (`analysis_pipeline.cpp:409`, against `analysis_pipeline.h:219`): a run of
  everything fails unless the client registers one.
* The "thread-local" vectors of the parallel diff (`diff_engine.cpp:164`) are chosen by a hash (`:176`) and may be shared.
* `pattern_scanner.h:29` speaks of wildcards; none is ever produced.
* `ir_serialization.cpp:523` says "Read instruction IDs" (and `:527`, `:531` alike) where no identifier is read: the
  loops go over the zeros that `deserialize_basic_block` has made, and the identifiers in the file stay unread.
* `ir_serialization.h:98` says of the verification "Checks magic, version, and checksum."; no checksum is computed.
* `disassembly_cache.cpp:140` says "simple XOR checksum"; `put_block` writes 0 and `get_block` looks at none.

**The instance of `database`.**
Index and engine: a binary of three instructions in two blocks of one function and one
with a lone symbol; two symbols at one address, the name of one starting that of the
other; up to two functions that share a block or an address; ranges [0,1) and [1,3); 2
results of a search, 2 builds of one type. Control flow: four blocks in a row with
all ways to end for two of them and three or four for the others, two functions, of
which one has the last two blocks of the other. Addresses: an image with a section whose
end is not in the file, one whose two sections overlap in memory, and one at base 0; bases 0, 16 and 20; a width of 32.
References: three functions that call each other, themselves and an address within
one; 4 analyses; strings that overlap, at least 2 long; sections of code, of data
and one that the file ends in. Types: 2 variables, told 4 things; 3 named types.

**Bounds, and why they suffice.**
With two workers one can be held by the nested call while the other serves
everything, and both can sleep, race for one task or meet the destructor. Two chunks
of unequal length exercise the cut of the range.
Two lifts are the least in which one supersedes another; at one address the texts of
the two meet in the cache; three kinds of request meet every test of the state.
Two files with the same function are what makes an answer ambiguous; a second
analysis, a second selection and one change of options make every overlap of two.
The six stages have the real shape in small: a source that the client registers, a
stage that is not cached, diamonds by way of it and by way of a stale one. One change
of the binary makes a stale version.
Four bytes hold functions that touch, overlap within and across chunks and in chains,
and a prologue too near the end. The source stops 4 bytes before the end; the model
1, as a parameter. `MinScanChunk` is 4096 or 65536 in the source, 1 here, so that the
section has two chunks.
Two entities of a kind are the least that can share an address, a name or a block, be
told apart by a filter and be cut off a list. Four blocks are the least with a block
that has a dominator between it and the entry on two different paths, with a loop
beside it. A width of 32 lets an address below the base wrap, as 2^64 does.
Two processes make one read, write or remove what the other has open; two calls of
`put_block` of different sizes make one entry replace another. One crash cuts a file
anywhere; what a second would do to the new file is the same again. Of what is misread, one list has none, one a block, one a
section and a function at addresses that are taken, and one the other kinds: that covers all
kinds, and an entity nobody saved that hides a saved one in the map. The numbers 5 and
16 of the patch engine (a jump, the shortest cave) are 3 and 2, so that both fit a
section of 4 bytes.

Distinct states: `pool` 27,322, `revng` 170,151, `window` 343,308, `pipeline` 48,543, `scan` 1,212,704, `database` 73,695,
`cache` 1,316,073, `files` 349,510.

Deadlock is checked in `pipeline`, `database`, `cache` and `files`; the others may really stop: a
client need not call again, a pool and a scan end.

**Faults.** A crash in the middle of saving a session or annotations and of writing a cache entry; a full
disk, noticed or not; a read of a file that is being written, so that it is short; a
task or a rev.ng command that fails; a destructor in the middle of the work. What
nothing retries or times out is not retried here either.

**Restrictions that a property states.**
`EveryCallEnds` holds because the instance leaves a worker free: with as many nested
calls as workers, each worker waits in `f.wait()` for chunks that nobody takes. This is
the pool as written, and the line between the two is `Cardinality(Workers)`.
`QuietCacheFresh` and `QuietReadyMeansLifted` speak of executions in which no lift or
clear began with work in flight; without that both fail: `clear_cache` empties the
cache before it waits, and a superseded lift writes its stages over the state of its
successor. `RequestInOnePlace` says a request is in at most one place, so that it is not run twice and does not
wait while it runs; not that it is in one. A request pushed just after the flush waits for a lift that may never come:
a hazard listed, which no property denies. `TrackedRunsOnce` and `AnswersAreCurrent` speak of stages that override
`is_stale`; the default is always stale, and the builtin stages keep it.
`ParallelEqualsSequential` excludes executions in which two workers met in a bucket.
`QueriesAgree` speaks of types built since the last creation, in an index without entries of an
earlier binary; building a type again lists a symbol twice, and a cut list may then lose some. Its patterns are not
empty: every name has the empty pattern, and the index does not list a symbol without a name.
`InvalidationReaches` does not say that a function marked clean has clean blocks, since it has not.
`DominatorsAreOnEveryPath` and `LoopsAreNatural` speak of functions whose shared blocks have their edges, and of
blocks that can be reached; and not all loops are found, since the way up the
dominator tree goes by the wrong immediate dominators (run `cfg_idom`).
`AddressesAgree` speaks of a translation that was initialised with an image, and of translations that give an address;
one that throws is run `translate_file`. What holds only while addresses fit the width, or of sections that lie apart
in the file and in memory, says so: nothing in the code makes sure of it.
`ReferencesFollowCode` does not say that a function knows callers analysed before it, since it does not.
`SavedKeepTheirPlace` says of a session misread behind the first block with contents what survives: the saved
sections and functions, and the blocks up to that one, under their identifiers. The entities made of the rest come behind them, are
nowhere in what was saved, may take the place of saved ones in the map, and the load may report success: no
text says that it does not. `WholeSessionComesBack` says for every binary that the sections and functions and their kinds
come back. Its other parts are about less: maps, and references that dangle only if they did before, for binaries
without a block that has contents; the counts, for those and only where the low byte of the file's size is 0.
With a low byte of 1 to 7 the footer is taken for a table and a count is the size of the file.
`HitIsCutAtWorst` does not say that a hit is right: it may show an instruction cut inside, with a part of its address or
mnemonic, and zeros for those behind it. It and `WholeEntryServes` speak of reads that no other process overlapped by opening the entry for
writing. `SavedComesBack` speaks of texts of one line.
`OriginalsAreAtTheirAddress` goes as far as the section that the patch begins in.

**Fairness.** `ThreadPool`: a worker, a caller and the destructor that can go on do; nothing
makes a spurious wake-up or a destruction happen. `RevngDecompiler`: a thread that can go on
does (rev.ng ends), and the lift thread that wants `m_futures_mutex` gets it if the mutex
is released again and again (the only strong fairness); the client need not call.
`MainWindow`: the event loops handle what is queued, an analysis ends; the user need do
nothing, and nothing is owed after a crash. `AnalysisPipeline`: a run in progress goes on.
These are what the operating system's scheduler and Qt's loops give; no timeout exists
in the code, and none is modelled. The other modules state no fairness: their calls
return by themselves, and nothing waits in them.

## 4. Proofs

The theorems are of `SafeSpec` (`ThreadPool`, `RevngDecompiler`, `ParallelScan`) or `Spec` (the others) and assume
only the named assumptions on the constants:

* pool, scans: there is a worker; ranges and sizes are natural numbers, minimal chunks, the lookahead
  and the size of a section positive; the marks for "no task" and the like are none.
* pipeline: there are finitely many stages, and dependencies have smaller numbers than what
  depends on them, as `Stage` is ordered in the source.
* window, decompiler: the bounds are numbers; the saved path is a path; every request has a kind and
  an address.
* cache: the sizes of blocks are positive, and the low bytes of a number are worth no more than it.
* annotations, patches: places, the image base, the numbers of a section and the length of a jump are
  natural numbers; the bytes of a file and of a patch are sequences.
* sessions (`BinariesAssumption`): a binary is one that `create_section`, `create_function` and their like make, so that
  its map has, of the entities at an address, the one made last; its lists hold identifiers. What is misread
  (`MisreadAssumption`) are lists of entities, each in the form in which its kind is read.
* control flow (`CodesAssumption`): a function has at least one block, all of the binary,
  and its entry is one of its own or none. `build` and `compute` return at once for one that has none.
* dirty sets (`DatabaseAssumption`): addresses are integers, and a function that has
  blocks ends behind its start (`end_address` is the "address after last instruction", `ir.h:242`; an imported
  function has neither); a binary that is loaded finds the last of its functions, and of its symbols, that was made
  with an address, as `create_function` and `create_symbol` leave it; its calls are references; a limit is a number.
* addresses: the numbers of an image are within the width, and the virtual address of a section is the base
  plus the relative one (`ir.h:312`); bases are within the width.
* references (`ProgramsAssumption`): a binary as the disassembler leaves it, without references and strings (nothing
  else makes them); its maps hold identifiers of its entities, its lists any numbers. A string has at least one
  character: the code's scan finds the same for 0 as for 1.

`TypeOK` and the parts of each inductive invariant are in the component modules, so that
TLC can be asked for them too; those that are no run's property hold on the runs' instances.

**Recursion.** The library's induction theorems take an operator, which the installed
provers cannot instantiate. Three things stand in for them. Induction is done
for a *set* of numbers, from its least number outside, which the library's theorem on
well-founded relations gives (`LeastNumber`, `Induction`). A recursive function is a `CHOOSE`
of one that satisfies its equation, so that before anything can be said of it one must
be shown to exist (`RoundsExist` and its like, by the same induction). Then what it computes
follows round by round. Folds and `SelectSeq` cannot be opened this way, and are avoided
where there is a proof.

`ThreadPool_proofs`: `TypeCorrect`, `Conservation`, `Wakeups`, `Coverage`, `Refinement`, for any number
of workers, calls, ranges and any nesting. The invariant `IInv` is the conjunction of
`TypeOK`, `LoopInv` and `ChunkInv` (the loop variable of a call determines its chunks, which follow
each other without gap), `TaskConservation`, `ReturnInv`, `WorkerInv`, `ExitInv` (a worker exits only
from a stopped pool with an empty queue, to which nothing can be added) and `NoLostWakeup`.
Conservation alone is not inductive: a chunk could be enqueued twice if the loop
variable were not tied to the chunks. `ReturnCoversRange` follows from `LoopInv`, `ChunkInv` and `ReturnInv`;
the half of `NoLostWakeup` about a stopped pool needs `ExitInv`. The wake-up argument counts: every step that makes the queue
longer adds a notifier, and every step that puts a worker to sleep finds the queue
empty. `Refinement` maps each step to a step of `TaskPool` or a stutter; `JoinAll` is `Vanish`, and `ExitInv` with
conservation gives that nothing accepted is left.

`RevngDecompiler_proofs`: `TypeCorrect`, `ThreadsHeld`, `LiftsDoNotPileUp`, `CacheFresh`, `NoRequestTwice`, `ReadyIsLifted`, for any
number of requests, addresses and lifts. `NoRequestTwice` is about at most one place. `IInv` adds to the properties `ClientInv` (in the middle of an operation the client
has its request, or a lift left to start) and `FreshInv` (while quiet, a text about to be
inserted is of `m_binary`, and `m_binary` changes only with nothing running and the cache empty);
without `FreshInv` an insert could bring in an old text. That a request is not in two places needs `QueuesInv`: what waits in
the queue or in a batch is a request to decompile, has no thread and no answer, and
waits once; only the client adds to the queue, and only a request it has not made before.
`ReadyIsLifted` holds for builds that look at the exit status of a command (`ExitChecked`), and says so.
`LiftedInv`: until the first lift or clear that overlaps other work only the latest lift
runs, and `m_state` is past a stage of it only when the command of that stage succeeded.

`MainWindow_proofs`: `TypeCorrect`, `LastAskedIsShown`, `LiftsWithPathInForce`, `LiftedWhatIsAsked`, for any files, functions,
paths and bounds. `QueueInv` is the order of the two queues: the decompilation last asked
for is the last request; if none is queued, the one in the slot; if the slot is idle, the
last answer; if there is none, the one on the panel. Each step of worker and
window moves the last one on and drops only earlier ones. `WorkerInv`: how far the slot
has come tells the state of its decompiler, unless `setPath` has taken it away, and
the file goes with it.

`AnalysisPipeline_proofs`: `TypeCorrect`, `AnsweredCurrent`, `RunOnce`, `CachedInputsStay`, `InvalidatedWhole`, `PlanGoesUp`, for any
stages and dependencies. `StackInv`: a frame was pushed for what the one below
asks for, so that numbers go down along the stack and no stage is on it twice; `InputInv` relates what a frame has been given to the cache:
an entry of a cached stage that tracks the binary is current, and only an uncached stage's can be gone. `RunsInv`: a stage
that has run stays current until `run_stages` returns, for which the version must not change meanwhile. `AnswersAreCurrent` goes
through all a stage is made from: `GroundedIsWhole` is stated for every set of solid stages
that holds its own dependencies, and used for the least such set, the closure. That the rounds
of `get_all_dependencies` and `get_all_dependents` compute the least closed set, and that
`build_plan` lists it with dependencies first, are lemmas of their own.

`ParallelScan_proofs`: `TypeCorrect`, `ScansAgree`, `ProgressIsFull`, `DiffIsDescribed`, for any size, bytes, workers, chunks and lookahead.
`ChunksInv`: chunks that are being worked on do not overlap, nor reach what is not handed
out; `FoundInv`: the buckets hold hits that were handled, each in one place, and all of them unless
two workers met; `MeasuredInv` the same for the second scan; `CountInv` (by cardinalities) and `ProgressInv` for the
progress. So a scan that is done has found the set of all hits. It remains
that sorting and resolving that set gives what the sequential scan gives: both are
walked by offset. What is kept of the hits below an offset grows by one round per offset (`KeptBelow`), and `find_functions` after
n rounds has come to n or further, having kept the same; behind a function nothing is kept until it ends. For
the diff, the offsets in order are the one strictly increasing sequence with those
elements. `DiffIsDescribed` follows the chunks offset by offset: after n differences the chunks pushed and the one under way
cover the first n, each once and in order (`ChunksAreRight`), and what is pushed behind the loop is the rest; so the
old bytes with the chunks written over them are the new ones. Each byte of a signature
is that of the section, and scanning steps from match to match and misses none (`SignaturesAreRight`). Sections of one
name are paired once, the first with the first (`SectionsPaired`). These are for any two files and any list of sections.

`LoadedBinary_proofs`: `DominatorsSound`, `LoopsSound`, `FlowInductive`, `TypesSound`, `InvalidationSound`, `QueriesAreOne`,
`IndexInductive`, `AddressesMeanOne`, `ReferencesSound`, `ReferencesInductive`.
*Edges.* `FlowInv`: a function that is built has exactly the edges its blocks call for, in both directions, until one with a block
of it is built, whichever functions are built and how often. *Dominators.* Rounds of a search only add, and after as many as there are
blocks nothing is added (by cardinality), so that a search ends with the least closed set. A
round of `compute` is, for every block that is avoided at once, a round of the search from the entry
that avoids it (`UnreachedNext`); hence the dominators of a block are the blocks without which it is not
reached (`DominatorsAreAvoided`), also for blocks that are not reached at all. *Loops.* The body is the least set closed
under predecessors without the header, and therefore within any other such set: within the blocks that
the header dominates, and within those with a way to the source inside the body. *Types.* `SettledInv` ties a variable to
its log: the first constraint that says what it is, is the first it was told; it is final
once there is evidence. `NamesInv`: a name has the greatest identifier given to it. *Dirty sets.* `DatabaseInv`: an address in the map finds
a function that starts there, however many were created at it. *Index.* `IndexInv`: the maps of a binary have, of the
entities at an address, the last; while the index has no entry of another binary, it has no key that the binary lacks, no symbol under
a name that is not its own, and all of what was there when a type was built. That it has no key the binary
lacks is what makes building over what is there the same as building anew: each loop that overwrites then ends
with the last of each key (`BoundIsLatest`), and there is one such map (`LatestIsOne`). A loop that appends leaves under each
key what was there and what has the key, and counts them (`AllPushed`), so that in an index built whole each
symbol is listed twice and a limit of twice as many cuts none off (`SubstringCounts`). *Addresses.* Every translation goes
through the relative address, which an address has at most one of; back from it there is at most one way where the
sections lie apart. So each pair of translations inverts each other once each half does, and the older models
are the same sums in another order, within the width. *References.* `XrefInv` has three parts. `CallersAre` gives exactly a function's list of
callers from the log of analyses alone, and holds after one more because the analysis of a function begins its
own part of the log anew and adds one list to that of each other (`SinceGrows`, `IncomingGrows`); it needs that no analysis changes
the code it reads (`SameCode`). `StringsAre`: with one string registered each that is found has a symbol; the loop names one more each
round and forgets none (`StringsAdded`), which is also why a second time adds nothing. `DataAre` counts, for each address, the
operands that read it times the analyses. `AsciiHas` shows that the scan finds a run of printable bytes wherever one
begins, `CallIsShown` that what one analyser records the other does.

`DisassemblyCache_proofs`: `TypeCorrect`, `RemovedForGood`, `HitsAreCutAtWorst`, `WholeEntriesServe`, for any processes, keys and sizes of blocks. `RemovedStaysRemoved` is not
inductive: a process in the middle of `put_block` could write a cell into an entry that
is gone. `WatchInv` says that nobody writes what is gone, nor what a walk watches and has
passed, which is not there; `WritingStep` that writing an entry begins with opening it, and
opening it takes it off both lists. The types need `OpenInv`: a walk removes no entry that
is open, so that a write is into a file. What a hit shows rests on three: `EntryInv`, an entry that was never written by two at once is the
beginning of one block, and all of it if it is `whole`; `PutInv`, a writer has written as much of its block as the
entry holds; `ReadInv`, a reader has in its hands the beginning of the same entry, as
far as it was written when it looked, and zeros behind, unless a writer opened the entry since. From there
`HitIsCutAtWorst` is a matter of places: the cells read end at one cell, so that at most one instruction has one
piece without the other; and where the count itself was cut, its low bytes are worth at most the count.

`Storage_proofs`: `TypeCorrect`, `Inductive` and the properties of the three parts, which share no state.

*Annotations and patches.* `IdentifiersAreNew`, `SavedIsLoaded`, `OriginalsAreRight`, for any texts, places, files and
sections. `FileInv`: a file that was saved with texts of one line is six lines for each entry, in the order
of the save, cut anywhere by a crash; the loader, line by line, comes to the same entries but for one that is cut (`CutRestored`,
`SavedRestored`, by the induction above over the lines). Identifiers are natural numbers: that they
wrap after 2^64 - 1 is left out. `PatchInv`: an address that a patch covers has the place in
the file that the first section that holds it gives (`Located`), and the recorded byte is the one there.

*Sessions.* `SavedAreInPlace`, `WholeSessionIsLoaded`, for binaries of any sections, functions,
blocks, instructions and identifiers, and any misreading. The file is what one save writes, cut anywhere, and the writes still to come are the rest
(`SessionInv`), unless the disk is full: then what is written later is lost, and the file stays as it is. `Layout` says at
which place of the file each item is: three of the header, the table of sections, that of functions, the blocks up to the first
one with contents, and its identifiers. Along the file up to them, by the induction over its
items, the loader has the first sections, then the first functions, then the first blocks of what was saved, and its maps
are those of its tables (`Made`, `Got`, `ReadIs`). Every entity misread behind that is appended to a table (`TakenGrows`,
`MisreadGrows`), so that what was there keeps its identifier (`KeepsMade`, `GarbledBehind`), and the result is again a binary,
which may be saved (`SessionLoadKeeps`). The counts of a whole file are found by looking at every item that is a
table (`WholeCounts`).

**Only model-checked:** what has liveness (`EveryCallEnds`, the liveness half of `KeepsPromise`,
`ClientReturns`, `LaunchedAnswered`, `LiftCallsBack`, `PlaceholderEnds`, `RunStagesReturns`), which is out of reach of the
prover's backends, as is `ENABLED`. Every invariant of a passing run is stated by a theorem.

## 5. Not modelled

Within the modelled parts:

* pool: `parallel::map` and `filter`. Decompiler: the destructor, the resume directory, command lines, clean-up of
  text. Window: other panels, recent files, fonts, closing.
* Analyzer and diff: `disassemble_function`, and `function_diff`, which nothing calls and which
  goes on with an iterator it has erased (`diff_engine.cpp:124`). The tail of the longer file is no difference to the code, nor here.
  Progress may go backwards between the two scans that share it, and an update may follow
  `complete` (`diff_engine.cpp:225`); `ProgressEndsFull` is what holds.
* IR: the forms of types, the payload of operands, hashes of identities; nothing calls the life cycle.
* Index: `PersistentIndex` (a stub), `advanced_search`, `index_size`, `QueryBuilder`. Engine: statistics;
  it never sets the `dirty_flag` of an identity.
* Control flow: `SwitchTableRecovery`. References: the analyses that are stubs, and `build_indexes`.
* Addresses: `from_function`, formatting. The legacy conversion casts one enumeration to
  another (`address_space.h:50`), so that sections become relative addresses; `SectionRange` shows what follows from it.
* Types: arrays and fields. `load_builtins` loads none and gives the identifiers out
  again; the stack place of the sixth integer and the eighth float of a System V call is the same
  (`type_system.cpp:76`), which `TypesFollowEvidence` leaves out by asking for one kind there; a stack frame is kept from one
  function to the next.
* Session: of a function only its range and one bit of its type are saved; symbols,
  types, references, the image base and the flags are not, and a binary that was loaded and is
  saved again has no blocks. A load that was garbled and reports success is modelled; how bytes become entities is not.
* Cache: the key lacks the decoder's mode; a hit carries no bytes and no text; `get_stats`. An age
  larger than the time purges everything. Two overlapping writers may leave anything.
* Annotations: the getters; times. A text with a comma or with several lines does
  not survive the table, nor several lines the file, as the model has it.
* Patches: IPS (addresses cut to 24 bits) and JSON.

Parsers, text output, hashes and heuristics over bytes have no state that outlives a
call, and a model of them would be the algorithm again; panels are views. The string
analyzer looks at a null pointer where the bytes should be (a placeholder).

## 6. Plan

Done: 1. pool and its promise; 2. decompiler; 3. window and workers; 4. pipeline; 5. scans, with diff, signatures and
progress; 6. cache; 7. index, queries and engine; 8. annotations and patches; 9. sessions; 10. control flow; 11. addresses,
references, types.

Left: the destructor of `RevngDecompiler`; the decompiler's promise as an abstract module
that `RevngDecompiler` is shown to implement and `MainWindow` uses; switch tables.
