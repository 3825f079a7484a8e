# A verification project for Prismio

Prismio is a self-hosted compiled language. A program is lexed, parsed, checked
(`src/sema`), given a memory disposition for every value by the ownership
inference (`src/aifcore`, `src/aif`), lowered to LLVM IR (`src/ir`,
`runtime/llvm-api-backend.c`), merged with the libraries it imports, and linked with
a C runtime (`runtime/lang_runtime.c`, `runtime/program_support.c`) by a build driver
(`runtime/build_driver.c`) that keeps several caches. A language server (`lsp/`)
runs the compiler in a child process. The front end is a sequential pipeline of functions on
text and trees. What is hard to test is the rest: what runs concurrently, what is
released by someone else than who made it, what is kept on disk between two builds,
and what one pass establishes for code that runs after several others.

Paths below are relative to the repository's root.

## Inventory

| part | state it keeps | operations | what it talks to |
|---|---|---|---|
| channels, `program_support.c` 2219–2411 | ring, `head`, `len`, `closed`, a mutex, two conditions; the plain-data ring is allocated by the first send | `chan_new`, `chan_send`, `chan_recv`, the `_copy` pair, `chan_close`, `chan_len`, `chan_share`, `chan_free` | tasks, through an endpoint that several share |
| tasks, futures, scopes, `program_support.c` 1990–2215 | `PrismioTask` (references, `started`, `threaded`, `joined`, result), `PrismioScope` (a list of tasks) | make, begin, await, release; scope begin, add, spawn, end | OS threads; `ir/expr.psm` and `ir/stmt.psm` emit the calls, `aif/walk.psm` decides which bindings are released |
| slab allocator, `lang_runtime.c` 160–460 | reservation, span table, per-thread caches, per-class shared lists | `rt_base_alloc`, `rt_free`, `rt_base_realloc`, refill, spill, first use, thread exit | every other allocation; libc for large blocks or a refused reservation |
| cycle collector, `lang_runtime.c` 2130–2430 | header (count, colour, buffered) of each object, candidate buffer | retain, release, collection (bounded and full), exit pass | list runtime, and the field stores that codegen emits |
| lists and their elements, `lang_runtime.c` 2500–3900 | slots, element mode, grave of parked elements, counts | push, set, insert, remove, swap, truncate, teardown | the views a program holds of an element; reference counts |
| arenas and list blocks, `lang_runtime.c` 1480–1700, 2500–2900 | stack of arenas, chunk pool, each list's header and element block | push, pop, allocate, grow, reserve, release, thread cleanup | the allocator, the hints that codegen brackets calls with |
| loops over flat lists, `llvm-api-backend.c` 3340–3960, `ir/expr.psm`, `ir/stmt.psm` | push guard, flat guard, hoisted length and block | the preheader's decisions and the accesses they leave unchecked | growth of the list by the loop itself |
| object cache, builds, `build_driver.c` | cached objects with their `.deps`, curated module, linker lines, temporaries | look up, compile, record, install; merge, generate, link, clean up | other builds at the same time, edits, kills |
| project-local toolchain, `build_driver.c`, `project/host.psm` | active host, trusted stamp, emitted artifacts and their stamp | check, promote, trust, forward, clean, emit | a launcher, later builds |
| library merge and object emission, `llvm-api-backend.c`, `llvm_bridge.cpp` | the program's module, the table of library symbols; partitions and their threads | close over the needed names, link; internalise, optimise, split, promote, lower | LLVM, the driver's linker |
| language server, `lsp/` | open documents, the dirty list, the check in flight, each program's index, what was published, the requests that wait | edits, requests, cancellation; start, end and death of a check | the client; one child process at a time |
| hash map `std/map.psm`; verify ledger; file lines, polling, processes; manifests `ums/` | tables, caches | insert and remove; read a line | the file system |
| compiler front end, inference, code generation | trees | pure passes | |

Hard behaviours, and what makes each part correct:

- *Channels.* Any number of senders and receivers sleep on two conditions; each
  successful call signals one of them. Correct means: no sleeper is left behind
  when its predicate has become true, a close reaches everyone, queued messages
  are drained before end of stream is answered, messages come out in order.
- *Tasks.* The handle's binding, the scope and the running thread share one
  object whose owner may drop it at several points. Correct means: the count is
  the number of holders, a running thread's object is alive, a body runs once, a
  scope's end waits for everything started in it, and no wait hangs.
- *Pool.* Both together, with two bounded channels in a loop: freedom from
  deadlock, and `chan_free` with nobody inside.
- *Slab.* Blocks freed by other threads than the ones that allocated them travel
  in batches. Correct means: a block is in one place and one class, counts that
  drive pointer walks match the lists, no block is lost between two owners (an exiting
  thread's included), and a slab block is never passed to libc.
- *Collector.* Trial deletion takes counts away from live objects and must put
  them back; candidates wait in a buffer while the program goes on. Correct means:
  nothing reachable is freed, nothing is freed twice, garbage cycles go.
- *Lists.* A dozen entry points decide separately, from one stamped mode, whether an
  element is retained, taken over, parked or released, while views of it may be
  live. Correct means: one owner for each element or a count that is exact, and no view of
  released storage. A list's blocks may be in the heap, in an arena or in one
  another: a growth or a teardown must know which, and never leave the list's region.
- *Loops.* Checks are made once, before the loop, for accesses that run after the
  list has grown, moved or been reached under another name.
- *Caches and builds.* An entry is more than one file; builds, edits and kills come
  between any two of them. Correct means: a hit links what a compile would
  have made, no cache failure fails a build, and temporaries go.
- *Toolchain.* What an emission reuses must be what it would rebuild, whatever was killed or
  edited in between, and only a host this machine promoted may be run.
- *Merge and partitions.* Taking only part of each library, or cutting the
  program in pieces, must give the program that the whole would have been.
- *Language server.* Edits kill a check, requests wait for one. Correct means: when
  nothing is dirty or running, what is shown and answered from is of the texts as they
  are; and a request that waits is answered.

`PROJECT.json` lists all components with their status, the hazards with their
lines, the map from definitions to lines, the runs, their mutants, the findings and the
theorems.

## Modules

| module | models | state |
|---|---|---|
| `BoundedChannel` | what a channel promises: a bounded queue that can be closed, with calls that wait | queue, closed, calls |
| `Channel` | `PrismioChan` | ring, flag, where each thread is |
| `Tasks` | `PrismioTask`, `PrismioScope` and the calls codegen emits | task objects, OS threads, scopes, the owner's position |
| `Pool` | `pool_round_trip` and `worker` of `tests/test_96_channels.psm` | two `Channel` instances and the program's position |
| `PoolProofs` | theorems about `Pool` | |
| `LanguageServer` | the server's loop with its child | documents, dirty files, run, indexes, waiting requests |
| `ConcurrencyProofs` | theorems about `Channel`, `Tasks` and `LanguageServer` | |
| `Slab` | the small-object allocator | caches, shared lists, span table, reservation |
| `CycleCollector` | the T4b collector and its callers | headers, buffer, the visits a walk has left, cyclic fields, lists |
| `CollectorProofs` | theorems about `CycleCollector` | |
| `Elements` | who owns a `Vec`'s elements | slots, graves, counts, views |
| `ElementsProofs` | theorems about `Elements` | |
| `Storage` | where a `Vec`'s two blocks are | regions, chunks, pool, heap blocks |
| `AllocationProofs` | theorems about `Slab` and `Storage` | |
| `FlatLoop` | what the backend makes of a loop over flat lists | the loop's position, guards, lists' headers |
| `FlatLoopProofs` | theorems about `FlatLoop` | |
| `Files` | bytes of a file, or that it does not exist | |
| `NativeCache` | the cache of native objects | entries, builds inside `compile_native_source` |
| `Build` | `compiler_build_executable`; extends `NativeCache` | stage, caches, temporaries, executable |
| `Toolchain` | promotion of a host and emission of its toolchain | host, stamps, artifacts |
| `BuildProofs` | theorems about `NativeCache`, `Build` and `Toolchain` | |
| `Linking` | merge of libraries into a program, curated bodies | the module, needed names, what was taken |
| `Partitions` | `ir_emit_object` | the module, owners, objects, threads |
| `BackendProofs` | theorems about `Linking` and `Partitions` | |
| `MCConcurrency`, `MCMemory`, `MCToolchain` | the components that belong together, in one instance for TLC | `part` |
| `MCCycleCollector`, `MCSlab`, `MCFlatLoop`, `MCLanguageServer` | instances of one component | |

Components that share nothing but a subject are checked in one run: `part` says which of
them a behaviour is of, and the others rest in an initial state. Components that really
interact are composed by their modules: `Pool` of two channels and tasks, `Build` of the
object cache and the driver around it.

### Channel

A section that runs with the mutex held is one action, because nothing outside
the mutex touches the fields. A thread whose `pc` is `send` or `recv` is about to take
the mutex and test its loop's predicate, on entry or after it was woken; `not_full`
and `not_empty` are sleepers. `SendWaits`, `SendClosed`, `SendNoRing`, `SendStores`,
`RecvWaits`, `RecvEnds`, `RecvTakes` and `CloseChan` are the exits of the two calls
and the close; a signal moves one sleeper of the model's choice, `SpuriousWake` any sleeper
at any time. `Copy` selects the plain-data ring, which has a lazily allocated
buffer (`ready`) and spells the wrap-around as compare-and-subtract.
`chan_recv` of a pointer channel answers a null pointer where `chan_recv_copy` answers 0;
both are `RecvEnds`. `chan_free` destroys the mutex and is modelled in `Pool`, where
there is a program that may call it at the wrong time. The comment at
`program_support.c` 2219–2220 has the plain-data ring allocated by "whichever of the
first chan_send_copy or chan_recv_copy runs first"; a receive can only reach the ring
after a send has filled it, so in fact a send always allocates it.

`BoundedChannel` has the same calls without a ring, conditions or wake-ups: a waiting
call simply completes when it can. The refinement maps `queue` to the `len` slots
from `head` on, and a thread's call to the one its `pc` stands in, whether it sleeps or
not.

### Tasks

The owner thread runs one function; `owner` says whether it is running, in a join,
in an inline await or inside `prismio_scope_end`. `SpawnBound`, `SpawnStatement`,
`FutureBound` and `FutureStatement` are the four shapes of creation that codegen emits;
`StartFuture`/`StartFails` is `spawn fut`, with and without a thread;
`AwaitInline`/`AwaitThread` is `prismio_task_await`; `DropHandle` is the release that
codegen emits for a binding E-SPAWN-J proved joined on every path, and `LoseHandle`
the end of one that it could not. The inference is represented by its result: a
droppable binding is dropped only once it has been joined. Bindings are dropped in any
order when a scope is left; the code uses reverse order of declaration, so this
allows more. `born` is history: the scope a task was started in.

### Pool

Main spawns the workers, sends the jobs, closes the jobs channel, takes the answers,
joins, closes and frees; a worker receives until end of stream. Both channels are
`Channel` step for step, and a step of one of them is a step of the pool. The
`break` on an early end of the answers is unreachable here, because main itself closes that
channel later. `handled` is a worker's own count of what it answered, which its task returns; `Counted` has a
pair for each, so that their sum is a cardinality.

The channels of the test carry plain data, so a send may fail to allocate the ring (`SendNoRing`, `program_support.c` 2300) and
drop its job; the program reads no send's answer and goes on. `unsent` is history, the jobs
so dropped. Main then waits for as many answers as it meant to send jobs, and with every worker gone it
waits for ever: `Starved`. `PoolFinishes` says that this is the only way not to finish, and that
even then every worker ends and every job that was sent is answered.

### LanguageServer

One thread serves everything, so an action is one message of the client or one event of
the child. A text is `clean` or `bad`, an index the snapshot of texts that the check
read. `MarkDirty` is the part every edit ends in: it kills the check in flight, of
whichever program, and makes the file dirty. `Tick` is the turn in which the debounce has
passed and `startAnalysis` runs, for the program of any dirty file (the code takes the first on its list, which follows the
order of edits); every file of that program is dirty no longer.
`CheckEnds` publishes, moves documents on that the program did not read to
their next program, and serves what waits; it may have written no index (`server.psm` 433: the old one then stays, and
`src/driver/compile.psm` 250–251 reports P1114 and goes on), which `MayFail` allows under the same condition as a death; `CheckDies` is a child that gives no result.
An index file that a killed check left under its temporary name could be installed by a later check of the
program that writes none; the model has no such leftover.
`Feature` answers a request from the index or lets it wait, and `FlushPending`
serves the list of those that wait: whether its loop ends is computed, and a server whose loop does
not is `spinning`. `lost` is history: programs whose last check gave no index, for
which the last answer stays. `Faults` adds two events: `start`, a child that cannot be
started, and `first`, the death of a program's first check. A layout says which programs `lsp/projects.psm` tries for each file and what each of them reads; the programs to try for a file end with the file alone, so
with two documents open there is always more than one.

### Slab

A linked list is a sequence, head first. What a thread does to its own cache is one
step, and so is what it does with a class's spinlock held; `slab_flush_tls` takes the
lock per block, so it is a step per block; `slab_init` takes no lock, and is
three: the test in `slab_refill`, `slab_state = -1`, and the stores after `mmap`. A block
is named by the reservation it was cut from, so that a second reservation is visible.
`MainFirst` is an assumption on the program: that main allocates a small block
before it spawns. `SlabInitRace` drops it.

`NothingStranded` is conservation over all threads: every block of every span that was cut can still be handed out
or freed. It is somebody's, on a shared list, or in the cache of a thread that runs. The
one exception is in the code: `slab_refill` abandons the end of a span that is no whole window (lines 314–325).

### CycleCollector

The runtime calls hold `cyc_state_lock` from start to end, so the program rests while a collection runs; a list's
teardown is one step per element, because each element is a call of its own and
may start a collection. A collection is not one step but one per visit. The recursive functions become a
stack of visits, `walk`: a visit is an operation, an object and one of its fields (0 for the object itself, as a root), and
a step takes the first, does what the C function does on entry (`VisitRoot`, `MarkGrey`, `Scan`, `ScanBlack`,
`CollectWhite`), and puts a visit for each of the object's fields in front of the rest, which is the depth-first order of the
recursion. The decrement before `cyc_mark_grey(y)` and the increment before `cyc_scan_black(y)` are of the child, so a
visit makes them only when it came through a field. `PassOver` is a field that holds none. `NextLoop` goes from one loop of
`cyc_collect` to the next. A field store waits in `store` for the release of the old value, and with it for
the collection the release may set off; `EndCollection` makes it. Walking by visits makes the middle of a collection a
state, in which properties are checked too, and needs no recursive operator.

History is in `touched` (freed objects whose
header a walk read), `again` (freed twice) and `direct` (freed on their own count,
without a walk to their children). A read of a freed header sees what it last
held: the slab writes its link into the first word, which is the count, and the colour and
flag stay. `Reachable` is the least set that has the lists' elements and what their fields lead to, as an
intersection of closed sets. `Final` is the exit of the program, with the buffer emptied by `CollectNow` as `cyc_final`'s loop does.
`Overwrites` and `FullStores` say what the program does. `list_set` moves no
count in a list of collected objects, so it is harmless when a program only exchanges
elements (a sort, a swap) and not when it overwrites one for good: `Overwrites` allows the
latter. `FullStores` allows a field store when one more candidate fills the buffer.
With both FALSE the collector is safe; each of them is the subject of a finding.

### Elements

A slot holds a block it owns, a view into one, an inline value or a literal; the
mode (`none`, `object`, `rc`, `string`, `flat`) is the same for the lists of an
instance, since it follows from the element type. `Set`, `SetNow`, `SetExclusive`,
`Insert` (which is also push), `RemoveElement`, `Truncate`, `Swap` and `Release` are the
entry points; `now` is codegen's proof that no view is live, and their guards
demand that. An element displaced without it goes to the list's `grave`, which is a bag: it is only ever emptied whole, and the
order of its releases makes no difference to counts. What holds a block is a set of places (list, slot or grave, index), and the
number of holders its cardinality. `Bind` and
`Unbind` are `let s = v[i]` and the end of `s`. Two constants are assumptions on the
program: `Replaceable`, the modes under which it calls `v.replace` (objects only in
the run, because `list_set_exclusive` moves no counts), and `SelfViews`, whether it
stores a prefix of `v[i]` into `v[i]` (it does not in the run; the displaced
buffer leaks when it does).

### Storage

Sizes are in units and a block is an interval of a chunk, so that two blocks that
overlap are visible. `EnterRegion` and `ExitRegion` are `arena_push` and
`arena_pop`, with the pool of default chunks (`FromPool`, else `FromLibc`; the pool is a set, since any of
its chunks is as good as the last, and the model takes any); `ServeAt` allocates in a list's own
arena, whatever is innermost. A list is `fused` when its first elements are in its
header's allocation. That no list outlives its region is what the inference
guarantees (`aifcore/arenas.psm`); `ListsGo` says so.

### FlatLoop

The state is a loop at its preheader, condition or body. `Loops` are
programs: a condition, a step and up to three statements. The generator compares receivers by
name and a list is what a name is bound to; a growth gives the list another block
number, so an access through a stale pointer is seen. `Plus` wraps at `IntMax`. The
memset, the memcpy, the reservation, the push guard, the flat guard and the hoisting are each
a step of the preheader in the order of the code. `Aliased` is an
assumption on programs: that the two names are two lists. `flat_alias` drops it.

Loops count up or down, and a body may assign the index any value. `generateLoopPushGuard` asks
for a counted loop; `generateLoopHeaderBound` (`expr.psm` 1969–1989) takes `iv < list_len(v)` and one test of
`iv >= 0` before the loop, and tests neither direction nor other assignments, although the comment above it (1963–1967)
has the test supply the other half of an unsigned check. In a loop that counts down, or whose index
is assigned at the end of the body, a later turn can then read `v[i]` at an index below zero, unchecked. `below` records such an access and
`astray` any other that goes wrong; `AccessesInBlock` says that nothing goes astray in any loop, and that nothing is
accessed below zero where the index climbs by one and has no other assignment (`Climbs`). The run
has loops in which `below` becomes true.

### NativeCache and Build

A hash stands for the bytes it is of. A lookup reads the key (the source's version), then
the list and the object of that entry; a compile reads source and header, then
`Record` hashes the header and renames the list, then `Install` renames the object: a step
each, because another build, an edit or a kill may come in between. `suspect` is history: entries that an edit during a compile, a failed rename
or a kill caught halfway. `Build` puts the driver around it: the curated
module (looked up, compiled and installed in three steps, since its key is taken at 1511 and clang reads the file again at 1583),
merge and code generation, the native compile (a `NativeCache` step for step), the
cached linker line with its fallback to the driver, and the temporaries each stage makes.
Each build has an executable of its own. No property says that an installed curated module is of the text its
key names: an edit between the two makes it another's, and neither its headers nor its clang are in the key.
What is stated of the curated module is that it decides no build, and that its temporaries go; the raw
one stays when the merge that follows fails, as in the code (3422–3430).

### Toolchain

Promotion is candidate check, rename, stamp; an emission drops the stamp, rebuilds or reuses the runtime and the standard library,
and writes the stamp with the lines it can vouch for; `Killed` may end either after any step. A host
is a version with an identity, so that two builds of one source are told apart.
`Replace` is a checkout or a copy that puts another host, and maybe a trusted
file, in its place while no command runs. `Forward` tests the stamp and runs the host in one step.

The runtime's key covers its sources and clang; a module's covers the compiler and the module's own source
(4322–4333). The emission reads more: the generic bodies of the modules it imports and, through
clang, which turns the module's IR into bitcode (4029–4091). So a `.plib` is a record of everything it was made of, one imported module and clang included,
and any of the sources and clang may change at any step, also between a key (4409, 4508) and
the compile it is for (4426, 4514). `ReuseIsARebuild` says what the stamp can promise: an artifact found
current is what a rebuild would make now, for a module as far as its imports and clang are still those it
was made with, and unless an input that is in the key changed between key and compile (`caught`, history). Both
exceptions are the code's: a changed import or clang is not noticed, and a source edited while it is compiled is
recorded under the old key, so that undoing the edit reuses what the edited source gave. Of a `.plib`'s
sections the interface and the code are told apart, since the source is read once for each; the `verify` code is read with the
other. The copy of `freestanding/panic.c` has no stamp entry and is left out.

### Linking and Partitions

A body is the set of names it uses. `CloseOne` is one turn of the worklist over the
one table of symbols, in which a name's first definer wins; `DeclareNeeded`,
`LinkModule` and `Finish` follow. LLVM's `LinkOnlyNeeded` is external. The
reference is `Reached`: what the program reaches when each module's names mean what they
mean in that module. `WellFormed` is what the table relies on: one module exports a
name, a local name is the same symbol in every module that has it and is used only
there, and a curated function uses no local symbol of the runtime but cold blocks.

`contracts` are the functions whose definition carries what the program's declaration states. The lazy merge first deletes
a declaration the program does not use, with its attributes (8537); when a library needs the function it is declared anew and
bare (8564), and `preserve_program_declaration_contracts` has nothing to copy, although its comment (7954–7960) speaks
of every declaration. Linked whole, the contract stays. `Stated` is this difference, and `MergeIsExact` is an equivalence with it. The variables a
program declares are needed whether it uses them or not (8543–8545; `Used`). The closure's depth limit of 32 (8439) is one of nested
constants, and no body here nests any. `Pruned` drops unused symbols of both kinds after a whole merge; the code only functions, which
can leave more than `MergeIsExact` asks for and never less.

In `Partitions` symbols are numbered in module order. `Optimize` runs the whole
pipeline or its first half, `KeepWhole` the rest if the module is not split after all;
`AssignOne` is one turn of the greedy assignment, `PromoteLocals` the hidden globals,
`EmitPartition` one thread's work on its own copy. `globaldce` is external. An allocation that fails in the
split (9457–9463) is `ToolBreaks` at the stage in question. A split that fails removes its objects; a module lowered whole whose
emission fails may leave part of its object at `obj_path` (9805–9811), which is `WholeBreaks`, and `EmissionIsWhole`
excepts it. The driver does not link after a failure.

## Runs

| run | instance | checks |
|---|---|---|
| `concurrency` | channel: three threads, two messages, a plain-data ring of 2. Tasks: two tasks, scopes nested to 2. Pool: main, two workers, two jobs, plain-data channels of capacity 1 and 0 (taken as 1). Server: two files, two programs, three edits, one request | `NoLostWakeup`, `RingBeforeMessages`, `ImplementsQueue`, `ImplementsChannel`, `CloseEndsCalls`; `RefsAreHolders`, `ThreadOwnsItsTask`, `ScopeOutlivesItsTasks`, `RunsOnce`, `ScopeListIsDense`, `WaitsEnd`; `FreeIsSafe`, `EveryJobAnsweredOnce`, `PoolFinishes`; `SettledIsCurrent`, `RequestsAnswered`; and no deadlock |
| `memory` | slab: main and a worker, two classes, two spans of three blocks, windows and batches of 2. Lists: two, three blocks, at most two elements. Storage: two lists, two chunks of 3 units, a pool of 1, regions nested to 2. Loops: 31 loops, `IntMax` 4 | `SlabIsSound`, `NothingStranded`, `NeverToLibc`; `CountsAreContainers`, `OneOwner`, `ViewsStayReadable`; `ListsStayHome`, `FreesAreHeapBlocks`; `AccessesInBlock`, `LoopIsPlain` |
| `collector_safety` | three objects of two fields, two lists, buffer of 3, 2 roots a time | `NoPrematureFree`, `CountsCoverEdges`, `ColoursSettle`, `BufferIsExact`, `FreedOnce`, `CyclesReclaimed` |
| `toolchain` | builds: two at a time, two versions, one change. Toolchain: two identities; two edits beside one promotion. Merge: two modules of three names. Emission: three symbols, two partitions | `SettledHitsAreFresh`, `CachesNeverDecide`, `TempsReaped`; `ReuseIsARebuild`, `HostRunsAreOurs`; `MergeIsExact`; `SplitLinks`, `EmissionIsWhole` |
| `slab_init_race` | the allocator without `MainFirst` | `NeverToLibc` is violated |
| `collector_header_read` | two objects, one list | `HeaderReadsAreLive` is violated |
| `collector_store` | field stores also when the buffer is nearly full | `NoPrematureFree` is violated |
| `collector_overwrite` | two lists, element overwrites | `NoPrematureFree` is violated |
| `objcache` | two builds, edits and kills at any step | `HitsAreFresh` is violated |
| `flat_alias` | two appends in a loop, to one list under two names | `AccessesInBlock` is violated |
| `server_stale` | two documents of two programs | `SettledIsCurrent` is violated |
| `server_spin` | a program's first check may die | `RequestsAnswered` is violated |

Why the bounds are enough for the cases that matter:

- Three threads are the least for which a signal can reach the wrong one of two
  sleepers; a ring of 2 wraps and fills. The proofs cover every size.
- Two tasks and two scopes give every order of drop, join and scope end, with a list
  of two tasks in the inner or the outer scope. The proofs cover every number.
- Two jobs over capacities of 1 with two workers fill both channels at once while main
  still has a job to send or close.
- A server with one check in flight, one request and three edits has an edit
  before, during and after a check, and a document that moves on to its second program
  and is edited there. The passing run keeps to workspaces of which the client opens one document, or of which
  one program is the first to try for all open documents and reads them all; `server_stale` is what happens otherwise.
- `Batch` 2 stands for 64 and cuts a list in the middle; a span holds one window and a tail
  too short for a second, so tails are abandoned and the reservation runs out. The proofs
  cover every number of threads and every size.
- `Theta` 3 above `KRoots` 2 keeps the order of 4096 and 256: a collection leaves
  candidates behind. Three objects of two fields give self-loops, cycles of two and three,
  shared children and diamonds. Lists of one slot, two of them, give every
  pair of outside holders; one longer list released element by element is a
  special case of releasing two lists in turn.
- Two lists and three blocks let an element be in both lists, twice in one, parked
  and viewed at the same time, with a fresh block for a copy.
- Two chunks of 3 units with a pool of 1: a region that fills its chunk and takes
  another, a pooled chunk that is cut again, a growth in the outer region from the inner one.
- `IntMax` 4 puts the wrap-around next to every bound; the lists start empty, partly
  filled and full; the loops have every statement form, alone and beside one that disturbs it.
- Two builds and one change put an edit or a kill between any two steps of either. The failures of every
  stage are run without a change (`MCToolchain`'s part `failures`), and a change beside kills and the failures of the native compile and of its cache
  (`builds`), which are the ones that can leave an entry half made. In the same way the host's commands are run without edits (`host`), and an
  emission, with one promotion, beside two (`stamp`): an edit between key and compile and one that undoes it.
  The proofs cover any number of builds.
- Two modules and three names give chains and cycles through both modules in both
  orders, a local name in each, and names that no merged module defines. Three symbols and two
  partitions put every kind of symbol on either side of the split, used from the other.

`CHECK_DEADLOCK FALSE` is set in `memory`, `collector_safety` and `toolchain`, where the program
or the driver may end, and in the runs that show a finding. `concurrency` is
checked for deadlock: a program that has exited and a server that has ended stutter
(`Over`), and anything else that stops is an error.

### Fairness

`Channel` assumes weak fairness of each thread's steps with the mutex: a thread
that is on its way to the mutex gets it eventually. Nothing is assumed of signals
beyond what POSIX says, of spurious wake-ups, or of a program making further calls.
`Tasks` assumes that bodies finish and that the owner goes on when what it
waits for has happened. `Pool` assumes fairness of every thread. `LanguageServer` assumes that the debounce
passes (`Tick`; the loop polls with a timeout) and that a check that was started ends or
dies: the server has no timeout of its own, and a check is a run of the compiler, which
terminates. Nothing is assumed of the client. The other modules check safety only.
`ConcurrentFairness` is the same fairness, each part of it for the component that runs.

## Findings

1. `slab_init_race`: `slab_refill` tests `slab_state` and `slab_init` writes it and the
   range with no lock. Two threads that allocate first both reserve a range; the blocks of
   the replaced one fall outside it and go to libc's `free`. It needs a program whose
   main thread has not allocated a small block before its first spawn; tasks and
   channels come from `calloc`.
2. `collector_header_read`: `cyc_collect_white` frees an object before it follows its
   children and, in a cycle, comes back to it and reads the colour of freed storage.
   It is benign as long as the storage keeps its second word, which is how the model
   lets it go on.
3. `collector_store`: a field store releases the old value before it overwrites the
   field. If that release fills the candidate buffer, the collection still walks
   the old edge, whose count is gone, and can free what the program reaches.
4. `collector_overwrite`: `list_set` in a list of collected objects moves no count,
   and teardown releases what it finds.
5. `objcache`: the header is hashed after the compile that read it, and the list and the
   object are renamed one after the other. A header saved while clang runs, or a kill or
   another build between the renames, leaves a list of now beside an object of
   then, and the next build links it.
6. `flat_alias`: the push guard asks for room by receiver name. With one list under two
   names a loop appends twice as often as the guard allowed for, and the
   stores it left unchecked run past the block.
7. `server_stale`: `startAnalysis` takes a program's files off the dirty list, and an edit of a file of
   another program kills that check without putting them back. Nothing is dirty, and the
   first document keeps an index of older text, or none.
8. `server_spin`: a request whose program has no index is put back on the list that
   `flushPending` is emptying, and the loop does not end. It takes a program's first check
   to die while a request waits.

Two smaller observations have no run. `slab_spill` gives away the blocks freed last,
where the comment above it says the oldest batch (`docs/ALLOCATOR_PLAN.md` says the
newest). And an object freed on its own count (`cyc_release`, or a root whose count is
zero in `cyc_collect`) does not release what its cyclic fields hold, so its
children are never reclaimed: `CyclesReclaimed` is stated for the rest, and its
exception is exactly what hangs below such an object.

## Proofs

`ConcurrencyProofs` proves of `Channel`, for every capacity, every finite set of threads, every set of messages
and both kinds of ring:

- `TypeCorrect`: `SafeSpec => []TypeOK`; `head < Cap` and `len <= Cap` are what keeps the
  ring's accesses inside the allocation;
- `RingIsReady`: `SafeSpec => []RingBeforeMessages`;
- `NoWakeupIsLost`: `SafeSpec => []NoLostWakeup`;
- `RingImplementsQueue`: `SafeSpec => ImplementsQueue`, the safety part of the refinement.

Assumptions: `CapacityAssumption` (an integer; anything below one becomes one),
`CopyAssumption`, `ThreadsAssumption` (finitely many threads) and `NoMessageAssumption`.

The inductive invariant is `Inv == TypeOK /\ RingBeforeMessages /\ NoLostWakeup`.
"No sleeper while its predicate holds" is not inductive, because after a signal and
before the woken thread runs the predicate does hold while others sleep. `NoLostWakeup` counts
instead: while a sender sleeps, there are at least as many senders on their way to the mutex as
free slots, and likewise for receivers and messages, and nobody sleeps on a closed
channel. The step lemmas follow the cardinality of the two sets through each action.
`RingBeforeMessages` is needed by it: a send that finds no ring returns without
using a slot, and without knowing that no sender sleeps then, it could use up a
wake-up. The refinement uses `Inv` and lemmas on how the mapped queue changes when the tail is
stored and the head taken.

Of `Tasks`, for every set of tasks and every nesting of scopes:

- `TasksTypeCorrect`: `TasksSafeSpec => []TasksTypeOK`;
- `CountsAreExact`: `TasksSafeSpec => []RefsAreHolders`;
- `NoUseAfterRelease`: `TasksSafeSpec => []ThreadOwnsItsTask`;
- `ScopesWait`: `TasksSafeSpec => []ScopeOutlivesItsTasks`;
- `BodiesRunOnce`: `TasksSafeSpec => []RunsOnce`;
- `ScopeLoopMeetsNoHole`: `TasksSafeSpec => []ScopeListIsDense`.

The only assumption is `MaxDepthAssumption` (the bound on nesting is a natural number).
The inductive invariant has five parts besides the type: `Held` (the count is exact), `Life`
(how the flags, the thread and the number of runs go together), `Kept` (an unjoined task with a
thread is alive and on the list of the scope it was started in), `Lists` (places on a scope's
list are distinct, below its length, and not behind `prismio_scope_end`'s index) and
`Waiting` (what the owner waits for has not been joined). `Lists` is what the others hang on:
without distinct places, `EndOne` could release one task and skip another, and
`EndDone` could close a scope that is still some task's home. There is one lemma per
action; `OneStep` reduces each of them to the task the action changes. `ScopeListIsDense`
is the converse of `Lists`, that every place from the index to the length is taken, and is proved with it.

Of `LanguageServer`, for any files, programs, layouts, edits and faults, `AnswersAreCurrent`:
`OneProgramAtATime => (ServerSpec => []SettledIsCurrent)`. The hypothesis is on the workspaces: the client opens at most one document, or
there is a program that is the first to try for every document it opens and that reads them all (a program's main file and what it imports). Without it the run `server_stale` violates
the property; the instance of `concurrency` has workspaces of both kinds, and a lone document that has several programs to try. `ServerInv` adds `FirstTried`: a
document that its first program reads never moves on, so under the hypothesis all open documents stay with one program. And `ServerInv` adds `RunIsCurrent`: the check in
flight is of the program of one of the documents and read the texts as they are, because every edit kills it. Under the
hypothesis the check that an edit kills is of the program that the edited file makes dirty again, and this is the step that fails in `server_stale`.

`PoolProofs` proves, for every set of workers and finite set of jobs, every pair of capacities and
both kinds of ring:

- `PoolFreesSafely`: `PoolSpec => []FreeIsSafe`;
- `PoolRoundTrip`: `PoolSpec => []EveryJobAnsweredOnce`: when main frees the channels every job has been answered once, and
  the workers' results add up to the number of jobs;
- `PoolAnswersOnce`: at no point does an answer reach main twice (`NoJobAnsweredTwice`).

Assumptions: `MainAssumption` (main is not a worker), `CapsAssumption` and `JobsAssumption`
(finitely many jobs, which a receiver can tell from "no message"). `PoolInv`, for the first, says that a thread is inside
a channel only where its program makes a call, and that past the joins every worker has exited.
The second follows a job along its way: `Holds(place, x, j)` says that job `j` is unsent,
being sent by main, in a slot of the jobs ring, received by a worker, being answered, in a slot of
the answers ring, taken, or counted. `RoundTripInv` adds to `PoolInv` that no job
is in two places and that `taken` counts the jobs that have been counted. Lemmas on `Live`, the slots from `head` on modulo
the capacity, turn each exit of `Channel`'s calls into "one message went in" or "one came out",
so the proof has one case per place and not one per exit. That no job is lost needs no invariant of its own:
main joins only after as many answers as there are jobs, and each is of another job.
That the workers' own counts add up is `WorkCounted`: the answers that workers have counted or are sending are no fewer than
the jobs that a worker has passed on, and with the jobs that none has passed on yet no more than all jobs; at the end
no job is left of the second kind and no worker is sending.

`AllocationProofs` proves of `Slab`, for every set of threads, classes and spans, every span size, window and batch:

- `SlabSound`: `MainFirst /\ Spec => []SlabIsSound`;
- `SlabStrandsNothing`: `MainFirst /\ Spec => []NothingStranded`;
- `SlabKeepsItsBlocks`: `MainFirst /\ Spec => []NeverToLibc`.

`MainFirst` cannot be left out: `slab_init_race` violates the third without it. `SlabAssumption` has
a window that is not empty and fits a span (8 KB and 64 KB in the code), and a batch that is not empty.
The inductive invariant `SlabInv` has, besides the three properties' parts:

- `Unique`: a block is at one index of one list, or held. `OnePlace` says the same of the lists of
  a state; `Unique` says it through `Holds(at, thread, class, nth, index, block)`, in which a list and the program
  are places alike;
- `Proper`: it is of the reservation `base` names, from a span below `spanNext`, and
  the span table has its class; a new span's blocks are then nowhere yet, and `rt_free` finds the class again;
- `InitOnce`: `slab_init` runs on main alone, before any worker exists, and until it is
  done there is no block. With a second reservation `Proper` would be lost.

A step moves blocks. There are seven kinds of move (`Popped`, `BatchTaken`, `Given`, `Returned`, `Split`, `Flushed`,
`SpanCut`), each a relation between `Holds'` and `Holds` that says where each block of the next state was. Each has
a lemma that it keeps `Unique` and `Proper`, and each action a lemma that it is such a move; `MoveSteps` has the rest
of the invariant for all of them. A worker's list stays below the mark because a worker that frees has itself enabled
the spill.

`SlabStrandsNothing` needs the other direction, that each block is somewhere: `NoneLost`. A step may put a list in the place of
another, and what was there must have gone elsewhere: `MissedEmpty`, a cache whose thread is in `slab_refill` has no
free block in the class it looks for; `RestIsTail`, what is left of a class's span is its end, so that
giving it up loses fewer blocks than a window; and `GoneCachesEmpty`, an exited thread's cache is empty.

Of `Storage` it proves `StorageFrees`: `StorageSpec => []FreesAreHeapBlocks`, under `StorageAssumption`. What must be added
to it (`HeapInv`) is `HeapShapes`, which places the header and the data of a list that
no arena serves can have, and that an allocation in whichever arena leaves the
stack of regions its height (`Served`), so that a list's arena keeps naming the same region. And `StorageStaysHome`:
`StorageSpec => []ListsStayHome`, that a list's blocks lie in chunks of its own region, inside what has been cut, and no two
overlap. `HomeInv` adds `Sane`: a chunk is cut no further than its capacity, is in one region at most, and in none while the
pool has it, where only default chunks are. A chunk that is cut again after its region has gone is then apart from every block that is left.

`ElementsProofs` proves, for any finite set of lists and any blocks, modes and lengths, of programs with `AdmittedPrograms`:

- `ContainersAreCounted`: `ElementsSpec => []CountsAreContainers`;
- `ElementsHaveOneOwner`: `ElementsSpec => []OneOwner`;
- `ViewsAreReadable`: `ElementsSpec => []ViewsStayReadable`.

`AdmittedPrograms` leaves out `v.replace` on counted lists (`list_set_exclusive` moves no count) and storing a prefix of `v[i]`
into `v[i]`; the run has the same restrictions. `ElementsInv` says of each block how its state, its count and its owner follow from
the number of places that hold it (`BlockOK`, mode by mode), and of each view that the list it is of still has the block,
in a slot or in its grave (`ViewOK`): a view that only knew its block to be live would not survive the release of another
list. Every entry point is one kind of step: a list's new value, the blocks retained, dropped, allocated and taken from the program. `BalancedAt` says
when these agree for a block, one lemma shows that a balanced step keeps the invariant, and each entry point is shown
balanced from lemmas on how insertion, removal, truncation and replacement change the owners of a slot sequence.

`CollectorProofs` proves, for any number of objects, fields, lists and elements, any buffer and any number of roots a time:

- `ReachableIsKept`: `Spec => []NoPrematureFree`;
- `CountsAreRestored`: `Spec => []CountsCoverEdges`;
- `ColoursAreSettled`: `Spec => []ColoursSettle`;
- `BufferAgrees`: `Spec => []BufferIsExact`;
- `NothingIsFreedTwice`: `Spec => []FreedOnce`;
- `CyclesAreReclaimed`: `Spec => []CyclesReclaimed`.

The first five follow from `CollectorIsInvariant`: `Spec => []CollectorInv`. The hypothesis is `OrderlyProgram == ~Overwrites /\ ~FullStores`, and neither half can be
left out: `collector_overwrite` and `collector_store` violate the first property without it. The properties speak of what is reachable and most of them of
the time between collections; the invariant has to say what is true of every object after every visit:

- `Covered(mem, rc, Places)`: a live object's count is at least the number of places that hold it, and nothing holds what is not alive. Places are
  the list slots and the fields that are `Counted` at the moment. A grey object's field counts only while
  its grey visit is still to come, since the visit takes the count away; a black object's field counts unless its black visit is
  still to come, since the visit gives it back; a white object's field counts for nothing. Each visit changes
  a count and a place together, and this one inequality covers trial deletion and its undoing;
- `NoRepeat` and `Fits`: a field is visited once by each walk, and the visits on the stack are those of the loop that runs;
- `ColoursOK`, `SourcesOK` and `RootsOK`: which colours there are in which loop, that a visit through a field is of an object with the colour that
  put it there, and where the roots are;
- `GreyOK` and `ScanOK`: while marking, a grey object's fields are visited or still to be, and the grey objects are found from the roots; while scanning, those
  that are still grey are found from the visits that remain. Being found is said as leastness: every set that
  has the roots, or the visits' targets, and is closed under the fields of grey objects has all of them. With the stack empty nothing is grey any more, so
  every mark has been undone or made white;
- `OldOK`: what an earlier collection left white, because it was buffered or hung below something that was, is out of this
  one's reach: no live object outside it leads into it, and no visit goes there;
- `BufferIsExact` and `FreedOnce`.

The argument for `NoPrematureFree` is that, at each moment, the live objects that are not white (in the first two loops: not in `Old`) have the lists'
elements and are closed under the fields, so they contain `Reachable`, which is the least such set.

`CyclesAreReclaimed` needs the other direction: that nothing alive is lost sight of. `ReclaimInv`, which is inductive together with
`CollectorInv`, says of every live object that it hangs below what the program holds, a candidate, a root of the collection that runs, or an
object freed on its own count (`Anchored`; `Below` is leastness again). What makes a collection preserve this is what each loop
must not skip:

- `Backed`, the upper bound to `Covered`: a live object's count is at most the list slots and `Counted` fields that hold it, and the fields of objects
  freed on their own count, which never give their references back. A grey object with a count left over when it is scanned therefore
  has a place outside of the marks, and what holds it there is itself anchored by something other than the roots;
- `Justified`: from the scan on, what is black hangs below what outlives the collection;
- `MarksOK`: the scan stays in a set closed under the fields in which nothing is purple, so no object that it whitens leads to one that marking left alone;
- `FreesOK`: below the roots, what `cyc_collect_white` has freed leads to what stays for a reason, to what is freed, or to a visit still
  to be made, so with the stack empty no live object hangs below freed ones only;
- `Unborn`: storage that has not been allocated has no count and no fields.

After the final pass there are no candidates, no roots and no elements, and only the objects freed on their own count are left to hang below.

`BuildProofs` proves, for any number of builds and any versions:

- `FreshHits`: `CacheSpec => []SettledHitsAreFresh`;
- `CacheTypes`: `CacheSpec => []CacheTypeOK`;
- `BuildImplementsCache`: `BuildSpec => CacheSpec`, and with it `BuildsHitFresh`: `BuildSpec => []SettledHitsAreFresh`;
- `BuildsDecide`: `BuildSpec => []CachesNeverDecide`;
- `BuildsReapTemps`: `BuildSpec => []TempsReaped`.

The assumption is `NoFileAssumption` (neither a version, nor a compilation, nor a number is the missing file). What a hit needs, that an
entry's object is of what its list says, is established in two renames and does not
hold between them. `CacheInv` therefore adds what a build carries: the key it took
(`KeysAreTaken`), that the object it is about to install is of the files of now
(`WaitingObjectsAreCurrent`), and after the first rename so is the list on disk
(`WaitingListsAreCurrent`), each unless something caught the entry halfway; then
`ListMatchesObject` follows at the second rename. An edit makes the entries of builds in
flight suspect, and the others keep an object and a list that agree with one another.
`BuildInv` adds for each build where it is (`NativeWhere`), that a build past the cache has a whole object
(`ObjectReady`: a hit's entry is never removed, only replaced), that it has an executable exactly when no tool failed
(`ResultDecided`), and which temporaries each stage can have left (`TempsKnown`).

It also proves, for any versions and any number of promotions and edits, `ReusesAreRebuilds`: `ToolchainSpec => []ReuseIsARebuild`,
and `HostTrusted`: `ToolchainSpec => []HostRunsAreOurs`, from `NoFileAssumption`. `RuntimeLines` and `ModuleLines` say what is true of the lines that an emission
read before it dropped the stamp and of those it is about to write, at each step between; `PendingIsTrue` that the
line taken before a compile is what the compile has read so far, unless `caught`;
`IdsAreFresh` that the next identity has not been given to any file, promoted or not.

`BackendProofs` proves, for every module and every number of partitions, `EmissionWhole`: `EmissionSpec => []EmissionIsWhole`,
and `PartitionsLink`: `EmissionSpec => []SplitLinks`, from `UnitsAssumption`. `EmissionInv` has which half of the pipeline has run
at each stage (`HalvesRun`), what each object is made of (`ObjectsMade`), and `SplitReady`: every function has an owner, no function
that stayed local is called from another partition, and a local variable's users are all in one. The last is the work:
`promote_cross_partition_locals` and the assignment of owners establish it together.

Of `Linking`, for any libraries and names within `WellFormed`, `MergeTakesWhatIsReached`: `LinkingSpec => []MergeIsExact`: what the worklist takes is
what the program reaches, no more and no less. `Reached` is the least closed set of definitions. While the worklist runs (`ClosingOver`) every needed name is reached
or is one of the program's own, and what a needed name uses is needed unless the name is still to be read; with the
worklist empty the needed names are closed, so they contain `Reached`. `OnDemand` says the same of what the linker has taken from each module.

`FlatLoopProofs` proves, for every set of loops, `LoopsStayInBlock`: `~Aliased /\ FlatLoopSpec => []AccessesInBlock`,
and `LoopsArePlain`, the same for `LoopIsPlain`. `FlatLoopAssumption` has what a loop is made of and that `Int.MAX` is at least 2.
The hypothesis is about the source program, the run `memory` satisfies it, the code does not test it, and
the finding of the run `flat_alias` violates it. The index may count down and be assigned
anything. `LoopInv` has, at each statement:

- `RoomKept`: under the push guard, each list has room for the turns that are left times the appends of a turn, and for the
  appends that this turn has left (`Ahead`); the trip count alone is true only at the loop's head;
- `HoistKept`: a length and a block that were loaded once are those of the list, since no statement appends to it;
- `FactKept`: where a read relies on it, the index is below the list's length from the condition to its first
  assignment, and where it climbs not below zero, since the update does not wrap;
- `PlainKept`: the lengths are those of the turns and of the statements that have run (`Behind`).

Only model-checked, and why:

- liveness (`ImplementsChannel`'s fairness, `CloseEndsCalls`, `WaitsEnd`, `PoolFinishes`, `RequestsAnswered`):
  it needs fairness and `ENABLED`;
- `HitsAreFresh`, `HeaderReadsAreLive` and the other properties of runs that show a finding are false as they stand.

The type invariants of `Channel`, `Tasks` and `NativeCache` are proved and are in no run.

## Not modelled

- Lexer, parser, formatter, checker, code generation statement by statement: pure functions on text and
  trees, for which a model would be a second implementation. What the runtime relies on
  (a droppable binding is joined, a shared endpoint outlives its tasks, a list does not outlive its region) is stated as a guard.
- The contents of strings and of answers, sorting, the instructions that LLVM optimises.
- The Windows allocator and the MSVC link, the profile-guided rebuild, the freestanding runtime,
  process and file wrappers: system calls and command lines.
- The language server's manifests, its `initialize` and `shutdown` handshake, and the
  requests that need no index (formatting, completion, workspace symbols).
- The verify ledger, a debugging aid; the hash map, sequential code in the language itself.
- Two threads that await copies of one handle at the same time, containers owned by
  collected objects, and the collector's lock when the first thread is started
  (`cyc_leave` re-reads the thread flag).

Points at which the models stop, and which a reader of the code should know of:
`str_slice` adds `start` and `length` before it clamps; `aif_verify_realloc` takes the ledger's
lock three times; the curated module's key has neither its headers nor the clang
that compiled it; `write_text_file` checks neither `fputs` nor `fclose`;
`exports.txt` and `exports.list` are named after the executable only, so two builds of one
executable share them; a `.plib`'s offsets are read when it is registered and
used when its section is extracted; `runtime.hash` is written after the bitcode it is of;
a local name that is another thing in a later library module is shadowed in the symbol table, which
`WellFormed` excludes; and a closed document's diagnostics are withdrawn only by its first program's check.

## Plan

1. `CycleCollector` with several mutators, the lock's enter and leave, and objects that own
   containers of collected objects.
2. `LanguageServer` with manifests and with children that cannot be started, once
   what a waiting request may then expect is settled.
3. Proofs: `CollectorProofs` for a field store that empties the slot before it releases, which would remove `FullStores`
   from the hypothesis.
4. `std/map.psm` and the verify ledger (open addressing), each refining an abstract finite map.
