# A TLA+ model of rattle

rattle is a skeleton for small C daemons: modules that plug into *cores* (proc,
debug, test), a configuration and an argument parser that the modules declare
their settings to, a signal handler, and one container, `ratt_table_t`, that
every other part keeps its entries in. This directory models it in TLA+: TLC
checks the models on small instances, TLAPS proves every safety invariant that these
runs check, and all their action properties that are not liveness, for every size.

The code is in the middle of a refactoring and does not compile as it stands
(`RATTTABMAXSIZ` beside `RATTTABSIZMAX`, no `module.h`, no `log.c`, no `main`;
`src/core.c` is a copy of `src/module.c` with names replaced). The models follow
what the statements say, and where a name exists nowhere the one that plainly
replaces it.

All paths below are relative to the repository's root.

## 1. Inventory

| component | source | state | operations | interacts with |
|---|---|---|---|---|
| table | `modules/data/array/data_array.c`, `array.h` | array, fragment mask, size, cursor `pos`, `last`, `tail`, two counts, flags | create, destroy, push, insert, del_current, the cursor's moves, search | called by all the others |
| worker processor | `modules/proc/worker/proc_worker.c` | `l_worktab`, round-robin position, pool state; for each worker a state, a process table, two mutexes, a condition | on_register, on_unregister, on_start, on_stop, attach and detach, the thread's loop, its cancellation handlers | threads share the tables; processes call back |
| signal | `modules/signal/signal.c` | `l_sigtab`, one table of handlers for each signal, `l_wait_sigmask` | signal_register, signal_unregister, signal_wait, init, fini | handlers call back; the crash handler ends the program |
| module manager | `src/module.c` | `l_modtab`, `l_cortab`, a hook table for each core | init, fini, register, unregister, attach; core attach, detach and register | constructors, attach callbacks, args, conf |
| proc core | `modules/proc/proc.c` | `l_proc_hook`, its conf | attach, detach, register, start, stop | module manager; passes calls to the hooked processor |
| debug core | `modules/debug/debug.c` | the pipe, the child process | init, fini | module manager, signal |
| serial processor | `modules/proc/serial/proc_serial.c` | a process table | refuses every attachment | proc core |
| arguments | `modules/args/args.c` | `l_sectab`: for each section a table of named entries with the options found and the arguments declared | parse, register with binding, unregister, fini | module manager, configuration |
| configuration | `modules/conf/conf.c` | `l_cfg`, `l_args_conf_file`; the values and lists of the callers' declarations | init, fini, parse, release | arguments, cores, modules |
| test driver | `modules/test/test.c`, `entry.c` | table of tests | init, fini; the run is never reached | module manager |

What makes each of them correct, and where it is hard:

* **table.** Two counters, a bit mask, a tail pointer and a cursor describe the
  same array and every operation updates some of them. Deletion moves `last` and
  the cursor; insertion goes through the mask; growth moves the array and extends
  the mask. Long sequences of legal calls are where this can go wrong.
* **worker processor.** Threads with four kinds of lock, a condition variable,
  two cancellation points with clean-up handlers, processes that call back into
  the processor from the worker that runs them, and reads outside of any lock.
* **signal.** Handlers change the table that the dispatch loop is walking over,
  through the same shared cursor.
* **module manager.** Registration has five and attachment six stages, each with
  its own error path.
* **arguments.** The command line is read before anyone declares an option: what
  it gives must be kept by section and name, also when a section is left and
  taken up again, and be handed to the right part later, through the cursor that
  an insertion has left. Results of insertions are ignored.
* **configuration.** Declarations are parsed one after the other into memory that
  the caller owns, and whichever fails, those before it and what it has itself
  taken are released in reverse. `retval` is not set on each way out, the results
  of `set_value` are ignored for lists, and numbers are cut to three widths.
* **debug.** Its failure paths end in `module_core_detach` (section 4).

## 2. The modules

| module | what it is | source |
|---|---|---|
| `TableOps` | the operations of a table as operators on a record | `data_array.c`, `array.h` |
| `RattTable` | one table and an owner who makes any call in any order; its properties | the same |
| `SlotStore` | abstract: a store of numbered slots, what users of a table rely on | |
| `TableShapeProofs`, `TableOpsProofs` | lemmas about the operations of `TableOps` | |
| `RattTableProofs` | theorems about `RattTable` | |
| `ProcWorker` | the pool; each worker's table is an instance of `TableOps` | `proc_worker.c`, `proc.c:175-189` |
| `SignalTable` | registration and dispatch; instances of `TableOps` for both kinds of table | `signal.c` |
| `ModuleRegistry` | module manager and the two cores; instances of `TableOps` for the three kinds of table | `module.c`, parts of `proc.c`, `debug.c` |
| `ArgsSections` | the argument manager and those who register with it; each section is an instance of `TableOps` | `args.c` |
| `ConfParse` | the configuration on top of `ArgsSections`; each list is an instance of `TableOps` | `conf.c` |
| `ProcWorkerProofs`, `SignalTableProofs`, `ModuleRegistryProofs` | theorems about these three | |
| `ArgsSectionsProofs` | lemmas about the sections, whoever uses them | |
| `ConfParseProofs` | theorems about `ConfParse`, the properties of `ArgsSections` among them | |
| `MC...` | symmetry sets and the values of constants that are records or operators | |

**TableOps.** A table is a record with the fields of `struct ratt_table`. Pointers
into the array are slot numbers; `head` says only whether the memory is there,
absent or freed; `mask` is the set of bits that are on. A cell holds a chunk of
the caller, `Zero` (cleared) or `Junk` (never written). An operation returns
`[ok, at, t]`: its outcome, the slot it returned and the table it left; where it
asks the allocator for memory it returns the set of outcomes. `SlotBits` is the
number of bits in a slot of the mask, 8 in the code; smaller values let a small
table have several slots of mask. `Live(t)` is what the mask leaves visible.

**RattTable.** One action for each function that owners of tables call. Four more
are declared in `array.h` and called by push and insert, of which they are part:
`get_tail_next`, `get_frag_first`, `set_pos_frag_first`, `satisfy_constrains`. Of
these `conf.c` alone calls one itself, `get_tail_next`, with which it appends to
lists (`ConfParse`). `DoSearch` and
`Match` use the caller's comparison, `Matches`. `PushesEmptied` says whether the
owner ever appends to a table that it has emptied, `DirtyHeap` whether memory
from `realloc()` may hold anything, `AllocFaults` whether it may fail. Once
`realloc()` has failed halfway through a growth, `head` refers to memory given
back: what follows has no defined outcome, and the model goes no further than
creation and destruction from there (`Usable`).

**ProcWorker.** Each worker has a program counter over `worker_loop`: take the
lock, test the state and wait, take the table's lock, pick, turn idle, release,
check, read the attributes, push the clean-up handler, lock the process, call,
return. Each thread, the main one included, may be in a call, whose steps are
separated where locks are taken. What a thread does between two locks is one
step, except the reads of the process entry after its table's lock was released
and each read and write of the cursor of the worker table, which are steps of their
own since they race. `ratt_table_next` tests the cursor, reads it, writes it back
moved, and reads it again for the pointer it returns (`TestCursor`, `ReadCursor`,
`WriteCursor`, `FetchWorker`); `ratt_table_chunk` writes it and reads it again
(`PickChunk`, `PickWorker`). `on_start` and `on_stop` do so without
`l_worktab_lock`. Where the cursor is behind the last worker then, the pointer is
to NULL or to memory that is not the table's (`OnWorker`): `on_register` fails on
the one, `on_stop` passes over it, and any other use crashes the thread, which goes
no further in the model while the others do. A worker that reads an entry through a
pointer into a table that was reallocated, or that was cleared, gets any of the
values the memory may hold (`Reads`). `on_unregister` tests a variable that it
has not set: a choice. Wakeups may be spurious. The pool may be stopped and started
again (`Restarts`), and detached in any state. `detach_module` frees the memory
of threads that may still run: nothing is said of what they do afterwards.
`init_module` and `fini_module` create and destroy the worker table before and
after all of this, and have no action.

**SignalTable.** A chunk of `l_sigtab` is its signal number; its entry table is
beside it in `entry`. Dispatch is one action to begin (`Deliver`) and one for
each step between two handlers (`NextHandler`), and between these the running
handler may register, unregister others, or leave, as `HandlerOps` allows. With
`AllocFaults` there may be no memory for a table or its growth: the registration
fails, `signal_init` leaves all as it was, and the entry table of a signal that
`l_sigtab` has no place for is created and destroyed within one step
(`signal.c:185-188`). `DropSignal` takes from the mask, and destroys the tables
of, what its loop comes to (`Gone`): a slot that the mask of the table hides stays
as it is. `signal_wait` does not look at the result of `sigwaitinfo`; with
`Interrupts` an interrupted wait handles any number.

**ModuleRegistry.** `Register`, `Unregister` and `Attach` stand for the whole
functions with every error path. What an attachment gives a module, its parsed
configuration, its hook, its own state, its core, is a set (`holds`), and
`TakenBack` says for each stage what its label of the error path takes back.
Programs that dereference NULL end in `ended`. A module may register again: its
constructor and arguments come first, the constraint of `l_modtab` refuses it, and
the error path destroys what is registered (`RegisteredIsBuilt`, section 4).

**ArgsSections.** An argument is abstract: a section letter stands for `-X`, an
option for `-x`, and what else the code tells apart are words (`isalnum` first),
others, and what starts with a dash. `parse_args` is one action for each kind of
argument; between two of them nothing else runs, since `args_init` comes first.
`usrargs` and `sysargs` lie beside the table, by slot; a chunk is its entry's
name. `args_register` is one action: insertion, where the constraint may find the
entry instead, then `bind_args` on the entry under the cursor. Options that are
handed over before one fails stay so (`got`). The section tables are limited to
two entries, so that they fill up; memory for them does not fail.

**ConfParse.** `Worlds` is what the program may be started with: a command line,
who registers arguments, the declarations, the file as a function from paths to
settings, the length of the parent's path. `conf_parse` is one action for the call
and one for each turn of its loop; `retval` begins with any value, as in C. A
pointer to a string is the number of a block of `mem.heap`, which `strdup` takes
the lowest free one of and `free` returns; freeing what is not allocated sets
`mem.twice`. `Stored` and `ReadBack` are the `memcpy` of the low bytes and the
reader's type on a little-endian machine, the only kind that is modelled; on the
other, the first bytes of the number that `conf.c:212-218` copies are the high ones.
Any `strdup`, creation or growth of a list may fail (`AllocFaults`); that the second
allocation for a table fails after the first has succeeded, which leaves a head that
is freed, is a constant of its own (`HalfFaults`). A path that ends at the end of the buffer is looked up as itself or
as something that is not there. Declarations of single values have at most one
default, numbers may have a default that `atoi` reads as 0, and a part that has
parsed does not parse again before it releases: so it is at all calls in the
program. Released numbers keep their last value, as in the code.

## 3. What is checked

Runs that pass:

| run | shows | bounds |
|---|---|---|
| `table` | counters, mask, tail and contents agree (`Consistent`); a loop that deletes what it stands on ends with an empty table (`ForeachDrains`); search finds exactly what is there, from any cursor (`SearchExact`); a constraint lets nothing in twice (`NoDuplicates`); an insert reuses fragments; a write is all or nothing, and is refused only at the maximum size (`RefusedOnlyWhenFull`); moves end on chunks (`CursorOnLive`); the table implements `SlotStore` (`StoreSafe`) | created with 0, 1 or 3 slots and every set of flags, up to 5 slots over a mask of 2-bit slots: growth crosses a slot of the mask, and there are tables with several fragments before, at and after the cursor |
| `table_hostile` | `InBounds`, with nothing assumed: emptied tables appended to, dirty heap, failing allocations | up to 4 slots, one bit for each slot of the mask, where growth already leaves dirty bits |
| `pool_register` | no wakeup is lost, an idle worker has nothing to run, no circle of threads waits for each other, processes that share a lock never run together, that lock is released by whoever took it | two workers, one of two processes not thread-safe; one registration by the main thread and one by a process of each worker; start, stop, as many restarts as one likes, detachment and failing creation at any time: a process registers while `on_start` or `on_stop` moves the cursor |
| `pool_unregister` | no idle worker has work and nothing deadlocks with unregistration either, with tables that grow from 1 to 2 | two workers; two calls of the main thread, one of each worker's processes; start, stop and detachment at any time |
| `pool_live` | a registered process runs again and again until its worker is cancelled; a cancelled worker with nothing to run ends | two workers, three registrations of two processes: one worker has two of them |
| `signal_register` | mask, signal table and entry tables agree, no table is lost, no handler is registered twice | four signals, one refused; signal table from 1 to 3, handlers' from 1 to 2: both grow and both fill up; any allocation fails; one delivery, or an interrupt |
| `signal_dispatch` | all handlers run if none calls back; only registered ones start, each once; the handling ends | three handlers that may leave, two deliveries or interrupts, failing allocations |
| `module_attach` | no module is registered twice, what is built is registered, and a core is there with its module, whatever fails (`NothingLeftHalf`); what holds resources is what is hooked; proc has one module | six modules for three places, each registered any number of times; three cores for two places: every table can be full |
| `conf_parse` | options are counted and kept by section and name (`SectionsTally`); whoever registers gets exactly what the command line gives it (`BoundAsGiven`); the file is that of the last `-f` in its section (`FileIsLastGiven`); values read back as the file or the default has them (`ParsedAsDeclared`); each string is owned once, freed once, and by a failing parse always (`MemoryAccounted`) | command lines of up to three sections or options from ten forms and four endings, and of five from four forms; two calls of `args_register`, with two entries to a section; three lists of three declarations with every combination of eight settings for them, parsed twice and released, any `strdup`, creation or growth failing; numbers of 2, 3 and 5 bits for 8, 16 and 32, at and around each bound; paths at and over the length of the buffer |

Two workers are enough for the races of the pool: each is between one worker and
one caller, or two workers that share a process's lock or the cursor of the worker
table, and the third thread, the main one, is there in all runs. In the
configuration, three declarations put one before and one after that which fails,
and in the command line three pieces leave a section and come back to it, five an
entry. In the table every operation touches at most the slots next to `last`, `pos` and the first
fragment, all of which can differ with five slots.

Fairness. `ProcWorker!FairSpec` is weak fairness of each worker's loop, of each
thread's call and of the main thread's call: a thread that can go on is scheduled
some time, and a process that runs returns. It does not include spurious wakeups, new
calls (registration, start, stop, detachment), or a running process meeting a
cancellation point. No strong fairness is
needed of mutexes in these runs: the worker releases the lock before it asks
again, and the threads that compete for it are in finitely many calls.
`SignalTable!FairSpec` says that a handler returns.

Deadlock checking is off where the program may come to rest: the calls of the
pool are bounded and idle workers wait; a crashed or finished program stops.
`NoDeadlock` states what a deadlock among threads is, by the circle of locks.

Every property of a passing run has a mutant of the code, an operator named
beside the original (for example `GetFragFirstKeepsBit`), with which that run
fails.

## 4. Where the code and its own words disagree

Runs that end in a violation:

| run | what TLC finds |
|---|---|
| `table_emptied` | `ratt_table_get_tail_next` takes slot 0 of an emptied table and leaves its bit on: a chunk is stored in a slot that the mask calls free, and `next` and `search` pass it over |
| `pool_ghost` | `worker_loop` uses a process entry after it released the table's lock; an unregistration in between makes it the "ghost process" that "should not happen" |
| `conf_mandatory` | `conf_parse` leaves its loop at a missing mandatory declaration without setting `retval`: it returns OK when the declaration before was fine, and that one and those after it have no value |

More of them, which follow from these or show at the first call. Each is stated
in its module and has a configuration that shows it:

| property | configuration | what happens |
|---|---|---|
| `FragBitMeansFree` | `RattTableDirtyHeap.cfg` | `realloc_and_move` clears the bytes of the mask after that of `last`, as many as it grew by: if `last` is not in the old mask's last byte, the end of the new mask stays as `realloc()` returned it |
| `CoreDetachReturns` | `ModuleDetach.cfg` | `module_core_detach` dereferences a core through the chunk that it has just cleared |
| `MemoryAccounted` | `ConfFaults.cfg` | the head of a list whose creation failed halfway is freed again by `conf_release_reverse` |
| `PathTerminated` | `ConfPath.cfg` | a path that fills the buffer has no NULL byte after it, as the room for the `/` is not counted |
| `InsertFailsOnlyWhenFull` | `RattTableFull.cfg` | every insert into an emptied table fails |
| `DestroyFreesOnce` | `RattTableFaults.cfg` | head freed by a failed creation is freed again by destroy |
| `NTSExclusive` | `PoolExclusive.cfg` | with unregistration, the two reads of `proc->attr->lock` may give two locks: one is taken, the other released |
| `StartReachesAll` | `PoolSkipped.cfg` | a registration moves the cursor of the worker table under `on_start`, which then leaves a worker out |
| `AssignedEvenly` | `PoolUneven.cfg` | `on_start` moves the cursor between the two uses that `ratt_table_chunk` makes of it, and `on_register` gets another worker than its turn: one has two processes more |
| `WorkerIsThere` | `PoolNull.cfg` | in the same way `on_register` gets a pointer behind the last worker ("worker is gone; should not happen", `proc_worker.c:433`) |
| `NoGoneWorker` | `PoolGone.cfg` | after `on_stop` a registration picks a worker that has ended |
| `CleanedBeforeDestroy` | `PoolDetach.cfg` | workers are freed while their threads may run |
| `RegisteredIsFound` | `PoolData.cfg` | a process registered with user data is never found again |
| `HandledIsRegistered` | `SignalMissed.cfg` | after the last signal was unregistered, one of the next two is waited for and never found |
| `RegisteredIsBuilt` | `ModuleTwice.cfg` | a module that registers again is refused by the constraint after its constructor ran; the error path unregisters its arguments and runs its destructor, and it stays registered |
| `NamesPresent` | `ModuleNames.cfg` | the search after an unregistration compares the cleared entry |
| `UnloadDestroys` | `ModuleUnload.cfg` | unloading clears entries before it looks at their destructor |
| `ProcHookIsModules` | `ModuleHook.cfg` | hook chunks are as long as a pointer, the hook is read beyond |
| `FullNameFound` | `ModuleFullName.cfg` | a module whose name is one letter after the prefix is not found by its full name |

Because of them several runs restrict what they enumerate, and say so in their
constants: `PushesEmptied = FALSE` (an owner who does not append to an emptied
table), `pool_register` and `pool_live` without unregistration, handlers that
unregister no one but themselves in `signal_dispatch`, `Unregisters` with only
modules that are not attached, `HalfFaults = FALSE` in `conf_parse`.

## 5. What is proved

Each theorem holds for every value of the constants that the assumption of its
module allows: any sizes of tables, any width of the mask's slots, any number of
workers, callers, processes, signals, handlers and modules, any comparison, any
command line, declarations and file.

| module | theorems about |
|---|---|
| `TableShapeProofs` | lemmas: types and bounds of what each operation of a table leaves, the arithmetic of the mask |
| `TableOpsProofs` | lemmas: what each operation does to the entries, counters, mask and cursor of a table that is sound |
| `RattTableProofs` | `RattTable`, as the owner of one table |
| `ProcWorkerProofs` | `ProcWorker`, with lemmas on tables for the processes of each worker |
| `SignalTableProofs` | `SignalTable`, the same for the signals and their handlers |
| `ModuleRegistryProofs` | `ModuleRegistry`, the same for the modules, the cores and the hooks |
| `ArgsSectionsProofs` | lemmas: what the command line means to a section, and that parsing, registering and unregistering keep to it |
| `ConfParseProofs` | `ConfParse`: the argument manager in it, the file, the memory of the declarations and what is read there |

Where a theorem needs more than `Spec`, its hypothesis is given here and justified
below. A hypothesis on the behaviour (`[]H`) is stated in the theorem as such.

The table, for a `Careful` owner except where it says otherwise:

| theorem | property | further hypothesis |
|---|---|---|
| `TypeCorrect` | `TypeOK` | not even `Careful` |
| `NeverOutOfBounds` | `InBounds` | not even `Careful` |
| `AlwaysConsistent` | `Consistent` | |
| `LoopsDrain` | `ForeachDrains` | |
| `TableIsStore` | `StoreSafe`: `RattTable` implements `SlotStore` | |
| `SearchIsExact` | `SearchExact` | `BlankMatchesNone` |
| `ConstraintHolds` | `NoDuplicates` | `BlankMatchesNone`, `MatchesBothWays` |
| `CursorStaysOnLive` | `CursorOnLive` | |
| `WritesAreAtomic` | `WriteAllOrNothing` | `BlankMatchesNone`, `SettlesEqual` |
| `InsertReuses` | `InsertReusesFragment` | |
| `RefusedWhenFull` | `RefusedOnlyWhenFull` | a constraint that is met answers OK |

The pool:

| theorem | property | hypothesis |
|---|---|---|
| `PoolTypeCorrect` | `TypeOK` | |
| `WakeupsAreNotLost` | `NoLostWakeup` | |
| `IdleMeansEmpty` | `IdleHasNoWork` | |
| `NoCircularWait` | `NoDeadlock` | `OneLock` |
| `NoCircularWaitUndisturbed` | `NoDeadlock`, until the pool is detached | `[]Undisturbed` |
| `LockIsReleased` | `NTSLockReleased` | `[]Undisturbed` |
| `UnsafeExclude` | `NTSExclusive` | `[]Undisturbed` |

Signals, all under `~PushesEmptied`:

| theorem | property | further hypothesis |
|---|---|---|
| `SignalTypes` | `TypeOK` | |
| `WaitedForIsRegistered` | `MaskIsRegistered` | |
| `TablesAreKept` | `NoTableLost` | |
| `RegisteredOnce` | `HandlerOnce` | |
| `WaitedForIsFound` | `HandledIsRegistered`, which `SignalMissed.cfg` violates without the hypothesis | |
| `EveryHandlerRuns` | `AllHandlersRun` | |
| `LeavingIsSafe` | `StartsRegistered` | `HandlerOps \subseteq {"leave"}` |

Modules:

| theorem | property | hypothesis |
|---|---|---|
| `RegistryTypeCorrect` | `TypeOK` | |
| `RegistryIsConsistent` | `NothingLeftHalf` | |
| `LoneCoreHasOneHook` | `LoneHasOne` | |
| `AttachedHoldsAll` | `AttachedIsHooked` | `KeepsAttached` |

Arguments and configuration:

| theorem | property | hypothesis |
|---|---|---|
| `SectionsTallyAlways` | `SectionsTally` | |
| `BoundAsGivenAlways` | `BoundAsGiven` | |
| `FileIsLastGivenAlways` | `FileIsLastGiven` | |
| `ConfTypeOKAlways` | `ConfTypeOK` | `HalfFaults = FALSE` |
| `MemoryAccountedAlways` | `MemoryAccounted` | `HalfFaults = FALSE` |
| `ParsedAsDeclaredAlways` | `ParsedAsDeclared` | `HalfFaults = FALSE`, `[]PathTerminated` |

### The hypotheses

* `Careful`: the owner does not append to a table that it has emptied, memory
  from `realloc()` is clear, and allocations succeed. `RattTable*.cfg` and
  `table_emptied` show that each of the three is needed. The pool and the module
  manager insert, and the insertion into an emptied table fails instead, so that
  they need no hypothesis of this kind; the signal manager pushes, hence
  `~PushesEmptied` (no signal is registered after the last one went).
* `BlankMatchesNone`, `MatchesBothWays`: the caller's comparison finds nothing in
  a cleared chunk, and is symmetric. The comparisons of the program are equality
  of a name or a number, and only the argument manager looks for NULL, the name
  that a cleared entry has as well.
  `SettlesEqual`: if `on_constrains` answers OK, what matches is the same chunk;
  otherwise the OK of a push that kept the old chunk would say little.
* `OneLock`: all processes that are not thread-safe share one lock.
  `Undisturbed`: no process is unregistered and no table of processes has grown.
  One of the two is needed: when the entry that a worker reads is moved or
  cleared, the worker takes one lock and releases another (`PoolExclusive.cfg`),
  and then waits for one that nobody gives back. Detachment cancels workers at
  any point and destroys what they hold, so that after it only `OneLock` helps.
* `HandlerOps \subseteq {"leave"}`: a handler unregisters only itself. One that
  unregisters others shares the cursor of the loop that runs it.
* `KeepsAttached`: what is unregistered while the program runs is not a module
  that a core may have hooked. `module_unregister` does not look, and leaves the
  hook.
* `HalfFaults = FALSE`: of the two allocations for a new or growing table the
  second does not fail after the first has succeeded. After that
  `conf_release_reverse` frees what the failed creation has freed
  (`ConfFaults.cfg`). Every other failure of `strdup`, `ratt_table_create` and
  a growth is covered by the theorems.
* `PathTerminated`: each path that is looked up ends in a NULL byte. One that
  fills the buffer does not (`ConfPath.cfg`), and what libconfig then finds need
  not be what the file has for the declaration. The hypothesis holds throughout
  in the run `conf_parse`, paths that are too long for the buffer included.

The assumption of `ArgsSections` says that the kinds of arguments are disjoint and
that `Zero` and `Junk`, what a cleared and an unwritten cell hold, are no names;
that of `ConfParse` that sequences are finite, that a single value has at most one
default, as `RATT_CONF_DEFVAL` gives it, and that the default size of a list is
within the maximum. Widths are any positive numbers, and
a string is anything.

The assumption of `ModuleRegistry` also says that no core module is named `proc`
or `debug`. No module of the tree has a core of its own; the constraint of
`l_cortab` would refuse a second core of the same name.

### The arguments

*Table.* `InBounds` is not inductive: that `tail <= last` survives a deletion
needs that `last` was moved onto a slot below, that the mask's bits stay inside
needs the relation of the mask's length to `size`, and all of it needs the type of
the contents. `Shape(t)` is the conjunction of these; it is preserved by each
operation, from one lemma for each (`MovesKeepShape`, `DelKeepsShape`,
`GrowKeepsShape`, `WriteShape`, ...), which rest on the arithmetic of the mask
(`MaskCovers`, `MaskGrows`). `Sound(t)` adds that an existing table is `Good`:
bounds, exact mask, exact count, tail on last, exact cells. Its counting conjuncts
rest on lemmas about the number of used slots when `last` moves by one or a bit
changes (`UsedExtends`, `UsedShrinks`, ...). From `Sound` follows what each
operation does, in terms of the entries alone: `Kept`, `Gained`, `Lost`, `Written`,
`Alike`. These are what all other proofs cite. `LoopsDrain` is an induction over
the turns of the loop, as a statement on sets of naturals: the slots left are
those below the cursor. `DistinctInv` adds `NoDuplicates` to `Sound`: the search
that precedes a write is exact from wherever the cursor is.

*Pool.* `Flow` has the types and what the program counters of a worker and of a
call say together (`Place`, `Phase`). `Tables` has `Sound` of every worker's
table. `LockInv` says of each lock of the pool exactly which program points hold
it. With it, every change of a process table is under its lock, and `IdleInv`, that
a worker that is idle or about to be has an empty table, is inductive: `PoolInv`
is the four together. The locks are taken in one order, a process's own lock
first, then a worker's or the worker table's, then that of a process table; a
circle of waiting threads has no last lock, except through locks of processes,
which is where the two hypotheses come in. `OneInv` says that the worker that has
the one lock is at the call. `SteadyInv` says that the entry a worker points to is
still the one it read, so that the lock it holds is the one in the entry.
None of this
depends on where the cursor of the worker table is, which any thread may have moved.

*Signals.* `Recorded` says that the mask is the set of the table's signals, that
each signal has one chunk, and that the tables of handlers are where the signals
are, with at least one handler and none twice. `HandleTypes` says of the signal
that is handled that its chunk is there or was given up. Each error path of
registration leads back to `Recorded`. `RunInv`, while no handler has called back: the handlers after the
cursor have run, the one it is at runs. `StartInv`, while handlers only leave: what
lies before the cursor has not run.

*Modules.* `RegInv` has each table sound and one entry for each module; `l_cortab`
and `l_modtab` come and go together; the table of a lone core has one slot and the
flag that forbids it to grow; and `Constructed`: what is built is
registered, and the cores of core modules come and go with them. `AttInv` says that each module is hooked once, that hooked modules are
registered, that they hold all and know their core. It is not inductive by itself:
that an attachment finds the module it was asked for, and not a stale entry,
needs `RegInv`. Every action but `Attach` leaves entries and hooks alone
(`EntriesKept`, `HooksKept`), or takes away an entry that `KeepsAttached` allows.

*Arguments.* `MeantIn(s)` is what the part of the command line read so far means to
section `s`: for each name and option, how often it was given and its last
argument. `ArgsInv` says where parsing is and which section and name that position
belongs to (`PositionInv`); that each section's table is sound and holds each name
once, with exactly what is meant by it, and that nothing is meant by a name
without an entry unless the table is full (`Tally` in `SectionsInv`); and that the
last call of `args_register` answered what is meant by its section and name, if
there was an entry for them or room for one (`CallInv`). An option that is read
adds the greatest position to a finite set, so that its count goes up by one and
its last argument is the new one (`MeantFacts`). Registration inserts, or the
constraint finds the entry instead: both ways lead to one entry under the cursor.
`FileInv` ties the file to what is meant by the configuration's `-f`.

*Memory.* `Sane(m)` is the shape of the memory of all declarations and `Tidy`: each
pointer, whether at a value or in a slot of a list that is in use, refers to a
block that is allocated, each block has a pointer, and no block has two
(`Accounted`); each list is absent or a `Line`, a table without fragments.
`Accounted` alone is not inductive: that `strdup` and a release keep it needs to
be known which declarations hold nothing (`Clear`), so that what is written over
was NULL. `ParseInv` says that between two turns of `conf_parse` all
declarations from the current one on are clear, and outside of a parse all are,
unless it returned OK. Each operation touches one declaration (`Only`) and keeps
the strings of the others (`HeapKept`); `Outcome` sums this up for the operations
that set a declaration. The loops over a list, over defaults, over the file's
elements and over declarations are recursive functions: for each there is a lemma
that the function exists (`FreeRunsExist`, `DefaultRunsExist`, ...), and what it
does is an induction over the set of naturals that it has come to.

*Values.* A number that `check_num` accepts is read back from its low bytes
(`ReadBackFits`, from `TwoTo(n) = 2 * TwoTo(n - 1)`), and so is a string from its
block (`Exact`). `Lists(m, k, n, want)` says that a list holds the first `n` wanted
values in order, or NULL for a string that could not be copied. A list that takes
elements of the file never grows, as it was created with their number and those
out of bounds only leave room; that `set_value` refuses an element therefore means
that it does not fit. `ReadInv` says that all declarations before the current one
have what is wanted (`Got`) and did not stop the parse, and after an OK that this
is so up to the declaration that stopped it, if one did. It is kept by the turns
of `conf_parse` only together with `ParseInv`.

### Model-checked only

* Liveness: `RegisteredRuns`, `IdleWorkerEnds`, `HandlingEnds` rest on fairness,
  which the prover does not treat.
* The violations, which are counterexamples by their nature.

## 6. Not modelled, and why

* The serial processor: `attach_module` returns FAIL without condition
  (`proc_serial.c:173`), so that none of its handlers is ever called.
* Loading of shared objects: the calls are commented out (`module.c:96-104`).
* The test driver: `test_init` returns before it registers or runs a test
  (`test.c:245`), and what it calls before that is defined nowhere.
* The pipe and the child of the debug core: nothing is read from the pipe or
  written to it, and both ways to `destroy_pipe` end in the crash of
  `module_core_detach`.
* `ProcWorker` under the proc core: the hook that `proc_attach` keeps is read
  beyond the end of a chunk (`ProcHookIsModules`), so that no call gets through to
  the pool in a program built from this code. `ProcWorker` models the pool as its
  callers are meant to use it.
* `conf_open_builtin`, which has no caller, and libconfig itself.
* `src/core.c`: not code that could be compiled.
* Logging, output for the user, the version, the tests of the table themselves
  (`RattTable` makes their calls in every order), the trace module (no state).
* Signal masks of threads and the alternate stack. SIGSEGV ends the program.
* In `ratt_table_t`, sizes beyond `unsigned int`: `RATTTABSIZMAX` keeps the
  sizes far from its end.

## 7. Plan

`ModuleRegistry` over `ArgsSections`: the sections that failing registrations leave
behind, in place of the set of resources.
