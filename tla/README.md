# A verification project for toywasm

toywasm is a WebAssembly interpreter in C. This directory keeps TLA+ models of
the parts of it that are hard to test, the TLC configurations that check them
on small instances, and proofs that the TLA+ proof system checks for every
value of the constants. `PROJECT.json` lists the components, the runs, which
definition models which lines, the hazards each property is for, and what the
checks found.

## 1. Inventory

| component | state it keeps | operations | what is hard about it |
|---|---|---|---|
| cluster and suspend protocol (`lib/cluster.c`, `lib/suspend.c`) | `nrunners`, `nparked`, `suspend_state`, `interrupt`, two condition variables | add/remove/join of threads, interrupt, `suspend_threads`, `resume_threads`, `suspend_parked` | one condition variable with three kinds of waiters, a test without the lock, threads that come and go during a suspend, one suspend after another |
| wasi-threads (`libwasi_threads/wasi_threads.c`, `lib/idalloc.c`) | thread ids, the propagated trap, the exit code | spawn and its undo, trap and `proc_exit` propagation, join, completion | several threads trapping at once, failure between two steps of a spawn, reuse of an instance for a second execution |
| shared memory (`lib/exec_insn_subr.c`, `lib/shared_memory.c`) | size, allocation, base pointer, a lock | load/store, `memory.grow` | the base pointer moves; size read before the suspend and used after it; failure with everybody stopped |
| atomic wait/notify (`lib/waitlist.c`, `memory_wait`, `memory_notify`) | a table of waiter lists, each waiter's flag | wait, notify, restart of a wait | notify against timeout, waits split in short intervals, restarts that must keep the deadline |
| wasi descriptor table and the calls that use it (`libwasi/wasi_table.c`, `wasi_fdinfo.c`, `wasi_abi_{fd,path,sock,poll}.c`) | slots, reference counts, a lock and a condition variable | lookup/release, add, `fd_close`, `fd_renumber`, calls with one or two descriptors, `fd_readdir`, `path_open` and `sock_accept`, `poll_oneoff`, `add_hostfd`, clear | close drains the users; the struct may be gone after the wait; two closers; renumber of a used descriptor |
| interpreter loop (`lib/exec.c`, `lib/restart.c`, `lib/host_instance.c`) | frames, labels, operand stack, pending event, restart information, jump caches | instructions, calls, branches, exceptions, restarts, calls from host functions | an instruction unwound in the middle and executed again; nested host calls; caches keyed by a pc without a module |
| instructions (`lib/insn*.{c,h}`) | none of their own | the wasm instructions | control and exception instructions; the rest is arithmetic |
| validation (`lib/validation.c`, `lib/expr.c`) | value and control stacks, jump table, stack bounds | one step per instruction | the interpreter trusts the jump table, `maxlabels` and `maxcells` blindly |
| module loader and writer (`lib/module.c`, `lib/decode.c`, `lib/module_writer.c`) | the module, the load context with the references and the count of data segments | `module_create`, one step per section, checks at the end, `module_destroy`, `module_write` | counts of two sections that must agree, checks that only a later section can settle, allocations that fail anywhere and are freed with the number of elements, a writer that must invert what the reader normalised |
| instances (`lib/instance.c`, `lib/import_object.c`, `lib/shared_memory.c`, `lib/dummy_host_func.c`) | instances, import objects and the functions, tables, memories and globals they share | create, resolve imports, initialise, execute the start function, destroy | failure half way, pointers that nobody counts, segments written into tables of others before a failure, imports that match by a size that changes |
| tables, globals, cells (`lib/cell.c`, `lib/exec_insn_subr.c`) | tables, globals | grow, init, copy | references that outlive their instance |
| userland scheduler (`lib/usched.c`) | a run queue | enqueue, run, need-resched | fairness, a thread that is on the queue twice or never |
| time and locks (`lib/timeutil.c`, `lib/lock.c`) | none | timespec arithmetic | overflow |
| wasi poll and clock (`libwasi/wasi_abi_poll.c`, `wasi_poll_subr.c`) | a saved deadline | `poll_oneoff`, emulated blocking | restart of a timed operation |
| other wasi calls, vfs, host operations | host state | one host call each | pure I/O |
| littlefs (`libwasi_littlefs/`) | a mounted file system, its lock, open files | the vfs operations, mount, unmount | unmount against open files |
| dynamic linker (`libdyld/`) | loaded objects, the end of memory and table, GOT and PLT entries, handles | load with needs, allocate, resolve, relocate, init functions, load and lookup by the program | cycles of needs, loads in the middle of loads, early and late binding that must agree, a memory that the program grows, objects left by a failed load |
| command line and repl (`cli/`) | the modules, the list of import objects, registered names, WASI | load, register, invoke, reset, exit, options | undo of every step of a load, the order of destruction, timeouts and restarts |
| containers and accounting (`lib/vec.c`, `lib/mem.c`) | sizes, `allocated` and its limit | reserve and undo through a chain of contexts | concurrent reserve at the limit |
| logging, reports, statistics | none | output | nothing to check |

How they interact. A thread executes the interpreter loop. The loop calls
`check_interrupt` every `check_interval` instructions, and so do the host
functions and instructions that block (in pieces of at most
`check_interrupt_interval_ms`). `check_interrupt` looks at the cluster:
`interrupt` set means a thread-local trap, `suspend_state` STOPPING means a
restartable error that unwinds the C stack to
`instance_execute_handle_restart_once`, which calls `suspend_parked` and then
continues the execution. `memory.grow` of a shared memory is the client of the
suspend protocol. `wasi_threads.c` adds threads to the cluster, removes them,
sets `interrupt` when one traps, and joins the others when the main thread
ends. Blocking operations (`memory.atomic.wait`, `poll_oneoff`, the drain of
`fd_close`) have to survive being unwound and executed again. Before any of
this `repl.c` (or an embedder) loads modules with the loader, makes import
objects of instances and of WASI, and instantiates modules against the list of
them, the newest first; with `--dyld` the dynamic linker loads the objects of
a program, gives each its part of one memory and one table, and binds them.

## 2. Modules

| module | models | composition |
|---|---|---|
| `StopTheWorld` | what `suspend.h` promises: a lock whose holder is the only active thread | abstract |
| `Suspend` | `cluster.c`, `suspend.c`, and the life of threads in `wasi_threads.c` as far as the cluster sees it | implements `StopTheWorld` |
| `SharedMemory` | `memory_grow_impl` and `memory_instance_getptr2` on a shared memory | `EXTENDS Suspend`; its client steps replaced by the grow |
| `WasiThreads` | ids, traps, exit codes, completion | `EXTENDS Suspend`; each step is a step of `Suspend` and what `wasi_threads.c` adds |
| `WaitList` | `waitlist.c`, `memory_wait`, `memory_notify` | stands alone: the memory word, the waiters, the clock |
| `WasiFdTable` | `wasi_table.c`, `wasi_fdinfo.c`, the fd, path, socket and poll calls, `add_hostfd`, `prestat_add` | stands alone |
| `Validation` | the validation of function bodies: `validation.c`, `read_expr_common`, the validating half of the instructions | stands alone; its result is the input of `Exec` |
| `Exec` | `exec.c`, `restart.c`, `host_instance.c`, the executing half of the instructions | `EXTENDS Validation`: it executes what was validated |
| `Load` | `module.c`, `decode.c`, `load_context.c`, constant expressions, `mem.c` as the loader uses it | stands alone |
| `ModuleWriter` | `module_writer.c` | `EXTENDS Load`: what is written is read again with it |
| `Link` | `instance.c`, `import_object.c`, `shared_memory.c`, `dummy_host_func.c`, the commands of `repl.c` and `main.c` | stands alone; a module is what `Load` accepts, execution is reduced to what changes tables, memories and references |
| `Dyld` | `dyld.c`, `dyld_plt.c`, `dyld_dlfcn.c` | stands alone; instantiation is a step that succeeds or fails |
| `SuspendProofs` | theorems about `Suspend`, with the refinement of `StopTheWorld` | `EXTENDS Suspend` |
| `ClientProofs` | theorems about `SharedMemory` and `WasiThreads` | extends `SuspendProofs`, too: the threads of both take steps of `Suspend` |
| `WaitListProofs`, `WasiFdTableProofs`, `ExecProofs`, `DyldProofs` | theorems about `WaitList`, `WasiFdTable`, `Exec` and `Dyld` | each extends its module |
| `DyldOrderProofs` | the theorem about the init functions of `Dyld` | extends `DyldProofs` |
| `Induction` | induction over natural numbers, as facts about sets of them | used by the proofs |
| `MC*` | a module for TLC for each of the above | |

Conventions. One step is one critical section of the lock that protects the
state, or one access to an atomic field outside it; a wait on a condition
variable ends a step, and what the thread does once it has the lock again is a
step of its own, enabled by a broadcast, a signal, a timeout or a spurious
wakeup. `pc` says where a thread is. C assertions do not stop a model (they do
not stop a Release build); where one says something about the protocol it is a
property. (`Dyld` and `Link` are the exception: they record a failed assertion
or a use of freed memory as a fault, and the behaviour ends there.) Definitions keep the names of the code; an operator `X_Y` before `X`
is a mutated `X`, used only to show that a property can fail.

`Suspend`. `nrunners`, `nparked`, `suspend_state`, `interrupt` are the fields
of `struct cluster`; `waiting` is the set of threads blocked on `stop_cv`,
`joinwait` says that the main thread is blocked on `cv`. `parked()` is
`ParkedEnter` up to its wait and `ParkedWake` after it; `suspend_threads` is
`SuspendRetry`, entered from the program, from its own `parked()` and from its
wait for the end of the previous resume; `suspend_parked` is `SuspendParkedTest`
(without the lock) and `SuspendParked` (with it). Thread identities are not
reused: a spawn takes one that is `new`. The main thread may execute again after
a join, as an embedder may. The pthread build is modelled; the userland
scheduler runs one thread at a time and has no suspend protocol.

`SharedMemory`. `gen` names the buffer `data` points to, and a pointer returned
by `memory_getptr` is the generation it points into, held until it is used.
`gpc` is the place in `memory_grow_impl`. A grow that finds a changed size
after the suspend goes back to `retry` as the code does, without resuming.

`WaitList`. `left` is what is left of the absolute timeout, so that `Tick` is
the only clock; `tv` is the end of the present short wait. `memory_wait` is one
step up to the wait, one step from the wakeup on; a restart keeps the deadline
in `left` (`saved` is `RESTART_TIMER`). `ATOMICS_NLISTS` is 1 in the code, so
there is one lock.

`WasiFdTable`. `ref1` and `ref2` are the pointers a call holds, `fresh` is the
struct it makes and that no slot names yet. The lock is held over both halves of
`fd_renumber` and while `fd_readdir` reads, which `LockFree` says. The calls are
told apart by what they do with descriptors (`Uses`): one descriptor for a short
time, one for as long as `emulate_blocking` waits, two directories (`path_link`,
`path_rename`), several subscriptions of `poll_oneoff` (some of which may not
exist), a new file by way of a directory or a socket. `Begin` is the lookup,
`EndUse` any end of what follows it, an interrupt included, `CallRelease` and
`CallRelease2` the releases at the end. `Garbage` is what a pointer holds that
the code does not initialise.

`WasiThreads`. A trap is set in the `exec_context` first (`ctxtrap`) and
propagated in a later step, so other threads get in between. `first` and
`explicit` are history variables.

`Validation`. `vctx` is `struct validation_context`; each instruction is one step
`ReadInsn`, which applies the validating half of the instruction (`Validate`) to
it. The result, `ei`, is `struct expr_exec_info`: jump table, `maxlabels`,
`maxcells`, type annotations. What may be read is a constant: a file gives for
every place of a body the set of instructions it is taken from, so TLC
enumerates the programs, and validation rejects the bad ones. A position is that
of a byte; an instruction has one byte, or two if it has an immediate, so that
positions inside instructions exist (the cache key of an `else` is one). `seen`
is history: what validation knew before each instruction.

`Exec`. The variables are the fields of `struct exec_context`. A step handles
the pending event or executes one instruction, in the order of the loop of
`exec_expr_continue`; `ret` is what the loop returned, and `Continue` is the
embedder's call of it again. The call of a tail call is the step after
`ReturnCall`. Values are abstract: a cell says which half of a value of which
type it is, and the outcome of a condition is a choice; an exnref is its
parameters, unused cells and a cell for its tag. `above` names the cells just
above the stack pointer that a host function may still read: the results of the
function it called. A host function may return, trap, restart with or without a
deadline (`poll_oneoff`), call back (`schedule_call_from_hostfunc`) or hand the
call on (`dyld_plt`), within the usage that `restart.c` describes.
The build is the default one: small cells, separate locals, the jump cache
with several entries, with tail calls and exceptions enabled. Every function is
in a module of its own. The owner and the callee in restart information are
history.

`Load`. `lctx` is `struct load_context` with the module and the heap, `secs` are
the sections read so far; `ReadNextSection` picks a section of the file and
applies its reader, so that TLC enumerates the files. A section is its items,
already decoded; a malformed field is a value out of its range. Readers are
compositions of steps that pass an error on, as the code's `goto fail` does. A
block of the heap is named by the field that points to it and by the number of
its elements, so that freeing it with another number is a fault, and any
allocation may be the one that fails. `VerdictIsRight` compares the verdict with
the rules, stated over the whole file (`Read`) and not section by section; where
the loader is stricter than it says, the rules are the loader's, and a property of
its own states what it says (`UnknownSubsectionsSkipped`, section 5). The build has every proposal (threads,
exceptions, custom page sizes, several memories, SIMD) but extended constant
expressions, and the dynamic linker; it sorts exports.

`ModuleWriter`. `ModuleWrite` makes the sections of a module; `SemanticCopy`
reads them again with the readers of `Load`. `SaveModule` is a step of either
build: one with assertions ends at the first that fails (`AssertionsHold`), in
one without what has no case in a switch is not written. So `SemanticCopy`, where
an assertion fails, is about builds without them.

`Link`. `w` is `struct repl_state` with everything reachable from it. An object
is named by its kind, the load that created it and an index; objects that are
freed leave the heap, so a dangling pointer is one outside of its domain. A
command is one step, as in the code, where the commands are sequential; the
steps inside it are operators that pass the world on, with the undo of each
failure. What a function does is one of a few operations (nothing, trap, loop
until the timeout, call, `call_indirect`, `table.grow`, `table.init`,
`memory.grow`), to the depth `Fuel`. `abandoned` is history: a load failed after
it had begun to initialise the instance.

`Dyld`. `d` is `struct dyld`; `calls` is the stack of loads in progress, since
the code that an init function runs may load more objects. A step of the linker
is one turn of one of the loops of `dyld_load` (the object to load or to look
at is `at`, the import or the need is `k`, the directory `dir`), and the
recursion of `tsort_visit` is the stack `path`; the program's steps are a call
through the PLT, `memory.grow`, `load_object`, `resolve_symbol` and its return.
An operation of the code that can fail is an operator that gives the new
`struct dyld`, an address and an error (`Result`); `After` goes on with the next
operation unless the last one failed. GOT and PLT are indexed by the import that
each entry is for. Addresses are computed modulo `Space`, the width of
`uint32_t`. `slots` is the vector of handles, which the code may have moved.
`ran` and `load` are history.

## 3. Runs

Three of the twelve runs are expected to end in a violation; each of those is
a disagreement between the code and an assertion or a document, and is listed
under findings.

| run | instance | checks |
|---|---|---|
| `suspend` | main thread and 3 others | `WorldStopped`, `CountersAgree`, `NoLostWakeup`; the refinement of `StopTheWorld`; `SuspendCompletes`, `ParkedReleased`, `JoinCompletes` |
| `grow` | 3 threads, all may grow, 1 to 3 pages | `NoStalePointer`, `AllocationMatchesSize`, `SizeOnlyGrows`, `GrowReturns` |
| `grow_two_growers` | 2 threads | violation: a retried grow parks itself |
| `wait` | 3 threads, 1 address, timeout of 2 intervals | `ListsMatchWaiters`, `WakeupsConserved`, `NeverEarly`, `TimedWaitEnds`, `ChangeIsSeen` |
| `fd` | 3 threads (1 makes every call, 2 read, write and close), 2 files, 2 descriptors, 1 reserved, uninitialised pointers null | `RefcountExact`, `OpenWhileReachable`, `OneDescriptorPerFile`, `CloseEnds` |
| `threads` | main thread and 3 others, 2 ids | `TidsMatchThreads`, `ResultIsFirstTrap` |
| `exec` | 2 functions of 2 modules, 1 host function, 9 families of bodies of 2 to 14 instructions, with and without a jump table | `StackMatchesValidation`, `WithinPreallocated`, `BranchTargetsAgree`, `HostCallIsConsistent`, `RestartInfoIsOwn`, `HostFramesKept` |
| `load` | 6 families of files of 3 to 7 sections, any allocation fails | `VerdictIsRight`, `HeapBalanced`, `SemanticCopy` |
| `save_copy` | the same with tag imports and exports, groups of no locals and the largest maximum | violation: the copy is not the same module (groups of no locals, tags, the maximum of a shared memory) |
| `dyld` | programs of up to 5 objects, up to 3 calls of the program | `BindingsAgree`, `CodeRunsLinked`, `InitOrder`, `AreasDisjoint`, `LoadEnds` |
| `dyld_assert` | programs that grow their memory | violation: the linker's size of the memory is not the real one |
| `link` | 7 files, up to 5 commands, up to 3 loads | `LinksAreLive`, `ReferencesAreLive`, `HeapIsOwned`, `ImportsMatch` |

The type invariants of the modules are conjuncts of an invariant that the run
checks (`AllocationMatchesSize`, `ListsMatchWaiters`, `RefcountExact`,
`TidsMatchThreads`, `StackMatchesValidation`), or are proved (`Suspend`). All of
these but that of `Exec` are proved, too. Some
modules define properties that no run lists, because the code does not have
them (section 5) or because they are proved (section 4); adding the name to the
configuration as an INVARIANT checks one.

Bounds and why they are enough. Four threads give the suspend protocol a
coordinator, a thread leaving the previous suspend, one about to park and one
that is being created or ends: the three waiters of `stop_cv` and the thread
that must wake them are distinct. Its theorems need no bound. In `grow`,
three growers and three pages are two grows that race with a third thread that
accesses. In `wait`, a timeout of two intervals is the smallest that needs
more than one short wait, `MaxWaiters` 2 with 3 threads reaches the limit, and
a notify may wake none, one or two. In `fd`, three threads are a user and two
closers, or a renumbering against two closers; with `Users` of two threads and
no third the properties hold, too; two files and two descriptors with one reserved
reach the full table, the expansion and the reuse of a struct. In `threads`
two ids with three spawned threads reach the limit and the reuse of an id.
In `exec`, the families
of bodies are nested blocks of every kind (with `else`, branches and
unreachable code), untyped instructions over values of two sizes, branches in a
loop around calls (the jump cache is used again after another module ran),
host functions called above other operands, a restartable wait below and above
calls, and handlers for what is thrown here, in a callee or beyond a host
function. Three frames, two nested calls from host functions and eight stack
cells are enough for a handler, a host frame and a thrower, and for the limits
to be hit. The jump cache has four entries, so that keys collide.
`SYMMETRY` is used in `threads` only, which checks no liveness.
In `load`, the six families are functions with what declares and refers to
them, data segments with their count, tables and memories at the edges of their
limits, constant expressions and element segments of every form, sections in
the wrong order, and custom sections, with an unknown subsection of `dylink.0`
before, between and after known ones; `MaxAllocs` lets every allocation of a
section fail but those of `Reliable`, two whose failure meets a fault of the code
(section 5). Limits keep their meaning with a `UINT32_MAX` of 5 and
a largest memory of 3 pages. In `dyld`, the worlds are a diamond with a symbol
defined twice and a function named twice, a cycle and an object that needs
itself, a main module that is not position independent, an object that the
program loads although another one needs it, so that it is there twice, and
files that are missing, malformed or without their imports; with pages of 32 bytes, sizes of
8 to 32 bytes cross pages and leave them part filled. In `link`, five commands
are the smallest number that loads a module, registers it, grows its table,
loads a module that imports it and fails or times out, and calls what was left;
three loads give an importer whose exporter imports. The steps of a load that
fail are reading the file, the shared memories, the functions for unresolved
imports, the instance (at its tables) and the name. One file imports two
shared memories, which takes a build with the multi-memory proposal, and leaves
WASI without a memory: a call of WASI traps then.

`CHECK_DEADLOCK FALSE` is set in the configurations of `SharedMemory`
because a retried grow stops every thread for ever, which is the finding of
`grow_two_growers`; the property of `grow` on progress is stated for grows that
race no other one. (The other properties hold with racing grows.) It is set for
`Load`, `Dyld` and `Link` because a load, a program or a session ends, or comes
to its bound.

Fairness. A thread that can take a step of the protocol does (weak fairness: the
mutexes are held for bounded times, and a step that is enabled stays enabled
until it is taken). A thread that executes wasm code calls `check_interrupt`
every `check_interval` instructions; a thread that suspends the others again
and again, or is parked again and again, still executes instructions in
between, so that an interrupt that stays set is seen: strong fairness of
`CheckInterruptExit`, and of `MCheckInterrupt` in `SharedMemory`. Nothing is
assumed of what a program does: it need not suspend, grow, spawn, end or
notify. In `WaitList` the clock advances and a thread whose wait is over or
that has to restart goes on. In `WasiFdTable` a call that holds or waits for the
lock goes on (strong fairness: the lock is free again and again), but a call that
blocks (`Blocking`) may last for ever. In `Dyld` the linker is a function that its
caller waits for (weak fairness of its steps); the program need not return.

## 4. Proofs

Each theorem holds for every value of the constants that satisfies the named
assumptions of the module: any number of threads, files, addresses, any limits,
any program. Each inductive invariant was first checked with TLC on the instance
of the run. A theorem module starts with its invariant; the lemmas after it take
one action each.

| theorem | states | for |
|---|---|---|
| `WorldIsStopped`, `CountersAreExact`, `WakeupsAreNotLost` | `Spec => []P` for the invariants of the run `suspend` | `ThreadsAssumption`: a finite set of threads with a main thread |
| `TypeCorrect`, `MutualExclusion`, `UnlockedTestIsSafe`, `ReuseAfterJoin` | the same for `TypeOK`, `OneCoordinator`, `ParkingIsNotStale`, `JoinedBeforeReuse`, which the first three rest on | the same |
| `Refinement` | `Spec => STW!Spec`: the protocol implements the abstract lock | the same |
| `PointersStayValid`, `AllocationIsSize`, `GrowsAreExact` | `NoStalePointer`, `AllocationMatchesSize`, `SizeOnlyGrows` of the run `grow` | also `MemAssumption`: a minimum and a maximum |
| `TidsAreExact`, `FirstTrapIsReported` | `TidsMatchThreads`, `ResultIsFirstTrap` of the run `threads` | also `WasiThreadsAssumption`: there is an id |
| `CountsAreExact`, `ClosedOnlyWhenUnused`, `DescriptorsAreDistinct` | `RefcountExact`, `OpenWhileReachable`, `OneDescriptorPerFile` of the run `fd` | `FdAssumption` and `NoGarbage` |
| `ListsAreExact`, `NoWakeupIsLost`, `WaitsLastTheirTimeout` | `ListsMatchWaiters`, `WakeupsConserved`, `NeverEarly` of the run `wait` | `WaitAssumption`: finitely many threads and timeouts, an address and a value |
| `RestartInfoIsPrivate`, `HostFramesAreKept` | `RestartInfoIsOwn`, `HostFramesKept` of the run `exec` | of `ValidationAssumption`, only that no function is both of wasm and of the host |
| `AreasDisjointHolds`, `BindingsAgreeHolds`, `CodeRunsLinkedHolds`, `InitOrderHolds` | `AreasDisjoint`, `BindingsAgree`, `CodeRunsLinked`, `InitOrder` of the run `dyld` | `DyldAssumption`: the address space is a number of pages; what a file asks for leaves room for its alignment, and in memory for a page, in 32 bits; element 0 of a main module that is not position independent is null; the names that are looked up are names of every directory (there may be no file) |

`NoGarbage` is a hypothesis of the theorems on descriptors, not an assumption:
a pointer that the code does not initialise holds null. Without it they are
false (section 5), and the run `fd` makes the same choice.

**Suspend.** The inductive invariant is

    WInv == TypeOK /\ CountersAgree /\ Exclusive /\ WorldStopped
            /\ ParkingIsNotStale /\ NoLostWakeup /\ JoinedBeforeReuse
            /\ pc[Main] # "starting"
    IInv == WInv /\ OneCoordinator

None of its parts is inductive alone. The tests of `suspend_threads` compare
counters, so `WorldStopped` needs `CountersAgree`: if `nrunners = nparked + 1`
and the caller is live and not parked then everybody else is parked (lemma
`AllParked`, from the cardinalities). A thread resumes or parks against the
right suspend only because there is one coordinator. `ParkingIsNotStale` needs
`WorldStopped`: `resume_threads` can only be called when nobody is between the
test and the lock of `suspend_parked`, since such a thread is live and not
parked. `NoLostWakeup` needs the counters (the last thread to park is the one
that finds `nrunners = nparked + 1`) and the coordinator. The last conjunct
keeps the main thread out of the spawn of another.

`OneCoordinator` also says that the state is STOPPING only while somebody
coordinates. A client that suspends and goes on without a resume breaks that,
and a retried `memory.grow` is one; what is left, `Exclusive`, is enough for
everything else. So every lemma about a step shows `Keeps`: it preserves `WInv`
always, and `OneCoordinator` if it held. The proof for
`memory.grow` uses the first half, the others both.

The steps are grouped by what they do to the invariant rather than by name:
moves among places that are neither parked nor coordinating (`PlainMove`),
entering and leaving the cluster (`Enter`, `Leave`), parking and unparking
(`Park`, `Unpark`), becoming coordinator (`Coordinate`), waiting
(`AwaitResume`, `Rewait`), resuming. Each action is then one of those.

For the refinement, `active` is `Live \ Parked` and `holder` is the thread at
`suspender`. `OneCoordinator` makes the holder unique (`HolderValue`), and
`WorldStopped` says that nobody else is active, so that a step that activates
or deactivates another thread happens only without a holder.

**SharedMemory.** `MInv` is `WInv` with where `memory_grow_impl` is in the
suspend protocol (`Places`), that a pointer is held only during an instruction
other than `memory.grow` (`Pointers`), that the lock of the memory is held from
the reallocation on (`Locking`), and what the sizes are meanwhile (`Sizes`).
`NoStalePointer` then is stop-the-world at work: a thread with a pointer is live
and not parked, and a thread that reallocates is a `suspender`, so by
`WorldStopped` there is no such thread. That no grow is lost does not follow
from stop-the-world, since the size is published after the resume: it is the
lock that keeps the next grow out until then.

**WasiThreads.** Every step is a step of `Suspend` or leaves the cluster alone
(`ClusterStep`), so `IInv` is an invariant here. `Ids` is `TidsMatchThreads`
without its types; it is kept by a spawn because `idalloc_alloc` returns a slot
that is not in use (`AllocIsFree`), and by the undo of one and the end of a
thread because each gives back its own. `TrapInv` relates the recorded trap to
the first one; that nobody propagates after the embedder has been told needs
`JoinedBeforeReuse` of the cluster.

**WasiFdTable.** A file is closed and freed by what its count says, so
`RefcountExact` is inductive only with what the pointers of a call are at each
of its places (`Shape`), that descriptors are distinct and inside the table
(`Table`), which files are open (`Files`: a closed file has one reference, of
the call that is about to release it), and what `fd_renumber` knows between its
two halves, where it holds the lock (`Renumbering`). Counting is done with
`Count(f, D, i)`, how many places of `f` hold `i`; `CountUpdate` says how a store
changes it, and each action is a few stores.

**WaitList.** A waiter that times out removes itself from the list of its
address, so it has to be there, once, exactly while it is blocked and not woken
(`Consistent`); a notify takes the first waiters off a list and sets their
flags, which moves as many threads from `Waiting` to `Pending` (the lemmas on
`Append`, `RemoveAt` and prefixes of a list of distinct waiters). `Deadline`
says that what is left of the timeout and the time that has passed add up to at
least the timeout, in a short wait and in a restart alike, and that a short wait
that the user's timeout ends is as long as what is left.

**Exec.** The vector of restart information is a stack of the host functions
that have called back, with one slot above it for whoever restarts next. That a
slot belongs to the one who finds it (`SlotOK`) is not inductive alone: the
entry of a host function becomes the slot when its callee returns, and the
former slot is then above it, where it must be empty (`RestartsOK`). The bottoms
saved in the entries are in order, so a return never goes below the bottom of an
outer host function. `FramesOK` says that whoever branches, throws or restarts
has a frame above the bottom; the search for a handler stops there
(`HandlingFrames`).

**Dyld.** `Inv` has a part about `struct dyld` alone (`DInv`) and a part about the
loads in progress. `AreasDisjoint` is not inductive: two areas are apart because
they were allocated one after the other and `membase` and `tabbase` only grow,
so the invariant is that the areas are in the order of the list of objects,
below the two (`Ordered`, `StackHeap`). `dyld_allocate_memory` rounds twice and
adds modulo 2^32; lemma `Aligned` shows that a sum that wraps around makes the new
end smaller than the old one, which is what the assertion in the code looks at.
The pages that the program added lie above the pages of `membase`, and the
linker adds no page after that (it fails instead, finding 3).

`BindingsAgree` is about all bindings that were ever made, while the list of
objects grows. A GOT entry keeps its meaning (`GotStays`) because it was made with
the first definition among the objects of that time (`seen`), the list grows at
its end, and a table entry that holds a function is never written again. That a
function has one entry needs the shape of the area of an object (`Entries`): it
is filled from the left, no function is in it twice, and it has a place for each
function that is exported, so that the search of `dyld_register_funcinst` ends
at the entry of the function or at a free one (`FreeEntry`, which counts).

`CodeRunsLinked` needs to know where unlinked objects can be: they belong to the
innermost load and are behind the point it has come to (`GotState`), every load
but the innermost one runs code, and code runs only in a load whose objects are
linked (`Passive`). A load that fails leaves its objects in the list, which is
why `left` appears in the invariant as it does in the property. A step is shown
to preserve `Inv` by saying what became of `struct dyld` (`Went`) and that the
frame it leaves on top can go on (`Going`); `StepInv`, `PushInv`, `PopInv`,
`AbandonInv` and `DieInv` do the rest.

`InitOrder` has an invariant of its own, `OrdInv`, which `OrderInvariance` proves
beside `Inv`. It is the correctness of a depth-first search of a graph with
cycles, and between the steps of the search for one load there are whole loads of
others. The property is stated for what an object needs of its own load, and up to
cycles, because it is false otherwise. `ran` is compared with what each load in
progress has still to call (`CalledOk`). A list is in order when what the object at
each place needs is at an earlier place or needs the object (`NeedsFirst`). While
the sort goes on, `SortOrd` says that the calls of `tsort_visit` that have not
returned are a path in the graph, and that what was visited is on it or in the
list. When a call returns, all that its object needs is visited; what of it is not
in the list is on the path, and what is on a path needs what is above it
(`PathNeeds`, by induction over the path). That the search by name finds the object
that was loaded for the name needs that an object is loaded only if no other was
found (`TopOrd`), and that a load leaves nothing unvisited that is not in `left`
when it ends. Loads in progress have no objects in common (`InOrder`), so what a
constructor loads does not disturb the load around it; and since `Needs` only
grows with the list of objects (`NeedsStay`), what was called stays in order.

**Induction.** The induction theorems of the library have an operator as a
parameter, which the provers cannot instantiate. `Induction` has the forms for
sets: a nonempty set of numbers has a smallest element, and a finite one a largest.

Only model-checked: every liveness property (the prover has no rules for
fairness and `ENABLED` here). `StackMatchesValidation`, `WithinPreallocated`,
`BranchTargetsAgree` and `HostCallIsConsistent` of `Exec`: they are the
soundness of validation, an induction over the body of a function. The properties of
`Load`, `ModuleWriter` and `Link`, whose modules use recursive operators, and
whose properties are mostly about what a recursive definition computes.

## 5. What the checks found

Findings, each with a run:

1. `memory_grow_impl` retries without `resume_threads` after it lost a race
   against another grow: it parks itself, and everybody waits for ever. On the
   same path it returns -1 with the others stopped if the maximum is exceeded.
2. `module_write` does not make a semantic copy of a module with groups of no
   locals, with imports or exports of tags (in a build without assertions), or
   with a shared memory whose maximum is UINT32_MAX (`save_copy`).
3. `dyld_allocate_memory` asserts that the memory ends where the linker has
   allocated to; the program can have grown it.

Properties that the modules define and TLC refutes when they are added to the
configuration:

* `AccessSeesPublishedSize` (`SharedMemory`): `memory_grow_impl` resumes the
  others before it stores the new size, against an assertion of
  `memory_instance_getptr2`.
* `RenumberHasTwoReferences` (`WasiFdTable`): `fd_renumber(n, n)` breaks the
  assertion on the reference count; a Release build closes the file.
* `ReleaseHasReference` (`WasiFdTable`): `wasi_instance_add_hostfd` releases a
  reference it has not taken on its error path.
* `ExitCodeOfFirstTrap`, `NoExitMeansZero` (`WasiThreads`): the trap of the
  first `proc_exit` is reported with the exit code of the last, and the exit
  code of an earlier execution is reported when nobody exits in a later one.
* `NoMemoryFault` (`Load`, with `refs` not in `Reliable`): when the bitmap of
  `read_function_section` cannot be allocated the freed one is freed again.
* `NoMemoryFault` (`Load`, with `dylink` not in `Reliable`): when the struct of
  `read_dylink_0_section` cannot be allocated, its error path gives the NULL
  pointer to `clear_dylink`, which reads through it.
* `UnknownSubsectionsSkipped` (`Load`, added to `MCLoad.cfg`):
  `read_dylink_0_section` traces "skipping unimplemented subsection" at one that
  it does not know (`module.c:2087`), but leaves its loop there: if another
  subsection follows, its bytes are extra ones of the section and the load fails.
  `export_info` is such a subsection, and numbered before `import_info`.
* `WriterAssertionsHold` (`ModuleWriter`, added to `MCLoad.cfg`): a build with
  assertions ends in `write_element` for every segment of expressions (forms 4 to
  7), whose case goes on into `default: assert(0)` (`module_writer.c:376-382`),
  and for every segment of no elements, by `assert(e->init_exprs != NULL)`
  (`:301`); with tags, at `:221` and `:263`. What a build without assertions
  writes of the segments is right: this is what `SemanticCopy` says of them.
* `NothingDestroyedTwice` (`Link`): `create_satisfying_shared_memories` destroys
  the last memory twice when the creation of a second one fails.
* `AllocationsAreNotEmpty` (`Link`): with `--allow-unresolved-functions` a
  module without function imports asks `mem_zalloc` for 0 bytes, against
  `assert(sz > 0)` of `mem_alloc`.

Seen while modelling. `path_create_directory` in every build, and `fd_advise`,
`fd_allocate` and `fd_filestat_set_size` in builds by other compilers than GCC,
release a pointer that was not initialised when the descriptor does not exist:
`RefcountExact` needs `Garbage` to be null, as it is in the run. `path_open` and
`sock_accept` that find no room in the table free the struct without closing the
host file. A load of the repl that
times out in its start function, or has no memory for its name, leaves functions
of the destroyed instance in tables of others and its memory to WASI: this is
what `abandoned` excludes from `ReferencesAreLive`. WASI calls of any module
work on the memory of the module loaded last, if it has one. Imports of shared
memories that `create_satisfying_shared_memories` satisfies are made for the
import: `ImportsMatch` asks of them that type and limits match, and not which of
several registered memories was chosen.

## 6. Plan

Done: `Suspend`, `StopTheWorld`, `SharedMemory`, `WaitList`, `WasiFdTable` and
`WasiThreads` with the proofs of all their safety properties; `Validation` and
`Exec` with the proofs of the two that do not rest on validation; `Dyld` with the
proofs of all its invariants; `Load`,
`ModuleWriter` and `Link`, each for the operations listed above. Left, the most
important first:

1. Proofs: `LinksAreLive` of `Link`, with its recursion written as functions or
   folds; `HeapBalanced` of `Load`; `HostCallIsConsistent` of `Exec` as far as it
   does not need types.
2. The accounting of `mem_context` with concurrent reserves at the limit; the
   deadline of `poll_oneoff` over restarts; the userland scheduler.
3. The single-entry jump cache of the alternative build, the adjustment of the
   check interval; the stack effects of the numeric and memory instructions.
4. Pure operators against reference definitions: LEB128, timespec arithmetic,
   the bounds test of `memory_instance_getptr2`.
5. The composition of `Dyld` with `Link`, which instantiates its objects.

## 7. Not modelled, and why

The numeric and SIMD instructions are C expressions with one result for each
input; the text of traps, traces and statistics has no effect; the host vfs
wraps system calls; littlefs is a library behind one lock. In `Load`, the bytes:
numbers and names are decoded before the model begins. In `Link`, the values of
globals, the contents of memories, the parsing of commands, and the arguments
of `thread_spawn`. In `Dyld`, failures of small allocations, start functions of
libraries, stores of the program into the shared table, sizes within a page of
2^32, and names that are prefixes of each other. The memory model of C11 is
not modelled: the code uses sequentially consistent atomics for the fields it
reads without a lock.
