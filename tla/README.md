# Verification of the Nytrix runtime and compiler driver

Nytrix is a compiled language. A compiler in C (`src/src/parse`, `code`, `wire`, `base`,
`cmd`) translates programs to LLVM IR or native code; a runtime in C (`src/src/rt`) is linked
into them; a standard library (`src/lib`) is written in the language itself. This directory
holds TLA+ models of the parts in which several activities share state, a resource is at its
limit, or an operation fails half-way, with TLC runs on small instances and TLAPS proofs for
all instances. All paths below are relative to the directory that contains `src/`.

## 1. Inventory

| part | source | state | operations | module |
|---|---|---|---|---|
| async scheduler | `src/src/rt/os.c` 1842-2777 | task records, list of all tasks, ready list, the C stack of nested awaits | constructors, await, scheduler step, progress of ten task kinds | `RtAsync`, refines `AsyncTasks` |
| delimiter search | `os.c` 2060-2088 | table and position | plain and table search | `FindBytes` |
| read until a delimiter | `os.c` 2090-2122, 2465-2497; `src/lib/os/net/socket.ny` 475-494 | bytes received, buffer size | recv, append, search, finish | `ReadUntil` |
| terminal mode | `os.c` 741-1028 | terminal, saved mode, handlers, atexit flag | raw on/off, sane, signal handler, exit | `TtyMode` |
| allocator and reference counts | `src/src/rt/memory.c`, `shared.h` 203-451 | per-thread pools and pointer caches, shared count table | malloc, raw malloc, free, realloc, retain, release | `RtMemory` |
| garbage collector | `src/src/rt/gc.c`, `gc.h` | two spaces, large objects, roots, remembered set | three allocators, minor/major collection, barrier, roots | `NyGc` |
| queues and channels | `src/lib/core/collections.ny` 124-262 | item list, head, closed flag | send, receive, close, clear, compaction | `Channel` |
| child processes | `src/lib/os/process.ny`, `io.ny`, `subprocess.ny` | pipes, descriptors, child state | popen, send, recv_all, shutdown_send, close, run_capture | `Subprocess` |
| parallel map | `src/lib/os/parallel.ny` | ranges, threads, results | chunk_ranges, spawn, work, join | `Parallel` |
| compile caches | `src/src/wire/pipe/init.c`, `pipe/cache.c`, `wire/cache.c`, `base/util.c` 249-295 | files of the cache directory, shared by all compilers | probe, load, drop, link, save of five caches; kill, full disk, power failure | `CompileCache` |
| standard library loader | `src/src/base/loader.c` 1547-2383 | list of modules with export depths, shared index, chunks | closure over uses and exports, threads that build the text | `StdBundle` |

How they interact: generated code calls the runtime directly. Async tasks use
`rt_async_find_bytes` and the read-until buffer (`ReadUntil` runs the steps of `FindBytes` on what
it received); task results and strings are blocks of the allocator; threads of
`parallel.ny` allocate from pools of their own and share the count table; channels are used
between async tasks and rely on tasks changing only at an await; the collector is separate from
the reference-counting allocator and is used when `NYTRIX_GC` is set. A compile asks the caches
before it does any work; on a miss of the source cache it calls the loader, whose text it saves.
Compilers know of each other only through the files.

What is hard in each part, and what makes it correct:

* **Scheduler.** One thread, but an await runs other tasks' functions on its own stack, so
  every loop may find the lists changed under it. The lists must agree with the records, a
  function must run once, an await must end, a result must be delivered once.
* **Search and read-until.** Shift arithmetic at the boundary; a delimiter cut across chunks;
  a buffer that doubles up to a limit.
* **Terminal.** A signal handler between any two statements, itself interruptible. No kill or
  exit may leave a raw terminal behind.
* **Allocator.** The question "is it a heap pointer", the count and the free are three steps,
  and per-thread caches answer the first. A block is freed exactly when its last owner lets go.
* **Collector.** One reference is found through roots, remembered set and object walk; mark
  bits live from one phase to the next. What is reachable must survive and be forwarded right.
* **Channels.** Compaction while messages are queued; FIFO order, capacity, draining.
* **Child processes.** Everyone waiting on everyone through full pipes; descriptors inherited
  by other children; failure after half of the descriptors were opened.
* **Parallel map.** Rounding of ranges, any order of completion, threads that cannot be started.
* **Compile caches.** No lock: a name may change its file, or lose it, between any two steps; a
  compiler may be killed with a file half written; nothing is synced. A compile must give the
  program it was asked for, and a broken entry must not be in the way for ever.
* **Loader.** Entries are scanned again when they turn out to be wanted with more of their exports,
  by loops that must neither miss one nor go on for ever; any number of threads may be missing.

The remaining parts (lexer, parser, type inference, code generator, backends,
progress display, shell, command line, tools, FFI, numerics, the rest of the library) are listed
in `PROJECT.json` with the reason each is not modelled. `PROJECT.json` also lists the hazards,
each at its line with the properties that would catch it, and for every mapped definition the
lines it translates.

## 2. Modules

Each component has a module; `MC*` instantiates it for TLC; `*_proofs` holds its theorems, and
`Compiler_proofs` those of `CompileCache` and `StdBundle`. A
definition introduced by a comment that begins with `Fault:` is a plausible bug of the definition
that follows it; it is used only to confirm that a property notices it.

**AsyncTasks / RtAsync.** `AsyncTasks` is the promise about a handle: submitted, finished once,
result kept, collected once. In `RtAsync` the variable `task` holds the records, `all` and
`ready` the two lists, `stack` the frames of the C stack (each with the handle it awaits and
what its function may still do), `pass` the scan that is next, `knows` which handles the program
holds where. `Create` is any constructor, `AwaitBegin`, `AwaitReturn`, `AwaitUnknown` and
`AwaitFreed` are `rt_async_await_blocking`, `RunReady` calls the function of a ready task,
`Return` ends it, `ScanWith(k)` is a scan of `rt_async_scheduler_step` under the kernel's answers
`k`, `Tick` is time. Byte contents are abstracted to counts, time to what is left of a deadline.
`Refused` is a constructor that returns 0 (too many arguments, or no memory). `prog` is the program
that runs: the addresses and kinds of task it uses, whether it passes handles on (`share`) and
whether it awaits one again (`reawait`). A transfer keeps how many bytes went out, and its
result says whether that is all, some or none of them.

**FindBytes.** One step per turn of a loop: early returns, plain search, table, table search.

**ReadUntil.** `impl` chooses the C task or the library's loop (`LoopTurn`). The task extends
`FindBytes`: `TaskFind` is a step of its search over the bytes received, `TaskFound` what the task
does with the answer, `TaskRecv` the next recv. recv hands the
stream on in chunks of any size (`Handed`) and may fail, as may allocations; a result string that
cannot be allocated makes the task finish with an empty one (`Finish`).

**TtyMode.** `pc` is the place in `rt_tty_raw`, `frames` the handlers entered and not left.
Signals arrive between any two steps (`Deliver`). `Old` gives the action a signal had before.
`tcsetattr` may fail in `rt_tty_raw`, which tells its caller.

**RtMemory.** A thread asks the caches (`Asked`), then enters the locked section
(`RetainLocked`, `ReleaseLocked`, `ForgetLocked`), then frees (`FreeDirect`): three steps, other
threads in between. `Realloc` keeps the block, or moves to another one of the same or of a larger
class. `held` is the program's own count of its references. `prog` is the kind of
program that runs: its threads, counted or not, raw memory or not, careless or not.

**NyGc.** Every entry point holds `gNyGcLock` throughout and is one step. Objects are headers at
addresses measured in units, references carry the identity of their object as a ghost. `prog`
gives the entry points a program calls, its object sizes and the capacities of its spaces.

**Channel.** The queue record with histories of what was accepted and handed out, and the number of
items that copies of the list have moved.

**Subprocess.** A pipe is a byte count and the processes that hold its ends; `fork` copies every
end the program holds. `stage` is "free" for a program that makes the calls as it likes, or the
next call of `run_capture`. Each call may fail: a pipe, the fork, execve, a write, a read or its
buffer (`RecvFails`; `cut` remembers it), wait4 or its buffer (`WaitFails`). A write without a
reader is an error where SIGPIPE is ignored, as in the `ny` command (`src/src/cmd/ny/main.c:249`),
and ends the program where it is not, as in a compiled executable (`ignores`, `SigPipe`). The child
is a program that copies its input (external).

**CompileCache.** A file has two blocks and a mode, a name leads to an inode. `Order` and `InUse` give
the stages of a compile and which of them the options and the `NYTRIX_*_CACHE` variables switch on;
`BcProbe`, `StdProbe`, `NativeProbe`, `AotProbe` and `JitLoad` ask the caches, `Link` uses the
library's bitcode, `BcSave`, `NativeSave` ... `SoLibs`, `JitSave` and `AotSave` ... `Chmod` save
entries, through a temporary file (`OpenTemp`, `Rename`) or in place (`OpenInPlace`). `Kill`,
`WriteFails` and `PowerLoss` are the faults; `Retry` is the user. `out` is what a compile made: whose
program, on a whole library or not, with its libraries or not. `scene` also says whether the
library's source is found (if not, `StdBuild` fails) and whether there are libraries to list.
LLVM and `ld` are external. What the models take for granted of them: a module, object or library that
is not whole is refused; two definitions of one name may or may not clash when modules are linked;
`ld` reads its input before it creates a new output file; a write that LLVM cannot finish either
returns an error (`WriteFails`) or ends the compiler, which is a `Kill`. The second attempt of the
JIT's save, through textual IR, fills the same private temporary file and cannot be told from the
first. The tests of an executable entry and the opening of it are one step (`AotProbe`); they could be
told apart only by compilers that overlap on executables, which `Transparent` leaves out. A power
failure leaves lost files empty; one that keeps the first block of a longer file would pass the
header test of the source cache and is not modelled.

**StdBundle.** `list` is `mod_list`; `Add` and `Scan` are `mod_list_add_ex` and `scan_dependencies`,
`Closure` and `Final` the two loops over the list; `Spawn`, `Take`, `Build` and `Joined` the threads.
The files are a graph of uses and exports, with the uses before the module line apart (they are
scanned first). A module is a path as it is spelled: one file under two spellings is two entries, as
in the code. The text may start with that of a prebuilt library. Any number of threads up to the bound
may be asked for, since `NYTRIX_STD_THREADS` may hold any. `CompileCache!StdBuild` stands for all of
it.

**Parallel.** Item k is the number k and so is f of it. Creating a thread may fail (`MayFail`); what
`rt_thread_join` then returns is joined, or added to the count, all the same. `Init` chooses the length
and what the environment and the caller ask for; the policy of `parallel_should_threads` decides
from them whether there are threads at all.

## 3. Runs

| run | what it shows | bounds |
|---|---|---|
| `async_lists` | both lists and the stack agree with the records whatever the program does | 3 handles, 2 operations per function, 4 kinds (call, timer, descriptor, transfer), open and negative descriptors, sharing and re-awaiting |
| `async_programs` | no await on a freed task; a transfer reports how far it came; every await returns, or, where handles are passed on, one waits for a function below it on the stack; refinement of `AsyncTasks` | 2 handles and all ten kinds without sharing; 3 handles, calls and timers with sharing |
| `read_until` | the search returns the first delimiter and ends; the task's result does not depend on chunking, its buffer is never overrun; the loop keeps every byte, and bytes behind the delimiter only when it reached the limit with them | all streams up to 7 and needles up to 4 over 2 bytes, table search from 4 bytes on, buffer 1 doubling to 6, chunks of 3 |
| `memory` | pools exact, no use of a freed block, no lost block, counts exact | 2 threads, 3 addresses with colliding cache slots, 2 pooled classes and a large one, 3 references |
| `gc` | spaces packed, remembered set exact; a step from a state in which all references are right keeps them right, unless it is one of the three faults of section 6, 1-3 | 2 roots, each registered up to twice; nursery and tenured space of two or so objects; large objects; promotion at age 2; object identities told apart where references are followed |
| `gc_major_promotes` | **violated**: see section 6 | 2 roots |
| `channel` | FIFO, capacity, copies paid for by receives, closed channels drain | capacity 4, compaction threshold 1, 7 messages |
| `tty_fatal` | no raw terminal after a kill or an exit | two signals, both ending the process |
| `subprocess` | descriptors exact; captured output whole unless a read failed; close and run_capture return, or hang on exactly what section 6 names | 2 children, pipes of 2 bytes, 2 bytes to each in any order of calls, 6 bytes of input for run_capture |
| `cache` | compiles give their own program on a whole library; executables get their libraries; undisturbed compilers leave only whole entries; a failed compile succeeds later | 13 scenes: 2 or 3 compilers of 1 or 2 programs, a few caches at a time, up to 2 kills and 1 power failure, disk full or not |
| `std_bundle` | everything used or exported is found; the text is complete and in order, and is finished | all graphs of 3 modules with one use (before or after the module line) and one export each, with and without a prebuilt library; five of 4, 5 or 7; 2 threads, creation may fail |
| `parallel` | ranges cover, budget kept, results in order | 6 items, 4 threads, thread creation may fail |

In `gc`, programs that tell their objects apart are not followed beyond a state in which a reference
was lost (`UntilLost`): what the collector does there is arbitrary, and `RefsKept` says nothing of it.

Why the bounds are enough for what is asked: three handles give a list with a middle element and
a stack of three nested awaits; buffers of 6 with a switch-over at 4 use both searches with
several shifts; a buffer that starts at 1 doubles more than once before its limit; three
addresses over two cache slots give collisions and hits in both caches; a nursery of two objects
and promotion at age 2 reach every path of both collections, including the abort when the
tenured space is full; with pipes of 2 bytes 5 bytes always fit on their way and 6 may not, so both ends of `CaptureReturns` occur; six
items over four threads give short last ranges and fewer ranges than threads; two blocks are the
least for which a file can be partly written behind a good header, and two overlapping writers with
a third reader are the least for an entry that is cut while it is copied; five modules give an entry
that is scanned twice, seven one whose second scan comes too late.
Constants that only bound the instance (`MaxOps`, `MaxHeld`, `MaxReg`, `MaxSent`, `MaxItems`...)
are marked as bounds where they are declared. Symmetry is used for handles, roots and threads, in
runs that check invariants only.

Every run says `CHECK_DEADLOCK FALSE`: these are programs that may end, wait for a peer, or abort.

## 4. Fairness

* `RtAsync!FairSpec`: functions of tasks end (`WF(Return)`), the loop of an await keeps calling
  the scheduler (`WF` of `AwaitReturn`, `RunReady` and the scan without answers), time passes
  (`WF(Tick)`), and a descriptor that is asked again and again is answered one day
  (`SF(Answered(h))`: a poll that finds nothing disables nothing, but the scan that finds the
  answer is not continuously possible). The loop in `rt_async_await_blocking` has no other exit.
* `ReadUntil!UntilSpec`: the search, once called, keeps running. Nothing is assumed of the peer.
* `CompileCache!Spec`: some compiler that can go on does, and a compile that failed is one that can go
  on: it is run again. This is weaker than fairness to each compiler. `Served` is about scenes in which
  the library's source is found; without it a compile fails for good.
* `StdBundle!BundleSpec`: the main thread and each thread that was started keep running.
* `Subprocess!Fairness`: processes are scheduled, a call that was begun is carried on, and
  `run_capture` goes on to its next call. A free program need not make another call, and no failure
  is counted on: the actions of `CallFails` are under no fairness.

No other run checks liveness.

## 5. Proofs

All proofs hold for every value of the constants that satisfies the named assumptions of the
component's module. Those give the constants their types; a theorem that needs more of a program
says so in its own ASSUME, as noted below. Each invariant was checked by TLC before it was proved.

* **`RtAsync_proofs`**: `TypeCorrect`, `ListsStayExact`, `ImplementsTasks`, `AwaitsStayLive`,
  `CountsAreTrue`. The inductive invariant is
  `IInv == TypeOK /\ AllExact /\ ReadyExact /\ StackExact /\ FreedClean`. The lists are needed
  together: that a scan follows no freed record needs `AllExact`, that it leaves the ready list
  right needs `ReadyExact`, that a returning function finds its own record needs `StackExact`, and
  the refinement needs freed records to be blank (`FreedClean`). A lemma per task kind bounds what one
  call of `rt_async_progress_task` may do (`Advance`); the refinement follows from it, since a
  scan changes several handles only by completing one of them and passing the others by.
  `AwaitsStayLive` (`NoDanglingAwait`) is about programs that await a handle once (`~prog.reawait`):
  each handle is then awaited by at most one frame (`AwaitedOnce`), and only the await that ends frees
  its task. `CountsAreTrue` (`CountTrue`): what a finished transfer reports agrees with what went out;
  its invariant (`Counted`) says so of every record all along, which needs that a transfer has no
  deadline and that one on a refused descriptor has sent nothing.
* **`ReadUntil_proofs`**: `FindBytesCorrect` and `FindBytesShifts` about the search: its invariant says
  that no match lies behind the position and that the table built so far is right;
  `ShiftPassesNoMatch` is the heart: a shift by the table's entry cannot jump over an occurrence.
  On top of it `TaskSearchesRight`, `TaskReadsUntil`, `TaskBufferHolds` and `LoopReadsUntil` about the
  task and the library's loop, from `UntilInv`: what was received is a prefix of the stream, the
  search runs over exactly that, an earlier search found nothing in what it was given, and the
  buffer has room. That a delimiter cut by a chunk boundary is found needs that each search starts
  over. `LoopReadsUntil` also says when the loop returns bytes behind the delimiter: only with a full
  limit. The doubling of the buffer is a recursive function here; that it has a value, and
  which, is argued by a least counterexample.
* **`Library_proofs`**, first part, about `Channel`: FIFO order, capacity, the cost of compaction and
  draining, from `ChanInv == ChanTypeOK /\ FifoOrder`, where `FifoOrder` says that
  what was taken followed by the live items is what was sent; the compaction lemma shows that both of
  its conditions keep it. `ChannelCopiesPaid` (`CopiesPaid`) strengthens its property by the items that
  lie dead in the list: what was copied and what is dead together are no more than what was handed out,
  so that a copy, which moves at most as many items as it drops, is paid for.
* **`TtyMode_proofs`**: the three properties of `tty_fatal` for any number of signals, assuming
  that each one's earlier action ends the process (`AllFatal`). The invariant relates the saved
  flag to the terminal at each place of `rt_tty_raw` and of every handler frame.
* **`Library_proofs`**, second part: `ParallelChunks` for every length and budget, with lemmas about rounded
  division; `ParallelMapInOrder`, whose invariant says that thread k's results are the first items
  of range k and that what was joined ends where the next range begins. It is stated, like the
  property, for executions in which every thread could be started. `ParallelBudget`
  (`BudgetKept`) says that there are never more threads than allowed or than items, `ParallelOrder`
  (`OrderKept`) that the results keep the order of the items, none twice, even when threads could not be
  started.
* **`Subprocess_proofs`**: `DescriptorsExact` (`FdsExact`) and `CaptureWhole` (`CapturedWhole`) for any
  number of children and pipes of any size. The invariant follows each pipe: the program holds the
  ends that the stage of its handle says, a child those it inherited when it was forked, and bytes
  are conserved between what was sent, what lies in the pipes and what was read. `CapturedWhole` is
  about every execution in which the reads succeeded, whichever of the other calls failed; a program
  that SIGPIPE ended has no answer and is in nobody's way.
* **`RtMemory_proofs`**: `HeldStaysLive`, `CountsAreExact`, `NothingLeaks`, `PoolsAreExact` for any number
  of threads, addresses, classes and cache slots, and every program that is *served*: one that
  uses no raw memory and releases only what it holds, or one with a single thread and no
  block above the pooled classes. These are the programs of the run; outside them the
  properties fail (section 6, 10; and the magic word that a large block may leave behind makes a
  second free look legal). The invariant speaks of one address at a time (`OwnAt`): who is freeing it is
  alone with it, the count is the number of claims plus the threads on their way to the lock, a
  block in use is somebody's. A lemma per kind of step shows that it is kept for the address the step
  is about, one frame lemma that it is kept for all others. The pools and the caches have invariants
  of their own (`PoolsFit`, `CacheFits`); the caches are what makes `is_heap_ptr` say yes to each
  block in use (`KnownHeap`).
* **`Compiler_proofs`**, first part: `CompilesAreTransparent` (`Transparent`), `LinksAreKnown`
  (`LinksKnown`) and `CachesSettle` (`Settled`) for any number of compilers, sources, kills and power
  failures, any of the caches switched on, and compilers that overlap or take turns. The three follow
  from one invariant, `CacheInv`, since what a compiler ends with depends on every file it could have
  read, and what a file holds on who could have written it:
  - `LocalInv` says of each compiler, by its place, what it has: a whole library once it is past the
    stages that fetch it, no result while it still asks, then a result that was made for its source;
    and that what it is writing goes to its own name;
  - `NameInv`: no inode has two names, a temporary file has none and is open to its writer only, and
    an inode that is open and has a name has the name it was opened by, or the one it was moved to;
  - `FileInv`: what stands under a name was made for that name, a renamed file is whole (or empty, after
    a power failure), a temporary file holds the blocks behind its writer's position, and the list of
    libraries is there for every executable that relies on it, since no step removes a list;
  - `TurnInv`, for executables when compilers take turns and the disk is not full: one runs at a time, a
    file with the mode of an executable is whole or empty, and a compiler beyond the cache of
    executables finds its own entry gone, so that what it opens has not yet the mode;
  - `SettleInv`, when nobody is killed and no write fails: a block that is missing from a named file is
    still ahead of somebody who writes that inode, and an object, an unfinished shared object, an
    executable without its mode or a shared object without its list has a compiler that will see to it.
    One compiler may finish what another began, or move a file that another still writes; the
    invariant therefore asks for somebody, not for the one that began.

  The proof has a lemma per action, and lemmas for what actions share: a step that writes nothing, one
  that only removes names, one that opens a temporary file, one that opens a file in place. The
  assumption on the constants (`CacheAssumption`) gives the types of a scene, and nothing about which
  programs run together.
* **`Compiler_proofs`**, second part: `BundleIsClosed` (`BundleClosed`) for every graph of modules: an
  entry that was scanned has all it uses and exports, to the depth it was wanted with, in the list.
  Adding the modules of a file one by one is a recursive function over their number. `BundleIsWhole`
  (`BundleWhole`), the safety half of `BundleBuilt`, for any number of threads, of which any number
  could be started: an index that was taken from the counter has its chunk or a thread that builds
  it, and who has ended has seen the counter pass the end of the list (`TakenBuilt`); hence nothing is
  missing when all have ended.

* **`NyGc_proofs`**: `SpacesStayPacked` (`SpacesPacked`), `RememberedSetIsExact` (`RememberedExact`) and
  `ReferencesAreKept` (`RefsKept`) for spaces and objects of any size, any promotion age, any number of
  roots, and programs that call any of the entry points. The inductive invariant is `GcInv`, in three
  parts:
  - `Spaces`, for every program: both spaces are packed, an object is old exactly if its age says so, and
    the large objects lie apart. What a set of objects takes up is the cardinality of the units they
    cover (`Room`), so that sliding a set of objects down (`Slid`) can be shown to keep their order and to
    leave no gap by counting, without a sum over the set. From it follows that promotion, the sweep and
    the three allocators keep the spaces;
  - `Listed`, `Caught`, `Fresh` and `Aimed`, for the remembered set. An old object comes to refer to the
    nursery by a store (`Barrier`) or because it was promoted or moved (`RebuildRemembered`). That a slot
    does not begin to point into the nursery because the nursery grew needs that no slot refers to its
    unused part (`Aimed`), and this that a survivor's references are marked with it, which fails when
    objects of the nursery are marked before a collection begins (`Fresh`);
  - `Unused`: a slot that is not registered holds nothing.

  `ReferencesAreKept` is a step property: from a state in which every reachable reference is right
  (`RefsIntact`), every step of every program that leaves marking to the collector and has no empty
  objects ends in such a state, unless it collects under one of three conditions (`Faulty`), each of
  which is a defect of section 6. The proof carries a set of objects, `Sound(g, S)`: every root and every
  object of S refers only to objects of S, to the ones it was made for. `Leads` follows one reference; a
  forward applied once is right (`AppliedSound`), and twice is right when no chain of two moves
  begins at the slot (`OnceEnough`); promotion and sweep keep `Sound` for what was marked, and what was
  reachable was marked unless an old mark hid it (`TracedSound`). `MinorIntact` and `MajorIntact` put the
  phases together, and the three allocators are chains of these.

  What marking reaches is the least set that is closed under unmarked references (`Marked`), and so is
  what a program can reach (`Reachable`): a proof uses that the set is closed, or names a closed set
  that bounds it, where a recursion would need induction over data. TLC checked `GcInv` on the
  instance of the run `gc`.

The claims on a block are a set of pairs (`Claims`), not a sum, so that one reference more or less is
one element more or less.

Only model-checked:

* liveness under fairness (`AwaitReturns`, `Terminates`, `CaptureReturns`, `CloseReturns`, `Served` of
  `CompileCache`, `BundleBuilt`), which is out of this prover's reach. (`BundleBuilt` also
  says that what `Join` puts together is the readable modules of the list; that needs induction over
  the list.)

## 6. Where the properties stop

The code does something else than a document, comment or test says in these places. The first is
a run of its own, violated by what the code does. Of the others some are named by the properties
themselves as the only exceptions (2, 3, 6, 9, 12 and those of `CloseReturns` and `CapturedWhole`); the
rest are left out of the runs by the conditions given here and can be seen by lifting them.

1. `gc_major_promotes`: `nyGcPromoteSurvivors` clears the mark of the copy it makes
   (`src/src/rt/gc.c:963`), and `nyGcSweepTenured`, next in the same major collection, frees every
   tenured object without a mark. An object that reaches the promotion age during a major
   collection is freed while a root slot is forwarded to it; `src/etc/tests/rt/gc.ny:21` expects
   that "gc pressure string survives".
2. `gc.c:344`: remembered slots are forwarded once through the set and once through the object
   walk. After sliding, a new address may be another object's old one. A root slot registered twice
   meets the same. (`Twice` in `RefsKept`; `RefsIntact` fails with a program {fast, store, minor},
   size 2, nursery 9, tenured 3, no large objects.)
3. `gc.c:869`: marks that minor collections leave on tenured objects stop the next marking there;
   what was stored into them since is swept. (`StaleMark` in `RefsKept`; `RefsIntact` fails with
   {alloc, store, clear, minor, major}, nursery 1, tenured 6.) For the same reason `RememberedExact`
   excludes programs that call `nyGcMark` themselves.
4. `gc.c:701`: the write barrier misses an empty object at the top of the nursery, whose pointer
   equals `nursery_ptr`, while `gc.h:87` speaks of "Remembered set (tenured -> nursery refs)".
   (`RememberedExact` without its condition on sizes, with sizes {0, 1}.)
5. `src/etc/assets/dict/fuzz/targets/gc_direct_fuzzer.c:769-771` expects one minor collection to
   tenure a rooted object; `gc.c:947` needs as many as the promotion age.
6. `os.c:2600`: a function that awaits a task whose own function is lower on the stack never
   returns, though `src/lib/os/async.ny:43` says of await "Runs the cooperative scheduler until
   `handle` completes and returns its result." (`Buried`, the exception of `AwaitReturns` for programs
   that pass handles on; it takes three handles.)
7. `os.c:2598`: of two awaits of one handle the inner one frees the record the outer one still
   tests. (`AwaitsLive` in a program with `share` and `reawait`.)
8. `os.c:2323`: an accept task on a negative descriptor waits for ever;
   `src/lib/os/net/socket.ny:340` says "Await it for the accepted client fd or -1."
   (`AwaitReturns` with a program of kinds {"ACCEPT"} and fds {"neg"}.)
9. `socket.ny:480`: when the chunk that holds the delimiter also reaches `max_bytes`, the loop ends
   unsearched and returns the bytes behind it; `socket.ny:476` says "Reads from socket until `needle`
   appears, EOF, or `max_bytes` is reached." (The exception of `LoopKeepsAll`.)
10. `shared.h:425`: a thread that saw raw memory at an address keeps a negative entry after another
    thread freed it; a heap block later allocated there and handed to the first thread is not
    released, while `src/docs/spec/runtime.md:98` says "`release` consumes and drops an owned
    value." (`ReleaseDrops` with raw memory in a program of two threads.)
11. `os.c:871`: with a SIGINT action that returns (`src/src/repl/repl.c:126`), a signal inside
    `rt_tty_raw(1)` makes the next `rt_tty_raw(0)` report success with the terminal raw; `src/src/rt/defs.h:107`
    says "restore cooked mode when 0." Called again while raw, `rt_tty_raw(1)` may read the raw mode
    (`os.c:867`), be interrupted, and save that mode; or the signal comes between saving and setting
    and clears the flag. (`CookedAgain` and `ExitRestored` with an `Old` that returns.) On the very first
    entry the terminal is raw before the handlers are there, and `rt_exit` (`os.c:748`) runs no atexit
    function; nothing promises otherwise.
12. `src/lib/os/subprocess.ny:41`: `run_capture` writes all input before it reads; one byte more than
    pipes and child hold and both wait for ever, while `subprocess.ny:26` says "Runs a command and
    captures stdout. Returns `{code, stdout, ok, argv}`." (`Jammed`, an exception of `CaptureReturns`.)
    The other exception: SIGPIPE is ignored only by the `ny` command (`src/src/cmd/ny/main.c:249`), so in a
    compiled executable input for a child that has exited, as one does whose execve failed, ends
    the program. And `recv` returns "" when it has no memory (`io.ny:74`) or its read fails
    (`io.ny:84-87`), which `recv_all` takes for the end (`io.ny:124`): the answer then holds part of the
    output and may still be `ok`. (The exception `cut` of `CapturedWhole`.)
13. `src/lib/os/process.ny:177`: a child started later holds the writing end of an earlier child's
    input, so close of the earlier one waits for the later; `io.ny:142` says "Closes all process
    pipes and waits for completion." (`CloseReturns` without `Alone`.)
14. `src/lib/os/parallel.ny:333`: a thread that could not be created is joined all the same; its items
    are missing or the program crashes. `parallel_each` adds the error code to the count (`parallel.ny:377`), which
    `parallel.ny:360` calls "the number of processed items". (`InPlace` instead of `MapInOrder`.)
15. `src/src/wire/pipe/cache.c:734-737` says that accepting a script entry in the library's bitcode
    "makes the first program that populates the cache run for every later source with the same import
    set". The test that follows names `_ny_top_entry` only: with `--entry-name=f`
    (`src/src/base/options.c:2467`) the first program's `f` is saved, and `codegen_emit_script`
    (`src/src/code/core.c:2465`) takes it for the entry of a later one. The keys of the JIT's bitcode and
    of executables (`src/src/wire/cache.c:398`) leave the entry's name out, so such a result may be saved
    under the source and be taken by a compile with the default entry. (`Transparent` without its condition
    on the compilers of the same source.) With the default entry the bitcode is never saved.
16. `src/src/base/util.c:255`: `ny_copy_file` cuts an executable entry that another compiler may be
    copying, and does not ask `fclose` whether the last bytes were written. A compiler that overlaps
    takes part of an executable for a hit. (`Transparent` without `scene.seq` or `~scene.full`.)
17. `src/src/wire/cache.c:875`: the shared object has its name before the list of its libraries exists;
    a compiler killed in between leaves one that is loaded without them. The same holds of a program
    that is run on the library's bitcode; only executables ask for the list. (`LinksKnown` without
    `me(c).goal = "aot"`.) The JIT's bitcode keeps no list at all, and with `NYTRIX_AOT_IR_CACHE`
    (`src/src/wire/pipe/cache.c:219`) an executable may be made from it. (`LinksKnown` without
    `~(Use("bc") /\ Use("jit"))`.)
18. `src/src/base/loader.c:2274`: an entry whose depth grows during the last pass, when the pass is
    beyond it, is not scanned again, and what it exports is not in the text. (`BundleClosed` without
    `list[k].processed`.)

## 7. Not modelled, and the plan

Not modelled within the parts above: finalizers (a flag nothing reads) and statistics of the
collector; contents of blocks and failing allocation in the allocator (`memory.c:144`
and 323: a table entry that cannot be allocated leaves a block uncounted); the Windows branches; pty and window-size
queries; the work queues of `parallel.ny`, which nothing in the library uses; `sendline`,
`recv_line` and the search of the executable. A second mutator of the collector is not modelled:
the pointer of a new object is returned after the lock is released (`gc.c:738`), and `gc.h:10-11`
speaks of a local collector for compiler-internal lists. What the runs and proofs take for granted of
Linux, LLVM and `ld` stands with the modules in section 2; definitions for them are marked external in
`PROJECT.json`.

Order of the work:

1. *Done:* scheduler with refinement and proofs; search and read-until; allocator; collector;
   channels; terminal; child processes; parallel map; compile caches; loader.
2. *Next, models:* the progress display and its thread (`src/src/base/progress.c`); mutexes and the
   ownership of thread arguments (`os.c`); a second mutator for `NyGc`; the index cache of the loader
   (`loader.c:531-668`) and the object cache of `src/src/wire/build.c:397`, which is filled by
   `ny_copy_file` too. A composition of `Channel` with `RtAsync` (a producer and a consumer that
   await) follows.
3. *Proofs:* every invariant that a run checks is proved; what those of the next models need comes
   with them.
