# A TLA+ verification of AVSTP

AVSTP is a shared thread pool for AviSynth plug-ins.  A plug-in creates a
*dispatcher*, enqueues *tasks* to it, and waits until all of them are over; the
threads that wait execute tasks too.  This directory holds the TLA+ modules
that model its concurrent core, the TLC configurations that check them on small
instances, and the proofs that TLAPS checks for every instance.  Around the
core, it models how the plug-ins of a process come to share one copy of the
library, and how that copy and its threads are disposed of.
`PROJECT.json` says which lines of the code each definition stands for.

## 1. Inventory

Paths are relative to `src/`.

| Component | State | Operations | What makes it correct |
|---|---|---|---|
| `ThreadPool` (`avstp/avstp/ThreadPool.cpp`) | number of threads, array of workers, cell pool, task queue, two semaphores | `set_nbr_threads`, `enqueue_task_no_signal`, `signal_workers`, `wait_completion`, and what workers call | every task runs once; waiters return, and not before the last task of their dispatcher; the workers match the number of threads |
| `TaskDispatcher`, `TaskData` | a counter of tasks; function, data and dispatcher of a task | `enqueue_task`, `wait_completion`, `inc`, `dec`; `init`, `execute` | the counter is exact, through nested tasks |
| `ThreadWorker`, `ThreadBase` | exit flag, running flag, thread handle | `do_run`, `request_exit`; `run`, `wait_for_death`, `kill` | a worker asked to exit does; its object and its code outlive it |
| `ThreadSync` | a semaphore of the system | `signal`, `wait` with a timeout | no wake-up is lost for ever; the count does not overflow |
| `LockFreeQueue` | head, tail, links, the dummy cell, two mutexes | `enqueue`, `dequeue` | FIFO, no cell lost or twice out |
| `LockFreeStack` | head with a count, links | `push`, `pop` | no cell lost or twice out (ABA) |
| `CellPool` | stack, zones, counters, a mutex | `take_cell`, `return_cell`, `expand_to`, `clear_all` | every zone once, every cell accounted for |
| `AtomicInt`, `AtomicPtr`, `AtomicMem`, `AtomicIntOp`, `Interlocked` | a word | `swap`, `cas`, arithmetic, conversion | each call takes effect at once, and returns the value it replaced |
| `AtomicPtrIntPair` | a pointer and a counter | `cas2`, `get` | a pair that is read is one that was there |
| `ObjPool`, `TaskDispPool`, `avstp.cpp` | stacks of dispatchers, the singleton | create, destroy a dispatcher | a dispatcher is recycled only when nothing refers to it |
| `MTFlowGraphSched`, `MTFlowGraphSimple` | a graph of tasks, counts of dependencies | `add_dep`, `start`, `wait` | a task runs after its parents, once |
| `MTSlicer` | the slices of a plane | `start`, `wait` | every line in one slice |
| `AvstpWrapper`, `AvstpFinder`, `DllMain` | the library handle, a published path under a named mutex, function pointers | publish, find, load, fall back, free | one library for the process, loaded as long as it is used |
| `fstb` (`AllocAlign`) | a header before each block | `allocate`, `deallocate` | aligned memory, inside what was allocated |
| registration with AviSynth, example, test, `avisynth.h` | - | - | not part of the core |

How they interact.  An application thread calls `avstp_enqueue_task`: the
dispatcher takes a cell from the `CellPool`, fills it, counts it, links it in
the `LockFreeQueue` and signals the semaphore of the workers.  A worker wakes
up, dequeues, executes, gives the cell back, signals the semaphore of the
waiters and dequeues again until the queue is empty.  `avstp_wait_completion`
does the same with the calling thread, and sleeps on the semaphore of the
waiters only when the queue is empty and its counter is not zero.  Everything
is shared by all threads; the mutexes are those of the queue, of the growth of
the cell pool and of `set_nbr_threads`.

What is hard: one semaphore for waiters of different dispatchers and one for
workers that stay and workers that exit; the 0.1 s timeout that repairs what is
lost; a queue that is empty for others while one thread holds its dummy; tasks
that enqueue tasks; the pool that changes size under waiters; counters that
protect pointers from ABA; a comparison of 16 bytes that is not volatile; words
wider than the processor's, which are read in two halves; a named mutex that
is held while a library is loaded, and the lock of the loader that is held
while the library takes the mutex; a shutdown that does not wait for workers
but kills them.
The list of the hazards, with the line of each and the properties that watch
it, is in `PROJECT.json`.

## 2. The modules

| Module | What it is |
|---|---|
| `TaskGroup` | the promise to a plug-in: tasks of a group are each executed once, a wait returns only when the group is empty, or else ends by an exception |
| `ThreadPool` | `ThreadPool`, `TaskDispatcher`, `TaskData`, `ThreadWorker` and `ThreadSync`; implements `TaskGroup` |
| `ThreadPoolInv` | the inductive invariant of `ThreadPool` |
| `ThreadPool_proofs` | the theorems on `ThreadPool` |
| `CellQueue`, `LockFreeQueue` | the promise of the queue (a FIFO whose last cell stays), and the queue access by access |
| `FreeList`, `LockFreeStack` | the promise of the stack, and the stack access by access |
| `LockFreeCell` | what the two have in common: the links, the head with its count, the threads |
| `CellChain` | the sequence of the cells that are linked from a first one, which the queue and the stack are |
| `LockFree_proofs` | the theorems on the queue and on the stack |
| `CellPool` | the pool of cells that grows by zones, on an atomic stack |
| `DispatcherPool` | the C interface but for the tasks: the two singletons, and the dispatchers recycled by `ObjPool` |
| `DispatcherPool_proofs` | the theorems on `DispatcherPool` |
| `MTSlicer` | the slices of a plane, over `TaskGroup` or over the fallback of `AvstpWrapper` |
| `MTSlicer_proofs` | the theorems on `MTSlicer` |
| `MTFlowGraph` | the graph of tasks and its scheduler |
| `MTFlowGraph_proofs` | the theorem on `MTFlowGraph` |
| `AtomicWord`, `AtomicInt` | the promise of a shared word (calls take effect in one step), and its loops over a plain read and a compare-and-swap |
| `AtomicInt_proofs` | the theorems on `AtomicInt` |
| `AvstpFinder` | `publish_lib`, `find_lib`, `AvstpWrapper` and the loader of the system |
| `PoolShutdown` | the life of the threads of a pool, and `~ThreadPool` |
| `AvstpProcess` | the composition of the two: a process with plug-ins, copies of the library and their pools |
| `AvstpProcess_proofs` | the theorems on `AvstpFinder` and `AvstpProcess` |
| `AlignedMemory` | the arithmetic of `CellPool` and `AllocAlign` on addresses |
| `CellPool_proofs` | the theorems on `CellPool` and on `AlignedMemory` |
| `MC*` | constants and symmetry for TLC; the modules without one need none, their `.cfg` names them |

The layers fit as in the code.  `ThreadPool` uses the queue as a sequence and
the pool as a set of cells; `LockFreeQueue` shows that the queue behaves as that
sequence (with `CellQueue` as the contract), `LockFreeStack` and `CellPool` that
the pool behaves as that set.  `MTSlicer` takes `TaskGroup`, which `ThreadPool` is
proved to implement, for the library, and a dispatcher nobody else has for each
slicer, which `DispatcherPool` shows the library gives.  `CellPool` takes its
counters, and `ThreadPool` its counters of tasks, to be modified in one step,
which `AtomicInt` shows.  `AvstpProcess` is around all that: it says how long
the code and the pool the others describe exist.

### ThreadPool

One action per stretch of code between two accesses to shared state that
another thread can separate; `pc[t]` is the place of thread `t`.

| Actions | Code |
|---|---|
| `InitTask`, `LinkTask`, `SignalWorkers` | `TaskDispatcher::enqueue_task`: take a cell and count the task, link it, signal one worker |
| `CallWait`, `CheckCounter`, `FoundEmpty`, `Recheck`, `WakeUp`, `TimeOut` | `ThreadPool::wait_completion` |
| `Dequeue`, `RequeueDummy` | `LockFreeQueue::dequeue`, with the moment when the dummy is out |
| `FinishTask`, `ReturnCell`, `TestMt`, `SignalPool` | `TaskData::execute`, `return_task_cell` |
| `WorkerTop`, `WorkerWakeUp`, `WorkerTimeOut`, `WorkerCheck` | `ThreadWorker::do_run` |
| `CallSetNbrThreads`, `RequestExit`, `SignalExit`, `Grow`, `AssignNbrThreads`, `IgnoreCall` | `set_nbr_threads` under its mutex |

A task body is between `Dequeue` and `FinishTask`; in between it may enqueue
any task to any dispatcher.  The timeout of a semaphore may expire at any time
its count is zero.

A signal beyond the maximum count throws (`CanRelease`).  An application thread
gets the exception and goes on: from `avstp_enqueue_task` with its task linked
and counted; from a resize (`SignalExit`) with workers that are asked to exit and
a number of threads that still counts them (`cut` is the least argument of such
calls); from `wait_completion` with tasks outstanding (`UnwindWait`).  A nested
enqueue throws in the body of a task, which may handle it; if it does not, the
exception goes through `TaskData::execute` to the wait: the task is not counted
down and its cell is not returned (`AbortTask`; `aborted` is the set of these
cells).  A worker has no handler (`ThreadBase::dispatch_and_run`): the process
stops (`Crashed`).  Bounds: `MaxTasks` calls of `enqueue_task`, `MaxResize` calls
of `set_nbr_threads` with arguments in `Args`, `MaxCalls` of both together,
`MaxThreads` threads, and what the semaphores hold, `SemaMax`.

### LockFreeQueue, LockFreeStack

Their states are apart, though both declare the cells and the threads by
`LockFreeCell`: a cell is in the stack of the pool or in the queue of the tasks.
Each access to the memory that threads share is an action, except the accesses
to `_head` of the queue, which the mutex of `dequeue` covers.
`AtomicPtrIntPair::get` is two actions, the copy and the compare-and-swap that
validates it.  The code hands the plain `_data` of the default build
(`conc_USE_STD_ATOMIC_128BITS` is 0) by reference as the exchange and as the
comparand, so that a compiler may read it once for both or a second time
(`Loaded`): with `Reloads` FALSE both are the copy, which is what the run `fifo`
and the theorems on the queue are about; with `Reloads` TRUE each is the copy or
the tail as it is, which the run `reload` explores (section 5).  The owner of a
popped cell may make it point anywhere, as the queue does.  The counters do not
wrap.

### CellPool

A push on the stack and the increment of the counter of free cells are two
actions, so are a pop and the decrement, and the test of a zone, the mutex and
the compare-and-swap that installs it.  Cells cannot be told apart here, so
the stack is a number.  `nbr_avail` wraps at `Modulus` like an unsigned
integer; `SizeAssumption` says that it can count the cells of the zones that the
constructor asks for.  `MaxHeld` bounds what a thread holds, the zones are of 2,
3 and 4 cells (`BaseSize` 2, growth by 3/2 as in the code).

### DispatcherPool

`Check`, `Lock`, `Recheck`, `Construct` and `Publish` are `use_instance`, which
is written twice in the code, for `TaskDispPool` and for `ThreadPool`; a
constructor that throws leaves the flag down, and the next caller tries again.
`PopFree`, `Recycle`, `New`, `TakeCellForAll` and `PushAll` are `take_obj`,
`TakeCellForFree` and `PushFree` are `return_obj`, `Cleanup` is the destruction
of the static objects when the application has nothing left.  Every allocation
may fail.  A dispatcher whose return fails is lost for the application until
the cleanup, for `avstp_destroy_dispatcher` ignores the exception.

### MTSlicer

Each slicer is used by one thread; `pc[s]` is the place of that thread.
`CallStart` computes the slices, `CreateDispatcher`, `EnqueueTask` (one task at
a time) and `CallWait`, `ReturnFromWait`, `DestroyDispatcher` follow; the tasks
run meanwhile (`StartTask`, `CompleteTask`), in any order.  `EnqueueThrows` is an
exception in the middle of `start`, `Destroy` the destructor, at any time the
user does not wait.  `ThrowFromWait` is an exception of `wait_completion`: the
slicer stays as it was, its user waits again or destroys it; out of the
destructor the exception ends the process, and nothing follows.  The tasks of a
slicer enqueue none, so that the exception cuts none short.  With `fallback` the wrapper executes a task when it is
enqueued.  With `_mt_flag` false there are no slices.  If the library has no
dispatcher to give, `start` dereferences a null pointer and nothing is said of
what follows.

### MTFlowGraph

`AddDep` and `Clear` build the graph between two runs.  `CallStart` executes the
root; `stack` holds the calls of `complete_task`, which counts the next dependent
task and executes it if it is ready (`CountDependency`) or returns
(`ReturnFromComplete`).  Counts of an earlier run or graph stay in `in_cnt`
beyond `last_node`, as in the code.

### AtomicInt

Everything but the compare-and-swap of the processor, and its exchange where
the system has one (`SwapAtOnce`), is a loop: `Read`, then `CasSucceeds` or
`CasFails`, which goes back to the read, also in the assembly of the 64-bit swap,
whose label is before it.  When `wide` holds the read is in two steps
(`ReadOtherHalf`), and another thread may write in between, so that the copy may
be a value the word never had.  `Convert` is the conversion to `T`; `Observe`
is the copy that a postfix `++` or `--` returns.  Neither is allowed on a wide
word: nothing in the code reads one except through a loop.  A postfix operator
is not atomic, and its header warns of it; `AtomicWord` says so, with two steps
for it.  `MaxCalls` bounds the calls.

### AvstpFinder

A copy of the library is the directory it is in: `Std` is the one the standard
search finds, those of `Old` miss a function.  `copies`, any set of them, is what
there is on the disk.  A plug-in is one thread here, for its singleton is
constructed by one thread at a time.

| Actions | Code |
|---|---|
| `OpenMutex`, `AcquireMutex`, `WaitFails`, `ReadPath`, `LoadPath`, `ReleaseMutex`, `Search`, `LoadOwn` | `find_lib`: the path that is published, then the standard search, then the directory of the plug-in |
| `CreateMutex`, `MapFile`, `CopyPath`, `ReleaseNew` | `publish_lib`, called by `DllMain` under the lock of the loader |
| `Load`, `EndAttach`, `Free`, `EndDetach` | `LoadLibraryW`, `FreeLibrary` and what they call |
| `AssignNormal`, `AssignFallback`, `Destroy` | the constructor and the destructor of `AvstpWrapper` |
| `HostLoad`, `HostFree` | AviSynth, or a user, loads a copy by its path |

Each call of the system that `publish_lib` and `find_lib` test may fail, and the
search goes on as in the code: the mutex that cannot be opened or waited for,
the file that does not open or has no view, the library that does not load,
each sends the plug-in on to the standard search, which may fail itself.  `met`
says that a plug-in has found the mutex and that no call has failed it since;
`unnamed` that a load by the name has failed although there was a copy.

The mutex and the file are never closed: they stay after the copy that made
them is gone.  `MaxLoads` bounds the loads of each plug-in.

### PoolShutdown, AvstpProcess

`CreatePool`, `Attach`, `Begin`, `TestExit`, `Work`, `EndRun` and `Leave` are the
life of a worker; `AskAll`, `WaitForDeath` (which may time out), `TestRunFlag`,
`Kill` and `FreePool` are `~ThreadPool` and `~ThreadBase`.  `Work` stands for
all that `ThreadPool` says of a worker between two tests of its exit flag.
`AvstpProcess` adds who may do it when: a pool is made by the first call of a
user of its copy, and destroyed by the thread that unloads the copy (`Unload`),
which holds the lock of the loader; a thread needs that lock to begin (`Attach`)
and to end (`Leave`).  A copy has a pool the first time it is loaded; a copy
that is loaded again uses none.

### AlignedMemory

Addresses are numbers, `x & -align` is `x - (x % align)`.  `allocate` is the
branch of `AllocAlign` that does not call the system's aligned allocator, and
`alloc_cells` the one of `CellPool`; `Header` is where both keep the address to
give back.

## 3. What TLC checks

| Run | Instance | Question |
|---|---|---|
| `safety` | 2 application threads, 2 dispatchers, 2 cells, 1 or 2 threads at first and up to 3, 4 calls: 1 change and 3 tasks, semaphores of at most 1 | Is a cell ever lost or shared, is the counter exact, do the workers match the number of threads, does the pool implement `TaskGroup`, also when a signal throws and the caller goes on? Does the invariant of the proofs hold? |
| `liveness` | 2 application threads that wait for a dispatcher, 2 or 3 threads, 2 calls: 2 tasks in turn, or 1 task and a change to 1 or 2 threads | Does every wait return, is every task run, do the workers in excess exit? |
| `fifo` | 3 threads, 2 cells and the dummy, 5 calls, the pair of the tail read once | Is the queue a FIFO, does its tail stay in it, does each call return? |
| `reload` | 2 threads, 2 cells and the dummy, 5 calls, the pair read once or twice | see section 5 |
| `lifo` | 3 threads, 2 cells, 5 calls | Is the stack a stack in spite of ABA, does each call return? |
| `zones` | 2 threads, 3 zones of 2, 3 and 4 cells, 3 cells held by each at most | Is each zone allocated once, each cell counted, and does a call that finds the pool empty get a cell of a new zone? |
| `dispatchers` | 3 threads, 3 addresses for dispatchers | Is each singleton constructed once, has a dispatcher one user, do cells or dispatchers leak when memory runs out? |
| `slices` | 2 slicers of 2 slices at most, 2 dispatchers, planes of 3 lines, 2 starts each, 0 or 3 threads available, exceptions of `start` and of `wait` | Is each line processed once before `wait` returns, does a task outlive its slicer? |
| `graph` | 4 tasks, 4 links in any order, 2 runs | Is each task executed once, after those it depends on, if and only if all of those are? |
| `atomics` | 2 threads, words of 4 values in halves of 2, wide or not, 3 calls | Is each call atomic, also when its read is torn, and does each return? |
| `process` | 2 plug-ins and the host, 2 directories (the standard one, and one whose copy misses a function), 1 load each, 1 worker per pool | Do the plug-ins share one copy, is it loaded as long as it is used, do its workers outlive their objects, do the mutex, the lock of the loader and the shutdown deadlock? |
| `grow` | the smallest that shows it | see section 5 |

The bounds.  Two waiters are the fewest that steal tokens from each other;
three threads (two workers) the fewest where a worker that stays can take the
token of one that must exit; two cells the fewest where a task enqueues
another, and where a cell comes back to the top of the stack with another one
below (ABA); semaphores of 1 token overflow in the `safety` run, where a task that
throws inside a wait, the next enqueue and a next wait take three tasks and the
change is the fourth call.  In `liveness` one cell bounds the tasks outstanding
to one, and the next task takes the same cell: the waiters steal each other's
tokens all the same, for the semaphore knows nothing of the dispatchers; two
dispatchers are too many states there, and are in `safety`.  Two threads that hold up to three cells each
empty the first zone together and the pool altogether.  Three threads are the
fewest where one constructs a singleton, one waits for the mutex and one uses
the object.  Three lines in two slices are the smallest plane that does not
divide, with a minimum of two lines the smallest that is not cut; two slicers
and two starts let a dispatcher go from one to the other and a slicer be used
again.  Four tasks and four links are the smallest diamond, a link twice
included.  Three calls on a word are the fewest where the two halves that a
thread has read come from before and after another call and a third call
changes the word again; two values for each half let a torn read be a value
the word never has.  Two plug-ins and one load of the host are the fewest where
one publishes, one has begun its search before, and one unloads; a second
directory is needed for a copy that the standard search does not find, and its
being old lets a constructor throw after the load.

The type invariant of a module is not checked apart: it is the first conjunct of
`IInv`, `TailIsNearEnd`, `NoCellLost`, `CellsAccounted`, `OneInstance`,
`NoTaskLeft`, `OnceInOrder`, `RefsMatch` and `RunsSafely`.

Fairness.  Weak fairness of the steps of each thread: the system schedules
every thread, a wait of 0.1 s ends, and a task body returns.  No fairness is
assumed of the calls, nor of the return of a cell in `CellPool`, nor of the
choice between the steps a thread may take, nor strong
fairness of anything: a mutex is given to a thread that waits for it when
nobody else holds it any more, calls being in finite number.  The same goes for
the lock of the loader in `AvstpProcess`, whose `CallsEnd` says that the calls
are all over again and again.  In `AtomicInt` a loop fails only because another
thread has succeeded, so that a finite number of calls is all that
`CallsReturn` needs.
`WaitReturns` leaves out the dispatchers that have a task which an exception has
ended: it is counted for ever, and who waits for it waits for ever (section 5).
`TakeReturns` says that a call at its `pop` with the number of zones as it is
(`UpToDate`), its own growth included, gets a cell of the new zone or loses it to
another call; one whose number has become stale (section 5) does once a cell is
on the stack.

Each property has a mutant of the code that breaks it, in the module next to
the definition it replaces (`Mutant...`), listed in `PROJECT.json`.

## 4. What TLAPS proves

`ThreadPool_proofs` proves, for any sets of threads, dispatchers and cells, any
number of tasks and changes of size and any maximum count, under the
assumptions `ThreadsAssumption`, `DataAssumption` and `SemaAssumption` of
`ThreadPool`:

| Theorem | Statement |
|---|---|
| `Invariance` | `Spec => []IInv` |
| `TypeCorrect`, `CellsSafe`, `DummySafe`, `CounterExact`, `WorkersCorrect` | `TypeOK` and the properties of the run `safety`, from `IInv` |
| `Refinement` | `Spec => TG!Spec`: the pool implements `TaskGroup` |

The argument.  `CellsInOnePlace` alone is not inductive: that a step moves a
cell from one place to another requires that a thread holds a cell exactly
where the code has one in a local variable (`HandsMatch`), and that a cell
which is linked was not the dummy.  `CounterCounts` needs `OwnedWhileOut`,
since the decrement is of the dispatcher stored in the cell.  `TypeOK` with
`nbr_threads` in its range needs `SetSerialized` (the argument of the call
under way) and `ArrayMatches`.  `WorkersMatch` says nothing of the states inside
a call; `ExitMatches` does: from the requests to exit, or the start of the new
workers, the argument of the call is what the workers match, and a worker only
ends once it is asked to.  Each conjunct has a lemma with one case per
action; frame lemmas (`CellFrame`, `PoolFrame`, `StepKinds`) dispose of the
actions that leave its variables alone.  The refinement maps a task to its
cell, `group` to `owner`, `stage` to the place of the cell and `waiting` to
`disp`; `FinishTask` maps to `Complete`, the return of `wait_completion` to
`ReturnFromWait`, whose guard comes from `CounterCounts`, and an exception that
reaches the caller of `wait_completion` maps to `ThrowFromWait`.  A cell in
`aborted` keeps its dispatcher for ever: it is what `CellsInOnePlace` and
`CounterCounts` have to say of the tasks an exception has ended.  `WorkersMatch`
holds at the limit of the semaphores too, with `cut`: the workers that a change
which throws has asked to exit are those from its argument on.

`AtomicInt_proofs` proves, for any set of threads, any width of the word and any
operands, from `WordAssumption`:

| Theorem | Statement |
|---|---|
| `TypeCorrect` | every variable keeps its type: a torn read is still a word |
| `Refinement` | `Spec => AW!Spec`: the loops implement `AtomicWord` |

The argument.  The only step that maps to `TakeEffect` is the one that writes
(or, for `cas` and the conversion, the one that reads what it returns).  When
`CasSucceeds`, the word is what the thread has read, torn or not, so that what it
computed from its copy is what the call makes of the word; no property of the
copy is needed but that it is a word.  The other steps are stutters, but
`Observe`, `Call` and `Return`, which map to their namesakes.

`LockFree_proofs` proves, for any set of threads, any finite set of cells and any
number of calls, from `StackAssumption` and `QueueAssumption`, and on the queue
from `~ Reloads`, that the pair of the tail is read once in each check:

| Theorem | Statement |
|---|---|
| `CellsKept` | `StackSpec => []NoCellLost`: each cell is on the stack, in one hand or fresh |
| `StackIsFreeList` | `StackSpec => FL!Spec`: the stack implements `FreeList` |
| `TailStaysNear`, `NextStaysValid`, `TwoIterations` | `TailIsNearEnd`, `NextIsValid`, `FewLoops` of the queue |
| `QueueIsFifo` | `QueueSpec => Q!Spec`: the queue implements `CellQueue` |

The argument.  What is on the stack or in the queue is a function of the links,
`ChainOf`; the first lemmas show that there is exactly one sequence of linked cells
from a given one (`LinkedIsChain`) and what it becomes when a cell is put before it or behind it,
or when its first cell leaves.  Then the invariants need no sequence: they say
which cells are in the chain (`Apart`, `Somewhere`), and what a thread may believe
of what it has read.  For the stack that is `Snapshots`: if the head is still the
pair that was read, count included, then the link read from it is still the
link of the head.  A thread whose count is old may believe anything, since its
swap fails; that is all there is to ABA.  For the queue it is `EnqKnows` and
`DeqKnows`, line by line; the mutexes (`Locked`) leave one `enqueue` against one
`dequeue`, and the tail that was read is older than the tail or still right
(`Seen`).  The loop of `dequeue` ends because after its first iteration the tail
is past the head and never comes back to it.  In both refinements the step that
maps to the abstract one is the successful compare-and-swap (for `dequeue`, the
assignment of `_head`).

`CellPool_proofs` proves, for any finite set of threads, any number of zones, any
size of the first and any width of the counter, from `PoolAssumption` and
`SizeAssumption`:

| Theorem | Statement |
|---|---|
| `NoZoneLost` | `Spec => []ZonesContiguous` |
| `NoCellMissing` | `Spec => []CellsAccounted` |
| `CounterIsRight` | `Spec => []AvailMatches` |

The argument.  `Zones` says that there are n zones, the first ones, and that a
thread under way is at zone n at most, and at the last of them if it fills one;
if the pool counts less than n zones, there is a thread on its way to count them
(`Records`), which is why none is left when the threads are out of `expand_to`.
One thread fills a zone at a time, under the mutex (`Filling`), so that the cells
that are missing on the stack are those of one zone from one position on
(`NotPushedOne`).  `Counting` is the equation of the sets: a step moves one cell
from one side to the other, or none (`CountingKept`).  `AvailMatches` is inductive
with the types: a step changes the counter by what the place of the thread
weighs before and after (`Weight`), and adding before or after the remainder is
taken gives the same (`ModAdd`).  The sizes of the zones are defined by recursion
over the numbers, which the library's induction theorems do not reach here;
`Recursion` shows by the well-foundedness of the numbers that such a function
exists, `Sizes` and `Totals` that these are numbers, `FirstZones` that the total
is the number of cells of the first zones.

It also proves of `AlignedMemory`, for any address, size and alignment, without
assumption:

| Theorem | Statement |
|---|---|
| `ZoneFits` | what `AllocAlign` returns is aligned, and its header and its bytes are in the block |
| `CellsFit` | so are the cells of a zone of `CellPool`, though its block has room for one more cell only |

Rounding down takes less than the alignment away (`Rounded`).  For the cells, the
block has a spare cell and not a spare alignment; the argument is that the
alignment divides the size of a cell, hence is not larger.

`DispatcherPool_proofs` proves, for any threads and dispatchers, from
`DispatcherAssumption`, the properties of the run `dispatchers`:

| Theorem | Statement |
|---|---|
| `ConstructedOnce` | `Spec => []OneInstance` |
| `OneUser`, `NoneForgotten` | `GivenOnce`, `AllKnown` |
| `NoCellLeaks`, `NothingLeft` | `CellsBalanced`, `CleanedUp` |

The argument.  `OneInstance` needs that the mutex is held from the second test of
the flag to its setting, by one thread (`Locked`), so that a constructor that
throws leaves the count at zero (`Built`).  The other properties rest on `Hands`:
at which lines a call has a dispatcher in hand, which nobody else then has, and
whether `_stack_all` knows it already.  A cell is counted for each entry of the
stacks and for each call between the two (`Balanced`).  `CleanedUp` follows from
`Known` when nothing is in a hand.

`MTSlicer_proofs` proves, for any slicers, dispatchers, numbers of slices and of
threads, and planes of any height the product of which with `MAXT` is an `int`,
from `SlicerAssumption`:

| Theorem | Statement |
|---|---|
| `PlaneIsTiled` | `Spec => []SlicesTile` |
| `EachLineOnce` | `Spec => []LinesOnce` |
| `SlicerOutlivesTasks` | `Spec => []NoTaskLeft` |

The argument.  Arithmetic first: the ends of the slices increase to the height
(`Ends`, `LastEnd`), so no line is in two slices (`SlicesApart`) and each is in
one (`SlicesCover`, which names it: line y is in slice ((y + 1) k - 1) / h); a
slice has `min_slice_h` lines because k of them fit in the plane
(`SliceMinimum`).  Then the invariant: `Life` says what a slicer has at each line
of its user, `Started` how far `start` has gone, `Alive` that a task which is not
over belongs to the dispatcher its slicer has, hence that there is none left
when `wait` returns and not when it throws, and `Lined` what the lines of a slice have become: 0 as long
as its task is not enqueued or not over, 1 after.  The task that `start` was
enqueueing when it threw may exist or not, which `Alive` and `Lined` allow.

`AvstpProcess_proofs` proves, for any finite set of plug-ins and hosts, any copies
of the library and any number of workers and of loads, from `ActorAssumption` and
`WorkerAssumption`, the invariants of the run `process`:

| Theorem | Statement |
|---|---|
| `PathRead`, `RefsAreUsers` | `PathIsWhole`, `RefsMatch` |
| `PublishedIsFound`, `SharedLibrary` | `FindsPublished`, `OneLibrary` |
| `RunningIsSafe` | `Spec => []RunsSafely` |

The argument.  `FInv` is about the finder: which lock a plug-in holds at each line
(`Places`, `Mutexed`), that the count of references is that of the handles
(`Counted`), and that once a plug-in has got the mutex the published path does
not change any more (`Settled`, `Found`): only the copy that has created the
mutex writes the path, and it owns the mutex until it has.  A call that fails
ends what `Found` says of a plug-in (`met`), for it goes to the standard search
with the others.  `OnlyStd` is the induction behind `OneLibrary`, until a load by
the name fails (`unnamed`).  `PInv` is about the pools: a pool that is not
destroyed is in a copy that is mapped, and a worker that runs is in such a pool
and was not passed by the loop of `~ThreadPool`.  A step of the finder leaves
the pools alone but when it maps or unmaps a copy, and the other way round.

`MTFlowGraph_proofs` proves, for graphs of any size, any links and any number of
runs, from `FlowAssumption`:

| Theorem | Statement |
|---|---|
| `TasksInOrder` | `Spec => []OnceInOrder` |

The argument.  A link is followed once: it is in front of (`Ahead`) the one call of
`complete_task` that its first task has (`Calls`), or it has been followed.  The
count of a task is the number of the links into it that have been followed
(`Executed`), at most the number of all, which is `_nbr_in` (`Counts`); the step
that follows the last one executes the task, and no other does.  So a task that
has been executed has had all its parents executed.  The proof does not
use that the graph has no cycle, only that no link ends at the root (`TypeOK`),
which the guard of `AddDep` excludes: without that acyclicity it is the end of
the run that is at stake (`StartRunsAll`), not its order.

Only model-checked.  Liveness (`WaitReturns`, `TasksRun`, `ExitObeyed`, the
`CallsReturn` of the queue, of the stack and of `AtomicInt`, `TakeReturns`,
`StartRunsAll`, `CallsEnd`), for fairness is out of reach of the prover, and with
it that `FreeList`, `CellQueue`, `TaskGroup` and `AtomicWord` make progress.  Every
invariant and every refinement of a run that passes is a theorem, for every
value of the constants.

## 5. What was found

- `grow` (`ThreadPool.cpp:135-140`): the array of workers is resized to one
  more than its workers, so the pool grows once, in its constructor, and never
  again; the comment says it can until it is reduced.
- `reload` (`AtomicPtrIntPair.hpp:74`): `get` checks its copy of the tail by a
  compare-and-swap of `_data` with itself, both taken from memory by the text of
  the code (`Interlocked.hpp:281-293`).  A build that reads `_data` twice may have
  the tail move between the two reads: the swap succeeds, writes the old pair
  back, and the tail is a cell that has left the queue, with a counter that says
  it has not moved.  The comment of `LockFreeQueue.hpp:69`, that the link read is
  then "still a valid pointer", is false in such a build.  Whether a build is one
  depends on its compiler; `fifo` and the theorems are about those that are not.
- Not the object of a run: what an exception of `signal` leaves behind.  A task
  whose nested enqueue throws inside a wait is cut short: its cell never comes
  back and its dispatcher counts it for ever, so that the next wait for this
  dispatcher does not return, that of a destructor included; `MTSlicer::wait`,
  which is documented to throw nothing (`MTSlicer.hpp:209`), throws, and its
  destructor with it.  A reduction that throws leaves workers that exit and are
  still counted (`cut`).
- Not the object of a run: the assertion of `ThreadPool.cpp:206`, that a
  single-threaded pool has an empty queue only if the counter is zero, fails
  when two application threads wait: one finds the queue empty while the other
  executes the last task.
- In a single-threaded pool nobody takes the tokens of
  the workers, and at the maximum the exception of `signal` (`ThreadSync.cpp:87`)
  leaves `avstp_enqueue_task`, which is documented to return a code;
  `MTFlowGraphSched` ignores its argument and never uses several threads
  (`MTFlowGraphSched.hpp:72`), and its branch that does reads the count of a
  task after the increment (line 262), so that two parents could both find it
  complete;
  `MTSlicer::start` does not test the dispatcher it gets (`MTSlicer.hpp:173`);
  `return_obj` throws (`ObjPool.hpp:197`), then the assertion of `cleanup` (line
  233) fails, and a dispatcher is not recycled;
  `take_cell` reads `_nbr_zones` once (`CellPool.hpp:139`), so a call that is
  late by a zone spins until somebody returns a cell, though the pool could
  grow; the branch of `CellPool.hpp:196` is reached, in spite of the comment at
  line 199 and harmlessly (`InstallZone`); the help branch of `enqueue` (`LockFreeQueue.hpp:79-83`) is dead as long as `get` is atomic.
- The shutdown (`ThreadPool.cpp:70`): workers need the lock of the loader to
  end, and the thread that waits for them holds it, so each wait that is made
  while the library is unloaded lasts its 0.1 s, and a worker in a long task is
  killed in the middle of it.  One that was created but has not begun
  (`_run_flag` is still false, `ThreadBase.cpp:75`) is not killed, and runs on an
  object that is gone: the model has it go `astray`.  `RunsSafely` leaves it out,
  and the return of a worker whose run has ended and which is in the code of
  `ThreadBase.cpp:171-173` for a moment still; it says the rest.
- The finder: two plug-ins that are past the standard search may each load the
  copy of their own directory, if the host or both load copies the standard
  search does not find, or after a load by the name has failed; hence the
  hypotheses of `OneLibrary`.
- Branches of other builds: the bodies of `AtomicMem<4>` are under
  `fstb_HAS_CAS_128` (`AtomicMem.hpp:72`), a macro nothing defines (`conc/def.h:65`
  has `conc_HAS_CAS_128`); the postfix operators of the builds on `std::atomic`
  return the new value (`AtomicInt.hpp:191`, `218`); `cas` on macOS returns
  `excg` on failure (`Interlocked.hpp:109`, `223`).

## 6. Not modelled, and why

- The branches of `MTFlowGraphSched` for several threads: they are never taken.
- A task that waits for a dispatcher, and the alertable wait of Windows: the
  first is not excluded by the code but nothing in the repository does it.
- Failures of memory allocation (but in `DispatcherPool` and `MTSlicer`) and of
  system calls (but in `AvstpFinder`, and of `ReleaseSemaphore` at the maximum in
  `ThreadPool`): that of the creation of a thread is left out of `PoolShutdown`,
  and that of the signal of `~ThreadPool` at the maximum of the semaphore
  (`ThreadPool.cpp:62`), which ends the process out of a destructor; a mutex
  whose owner has died (`WAIT_ABANDONED`), which `find_lib` takes for its own;
  planes of more than 2^31 / 64 lines in `MTSlicer`;
  wrap of the counters of the pairs; weak memory order (the builds are for x86).
- The end of the process without unloading: the system has stopped the workers
  before it calls the destructors.  Runtimes that keep the library loaded.
- The branch for Apple of `Interlocked`, and the builds on `std::atomic`.
- The branches of `AllocAlign` that call the system's aligned allocator.
- The checks of arguments of the C interface, which return an error and change
  nothing; `avstp_get_interface_version`, a constant; `ThreadMgr`, which asks the
  system for the number of processors (`Detected`); the registration of the
  functions with AviSynth; `SingleObj` and `ObjFactoryDef`, which construct one
  object.
- Example, test program, AviSynth header: users of the above, and a header of
  another project.

## 7. Plan

What is left is to say more: the branches of `MTFlowGraphSched` for several
threads if a constructor ever sets `_mt_flag`, and in `DispatcherPool` what the
exceptions of the constructor of `ThreadPool` leave behind.  Of the proofs, what
fairness gives: each liveness property could have its safety part (a bound on
the steps of the others that may come before one's own) stated as an invariant.
