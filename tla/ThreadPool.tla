----------------------------- MODULE ThreadPool -----------------------------
(***************************************************************************)
(* The core of AVSTP: ThreadPool with its TaskDispatchers, TaskData cells, *)
(* ThreadWorkers and the two ThreadSync semaphores, as the interleaving of *)
(* application threads (avstp_enqueue_task, avstp_wait_completion and      *)
(* avstp_set_threads) and worker threads (ThreadWorker::do_run).           *)
(*                                                                         *)
(* One action stands for the code between two accesses to shared state     *)
(* that another thread can separate.  The lock-free queue is a FIFO that   *)
(* holds its dummy cell (see LockFreeQueue for its own steps), the cell    *)
(* pool a set of cells (see LockFreeStack and CellPool).                   *)
(***************************************************************************)
EXTENDS Integers, Sequences, SequencesExt, FiniteSets

CONSTANTS
  App,            \* application threads
  Dispatcher,     \* dispatchers the application has created
  Cell,           \* cells of _task_pool; bounds the tasks outstanding
  Dummy,          \* the dummy cell owned by _task_queue
  None,           \* a null pointer
  MaxThreads,     \* bound on the number of threads
  Args,           \* arguments of set_nbr_threads, 0 for the detected number
  InitThreads,    \* arguments the pool is constructed with
  Detected,       \* _nbr_threads_detected
  SemaMax,        \* maximum count of a semaphore, 0x7FFFFFFF in the code
  MaxTasks,       \* bound on the calls of enqueue_task in a behaviour
  MaxResize,      \* bound on the calls of set_nbr_threads in a behaviour
  MaxCalls        \* bound on the calls of both together

Worker == 0 .. MaxThreads - 2     \* indices of _worker_arr
Thread == App \cup Worker

ASSUME ThreadsAssumption ==
  /\ MaxThreads \in Nat \ {0}
  /\ InitThreads \subseteq 1 .. MaxThreads
  /\ Detected \in 1 .. MaxThreads
  /\ Args \subseteq 0 .. MaxThreads
  /\ App \cap Int = {}
ASSUME DataAssumption ==
  /\ IsFiniteSet(Cell)
  /\ Dummy \notin Cell
  /\ None \notin Cell \cup Dispatcher \cup {Dummy}
ASSUME SemaAssumption == SemaMax \in Nat \ {0}

VARIABLES
  nbr_threads,    \* _nbr_threads
  arr_size,       \* _worker_arr.size ()
  exit_flag,      \* exit_flag[w]: ThreadWorker::_exit_flag
  sync_pool,      \* count of the semaphore the waiters sleep on
  sync_workers,   \* count of the semaphore the workers sleep on
  task_pool,      \* the cells in _task_pool
  task_queue,     \* the cells in _task_queue, first to leave first
  owner,          \* owner[c]: _dispatcher_ptr while _task_ptr is not null
  task_cnt,       \* task_cnt[d]: TaskDispatcher::_task_cnt
  pc,             \* what each thread does next
  task,           \* task[t]: the cell thread t executes, or None
  new,            \* new[t]: the cell thread t is about to enqueue, or None
  disp,           \* disp[a]: the dispatcher a waits for, or None
  arg,            \* arg[a]: argument of the current set_nbr_threads, or 0
  aborted,        \* cells whose task an exception has ended
  ended,          \* ended[a]: how the last wait_completion of a has ended
  cut,            \* least argument of the changes an exception has ended
  issued,         \* calls of enqueue_task so far
  resized         \* calls of set_nbr_threads so far

poolVars == <<nbr_threads, arr_size, exit_flag>>
setVars  == <<arg, resized, cut>>
endVars  == <<aborted, ended>>
cellVars == <<task_pool, owner, task_cnt>>
vars == <<nbr_threads, arr_size, exit_flag, sync_pool, sync_workers,
          task_pool, task_queue, owner, task_cnt, pc, task, new, disp, arg,
          aborted, ended, cut, issued, resized>>

-----------------------------------------------------------------------------
\* A worker has no handler: an exception that reaches it ends the process.
Crashed == \E w \in Worker : pc[w] = "threw"

Goto(t, l) ==
  /\ ~Crashed
  /\ pc' = [pc EXCEPT ![t] = l]

is_mt == nbr_threads > 1

(* TaskDispatcher::inc and dec, and the counter as a waiter tests it.      *)
inc(d) == task_cnt' = [task_cnt EXCEPT ![d] = @ + 1]

MutantDecLost(d) == UNCHANGED task_cnt
dec(d) == task_cnt' = [task_cnt EXCEPT ![d] = @ - 1]

MutantPendingOffByOne(d) == task_cnt[d] > 1
Pending(d) == task_cnt[d] > 0

\* _task_ptr of a cell, with _dispatcher_ptr, is set by init and cleared by
\* execute.
SetOwner(c, d) == owner' = [owner EXCEPT ![c] = d]

MutantNotCleared(c) == UNCHANGED owner
ClearOwner(c) == owner' = [owner EXCEPT ![c] = None]

(* LockFreeQueue::enqueue.                                                 *)
MutantLinkedTwice(c) == task_queue' = task_queue \o <<c, c>>
MutantDummyLost(c) ==
  task_queue' = IF c = Dummy THEN task_queue ELSE Append(task_queue, c)
enqueue(c) == task_queue' = Append(task_queue, c)

(* ThreadSync::wait: it takes a token, or ends on the security timeout     *)
(* when there is none.                                                     *)
HasToken(count) == count > 0

MutantNoTimeout(count) == FALSE
TimesOut(count) == count = 0

ExitRequested(w) == exit_flag[w]

\* The array holds one worker less than there are threads.
CanGrow == nbr_threads = arr_size + 1

\* The loop a thread is in when it has no task in hand.
LoopOf(t) == IF t \in App THEN "check" ELSE "wcheck"

\* ReleaseSemaphore releases the tokens, or fails at the maximum count; then
\* ThreadSync::signal throws.
CanRelease(count, n) == count + n <= SemaMax

\* The exception ends the wait_completion of the thread: the counter may be
\* positive still, and the caller goes on from its handler.
UnwindWait(a) ==
  /\ disp' = [disp EXCEPT ![a] = None]
  /\ ended' = [ended EXCEPT ![a] = "threw"]
  /\ Goto(a, "idle")

\* The task in hand is neither finished nor its cell returned.
AbortTask(t) ==
  /\ task' = [task EXCEPT ![t] = None]
  /\ aborted' = aborted \cup {task[t]}

Lesser(m, n) == IF m < n THEN m ELSE n

\* The call of set_nbr_threads is over, and its argument with it.
EndSet(a) ==
  /\ arg' = [arg EXCEPT ![a] = 0]
  /\ Goto(a, "idle")

InSet(a) == pc[a] \in {"set", "shrink", "shrunk", "grown"}

-----------------------------------------------------------------------------
\* The constructor has run set_nbr_threads (n) on an empty array; nothing
\* else runs before the pool is published.
Init ==
  /\ \E n \in InitThreads :
       /\ nbr_threads = n
       /\ arr_size = IF n = 1 THEN 0 ELSE n
       /\ pc = [t \in Thread |-> IF t \in App THEN "idle"
                                 ELSE IF t < n - 1 THEN "top" ELSE "none"]
  /\ exit_flag = [w \in Worker |-> FALSE]
  /\ sync_pool = 0
  /\ sync_workers = 0
  /\ task_pool = Cell
  /\ task_queue = <<Dummy>>
  /\ owner = [c \in Cell |-> None]
  /\ task_cnt = [d \in Dispatcher |-> 0]
  /\ task = [t \in Thread |-> None]
  /\ new = [t \in Thread |-> None]
  /\ disp = [a \in App |-> None]
  /\ arg = [a \in App |-> 0]
  /\ aborted = {}
  /\ ended = [a \in App |-> "returned"]
  /\ cut = MaxThreads
  /\ issued = 0
  /\ resized = 0

-----------------------------------------------------------------------------
(* TaskDispatcher::enqueue_task, called by an application thread or by the *)
(* body of a running task.                                                 *)

\* take_cell (true) and TaskData::init, which counts the task.
InitTask(t, d) ==
  /\ issued < MaxTasks /\ issued + resized < MaxCalls
  /\ pc[t] \in {"idle", "body"}
  /\ \E c \in task_pool :
       /\ task_pool' = task_pool \ {c}
       /\ SetOwner(c, d)
       /\ new' = [new EXCEPT ![t] = c]
  /\ inc(d)
  /\ issued' = issued + 1
  /\ Goto(t, "link")
  /\ UNCHANGED <<poolVars, setVars, endVars, sync_pool, sync_workers,
                 task_queue, task, disp>>

LinkTask(t) ==
  /\ pc[t] = "link"
  /\ enqueue(new[t])
  /\ new' = [new EXCEPT ![t] = None]
  /\ Goto(t, "signal")
  /\ UNCHANGED <<poolVars, setVars, cellVars, endVars, sync_pool, sync_workers,
                 task, disp, issued>>

\* signal_workers (1), then back to the caller.  If it throws, the task is
\* linked and counted all the same: an application thread gets the exception
\* back, the body of a task may handle it, and if it does not the exception
\* goes through TaskData::execute, to the caller of wait_completion or out of
\* the worker.
SignalWorkers(t) ==
  /\ pc[t] = "signal"
  /\ \/ /\ CanRelease(sync_workers, 1)
        /\ sync_workers' = sync_workers + 1
        /\ Goto(t, IF task[t] = None THEN "idle" ELSE "body")
        /\ UNCHANGED <<endVars, task, disp>>
     \/ /\ ~CanRelease(sync_workers, 1)
        /\ UNCHANGED sync_workers
        /\ \/ /\ Goto(t, IF task[t] = None THEN "idle" ELSE "body")
              /\ UNCHANGED <<endVars, task, disp>>
           \/ /\ t \in App /\ task[t] # None
              /\ AbortTask(t)
              /\ UnwindWait(t)
           \/ /\ t \in Worker
              /\ Goto(t, "threw")
              /\ UNCHANGED <<endVars, task, disp>>
  /\ UNCHANGED <<poolVars, setVars, cellVars, sync_pool, task_queue, new,
                 issued>>

-----------------------------------------------------------------------------
(* LockFreeQueue::dequeue, called by the waiters and the workers.          *)

\* The last cell stays in the queue until another one is linked behind it.
Dequeue(t) ==
  /\ pc[t] = "deq"
  /\ \/ /\ Len(task_queue) = 1
        /\ Goto(t, IF t \in App THEN "empty" ELSE "top")
        /\ UNCHANGED <<task_queue, task>>
     \/ /\ Len(task_queue) > 1
        /\ task_queue' = Tail(task_queue)
        /\ \/ /\ Head(task_queue) = Dummy
              /\ Goto(t, "dummy")
              /\ UNCHANGED task
           \/ /\ Head(task_queue) # Dummy
              /\ task' = [task EXCEPT ![t] = Head(task_queue)]
              /\ Goto(t, "body")
  /\ UNCHANGED <<poolVars, setVars, cellVars, endVars, sync_pool, sync_workers,
                 new, disp, issued>>

\* The dummy goes back to the end of the queue, and dequeue starts again.
RequeueDummy(t) ==
  /\ pc[t] = "dummy"
  /\ enqueue(Dummy)
  /\ Goto(t, "deq")
  /\ UNCHANGED <<poolVars, setVars, cellVars, endVars, sync_pool, sync_workers,
                 task, new, disp, issued>>

-----------------------------------------------------------------------------
(* TaskData::execute and ThreadPool::return_task_cell.                     *)

\* The task function returns, its dispatcher stops counting it.
FinishTask(t) ==
  /\ pc[t] = "body"
  /\ dec(owner[task[t]])
  /\ ClearOwner(task[t])
  /\ Goto(t, "return")
  /\ UNCHANGED <<poolVars, setVars, endVars, sync_pool, sync_workers,
                 task_pool, task_queue, task, new, disp, issued>>

ReturnCell(t) ==
  /\ pc[t] = "return"
  /\ task_pool' = task_pool \cup {task[t]}
  /\ task' = [task EXCEPT ![t] = None]
  /\ Goto(t, "notify")
  /\ UNCHANGED <<poolVars, setVars, endVars, sync_pool, sync_workers,
                 task_queue, owner, task_cnt, new, disp, issued>>

\* Only a multi-threaded pool has waiters to wake up.
TestMt(t) ==
  /\ pc[t] = "notify"
  /\ Goto(t, IF is_mt THEN "wake" ELSE LoopOf(t))
  /\ UNCHANGED <<poolVars, setVars, cellVars, endVars, sync_pool, sync_workers,
                 task_queue, task, new, disp, issued>>

\* If it throws, the wait ends, or the worker does.
SignalPool(t) ==
  /\ pc[t] = "wake"
  /\ \/ /\ CanRelease(sync_pool, 1)
        /\ sync_pool' = sync_pool + 1
        /\ Goto(t, LoopOf(t))
        /\ UNCHANGED <<ended, disp>>
     \/ /\ ~CanRelease(sync_pool, 1)
        /\ UNCHANGED sync_pool
        /\ \/ t \in App /\ UnwindWait(t)
           \/ t \in Worker /\ Goto(t, "threw") /\ UNCHANGED <<ended, disp>>
  /\ UNCHANGED <<poolVars, setVars, cellVars, sync_workers, task_queue, task,
                 new, aborted, issued>>

-----------------------------------------------------------------------------
(* ThreadPool::wait_completion, called by an application thread.           *)

CallWait(a, d) ==
  /\ pc[a] = "idle"
  /\ disp' = [disp EXCEPT ![a] = d]
  /\ Goto(a, "check")
  /\ UNCHANGED <<poolVars, setVars, cellVars, endVars, sync_pool, sync_workers,
                 task_queue, task, new, issued>>

\* while (counter > 0): helps with the tasks, or returns.
CheckCounter(a) ==
  /\ pc[a] = "check"
  /\ \/ /\ Pending(disp[a])
        /\ Goto(a, "deq")
        /\ UNCHANGED <<ended, disp>>
     \/ /\ ~Pending(disp[a])
        /\ Goto(a, "idle")
        /\ disp' = [disp EXCEPT ![a] = None]
        /\ ended' = [ended EXCEPT ![a] = "returned"]
  /\ UNCHANGED <<poolVars, setVars, cellVars, sync_pool, sync_workers,
                 task_queue, task, new, aborted, issued>>

\* Nothing to dequeue: a multi-threaded pool tests the counter again before
\* it sleeps, a single-threaded one loops (after an assertion on it).
FoundEmpty(a) ==
  /\ pc[a] = "empty"
  /\ Goto(a, IF is_mt THEN "recheck" ELSE "check")
  /\ UNCHANGED <<poolVars, setVars, cellVars, endVars, sync_pool, sync_workers,
                 task_queue, task, new, disp, issued>>

Recheck(a) ==
  /\ pc[a] = "recheck"
  /\ Goto(a, IF Pending(disp[a]) THEN "sleep" ELSE "check")
  /\ UNCHANGED <<poolVars, setVars, cellVars, endVars, sync_pool, sync_workers,
                 task_queue, task, new, disp, issued>>

\* ThreadSync::wait returns with a token, or on the security timeout.
WakeUp(a) ==
  /\ pc[a] = "sleep"
  /\ HasToken(sync_pool)
  /\ sync_pool' = sync_pool - 1
  /\ Goto(a, "check")
  /\ UNCHANGED <<poolVars, setVars, cellVars, endVars, sync_workers,
                 task_queue, task, new, disp, issued>>

TimeOut(a) ==
  /\ pc[a] = "sleep"
  /\ TimesOut(sync_pool)
  /\ Goto(a, "check")
  /\ UNCHANGED <<poolVars, setVars, cellVars, endVars, sync_pool, sync_workers,
                 task_queue, task, new, disp, issued>>

-----------------------------------------------------------------------------
(* ThreadWorker::do_run.                                                   *)

\* while (! _exit_flag), and the tests of it after the wait and after a task.
WorkerTop(w) ==
  /\ pc[w] = "top"
  /\ Goto(w, IF ExitRequested(w) THEN "dead" ELSE "wwait")
  /\ UNCHANGED <<poolVars, setVars, cellVars, endVars, sync_pool, sync_workers,
                 task_queue, task, new, disp, issued>>

WorkerCheck(w) ==
  /\ pc[w] = "wcheck"
  /\ Goto(w, IF ExitRequested(w) THEN "top" ELSE "deq")
  /\ UNCHANGED <<poolVars, setVars, cellVars, endVars, sync_pool, sync_workers,
                 task_queue, task, new, disp, issued>>

WorkerWakeUp(w) ==
  /\ pc[w] = "wwait"
  /\ HasToken(sync_workers)
  /\ sync_workers' = sync_workers - 1
  /\ Goto(w, "wcheck")
  /\ UNCHANGED <<poolVars, setVars, cellVars, endVars, sync_pool, task_queue,
                 task, new, disp, issued>>

WorkerTimeOut(w) ==
  /\ pc[w] = "wwait"
  /\ TimesOut(sync_workers)
  /\ Goto(w, "wcheck")
  /\ UNCHANGED <<poolVars, setVars, cellVars, endVars, sync_pool, sync_workers,
                 task_queue, task, new, disp, issued>>

-----------------------------------------------------------------------------
(* ThreadPool::set_nbr_threads, called by an application thread.           *)

\* mutex_set is taken; an argument below 1 asks for the detected number.
CallSetNbrThreads(a, n) ==
  /\ resized < MaxResize /\ issued + resized < MaxCalls
  /\ pc[a] = "idle"
  /\ \A b \in App : ~InSet(b)
  /\ arg' = [arg EXCEPT ![a] = IF n < 1 THEN Detected ELSE n]
  /\ resized' = resized + 1
  /\ Goto(a, "set")
  /\ UNCHANGED <<poolVars, cut, cellVars, endVars, sync_pool, sync_workers,
                 task_queue, task, new, disp, issued>>

\* The workers in excess are asked to exit.
MutantOneTooFew(a, w) == w \in arg[a] .. nbr_threads - 2
InExcess(a, w) == w \in arg[a] - 1 .. nbr_threads - 2

RequestExit(a) ==
  /\ pc[a] = "set"
  /\ arg[a] < nbr_threads
  /\ exit_flag' = [w \in Worker |-> exit_flag[w] \/ InExcess(a, w)]
  /\ Goto(a, "shrink")
  /\ UNCHANGED <<nbr_threads, arr_size, setVars, cellVars, endVars, sync_pool,
                 sync_workers, task_queue, task, new, disp, issued>>

\* If it throws, the mutex is released and the number of threads stays what
\* it was, though the workers are asked to exit.
SignalExit(a) ==
  /\ pc[a] = "shrink"
  /\ LET n == nbr_threads - arg[a] IN
       \/ /\ CanRelease(sync_workers, n)
          /\ sync_workers' = sync_workers + n
          /\ Goto(a, "shrunk")
          /\ UNCHANGED <<arg, cut>>
       \/ /\ ~CanRelease(sync_workers, n)
          /\ cut' = Lesser(cut, arg[a])
          /\ EndSet(a)
          /\ UNCHANGED sync_workers
  /\ UNCHANGED <<poolVars, resized, cellVars, endVars, sync_pool, task_queue,
                 task, new, disp, issued>>

\* The array is resized to the number of threads, one more than the workers
\* it holds, and the new workers run.
Grow(a) ==
  /\ pc[a] = "set"
  /\ arg[a] > nbr_threads
  /\ CanGrow
  /\ ~Crashed
  /\ arr_size' = arg[a]
  /\ pc' = [t \in Thread |->
              CASE t = a -> "grown"
                [] t \in nbr_threads - 1 .. arg[a] - 2 -> "top"
                [] OTHER -> pc[t]]
  /\ UNCHANGED <<nbr_threads, exit_flag, setVars, cellVars, endVars, sync_pool,
                 sync_workers, task_queue, task, new, disp, issued>>

\* The last step of a change; the mutex is released.
AssignNbrThreads(a) ==
  /\ pc[a] \in {"shrunk", "grown"}
  /\ nbr_threads' = arg[a]
  /\ EndSet(a)
  /\ UNCHANGED <<arr_size, exit_flag, resized, cut, cellVars, endVars,
                 sync_pool, sync_workers, task_queue, task, new, disp, issued>>

\* Neither branch is taken: the call is ignored.
IgnoreCall(a) ==
  /\ pc[a] = "set"
  /\ ~(arg[a] < nbr_threads)
  /\ ~(arg[a] > nbr_threads /\ CanGrow)
  /\ EndSet(a)
  /\ UNCHANGED <<poolVars, resized, cut, cellVars, endVars, sync_pool,
                 sync_workers, task_queue, task, new, disp, issued>>

-----------------------------------------------------------------------------
\* What the application decides: its calls, and those of its task bodies.
AppCall ==
  \/ \E t \in Thread, d \in Dispatcher : InitTask(t, d)
  \/ \E a \in App, d \in Dispatcher : CallWait(a, d)
  \/ \E a \in App, n \in Args : CallSetNbrThreads(a, n)

CommonStep(t) ==
  \/ LinkTask(t) \/ SignalWorkers(t)
  \/ Dequeue(t) \/ RequeueDummy(t)
  \/ FinishTask(t) \/ ReturnCell(t) \/ TestMt(t) \/ SignalPool(t)

WaitStep(a) ==
  \/ CheckCounter(a) \/ FoundEmpty(a) \/ Recheck(a)
  \/ WakeUp(a) \/ TimeOut(a)

WorkerStep(w) ==
  \/ WorkerTop(w) \/ WorkerCheck(w) \/ WorkerWakeUp(w) \/ WorkerTimeOut(w)

SetStep(a) ==
  \/ RequestExit(a) \/ SignalExit(a) \/ Grow(a)
  \/ AssignNbrThreads(a) \/ IgnoreCall(a)

Next ==
  \/ AppCall
  \/ \E t \in Thread : CommonStep(t)
  \/ \E a \in App : WaitStep(a) \/ SetStep(a)
  \/ \E w \in Worker : WorkerStep(w)

Spec == Init /\ [][Next]_vars

\* The operating system schedules every thread and expires every timeout,
\* and every task body returns.  Nothing is assumed of the calls.
Fairness ==
  /\ \A a \in App : WF_vars(CommonStep(a) \/ WaitStep(a) \/ SetStep(a))
  /\ \A w \in Worker : WF_vars(CommonStep(w) \/ WorkerStep(w))

FairSpec == Spec /\ Fairness

-----------------------------------------------------------------------------
(* Properties.                                                             *)

AppLabel ==
  {"idle", "link", "signal", "check", "deq", "dummy", "body", "return",
   "notify", "wake", "empty", "recheck", "sleep", "set", "shrink", "shrunk",
   "grown"}
WorkerLabel ==
  {"none", "top", "wwait", "wcheck", "deq", "dummy", "body", "link", "signal",
   "return", "notify", "wake", "threw", "dead"}

TypeOK ==
  /\ nbr_threads \in 1 .. MaxThreads
  /\ arr_size \in 0 .. MaxThreads
  /\ exit_flag \in [Worker -> BOOLEAN]
  /\ sync_pool \in 0 .. SemaMax
  /\ sync_workers \in 0 .. SemaMax
  /\ task_pool \in SUBSET Cell
  /\ task_queue \in Seq(Cell \cup {Dummy})
  /\ owner \in [Cell -> Dispatcher \cup {None}]
  /\ task_cnt \in [Dispatcher -> Nat]
  /\ pc \in [Thread -> AppLabel \cup WorkerLabel]
  /\ \A a \in App : pc[a] \in AppLabel
  /\ \A w \in Worker : pc[w] \in WorkerLabel
  /\ task \in [Thread -> Cell \cup {None}]
  /\ new \in [Thread -> Cell \cup {None}]
  /\ disp \in [App -> Dispatcher \cup {None}]
  /\ arg \in [App -> 0 .. MaxThreads]
  /\ aborted \in SUBSET Cell
  /\ ended \in [App -> {"returned", "threw"}]
  /\ cut \in 1 .. MaxThreads
  /\ issued \in Nat
  /\ resized \in Nat

InQueue == ToSet(task_queue)
Tasked  == {t \in Thread : task[t] # None}
Linking == {t \in Thread : new[t] # None}
InHand  == {task[t] : t \in Tasked} \cup {new[t] : t \in Linking}

HeldOnce ==
  /\ \A t, u \in Tasked : task[t] = task[u] => t = u
  /\ \A t, u \in Linking : new[t] = new[u] => t = u
  /\ \A t \in Tasked, u \in Linking : task[t] # new[u]

PlacesDisjoint ==
  /\ task_pool \cap InQueue = {}
  /\ task_pool \cap InHand = {}
  /\ InQueue \cap InHand = {}
  /\ aborted \cap (task_pool \cup InQueue \cup InHand) = {}

\* No cell is ever in two places, among the pool, the queue and the hands of
\* all threads: a task that is enqueued is taken by one thread, and its cell
\* goes back to the pool once.  No cell is lost but that of a task which an
\* exception has ended, and that one never comes back, whatever the caller
\* does next (ThreadPool.cpp:163-215).
CellsInOnePlace ==
  /\ IsInjective(task_queue)
  /\ HeldOnce
  /\ PlacesDisjoint
  /\ Cell = task_pool \cup (InQueue \ {Dummy}) \cup InHand \cup aborted

\* The dummy is in the queue, or one thread is about to push it back: the
\* last task of the queue can always be dequeued (LockFreeQueue.hpp:161-165).
DummyKept ==
  /\ \A t, u \in Thread : pc[t] = "dummy" /\ pc[u] = "dummy" => t = u
  /\ (Dummy \in InQueue) <=> (\A t \in Thread : pc[t] # "dummy")

\* The counter a waiter polls is the number of tasks of the dispatcher that
\* are not over, wherever they are: a task that enqueues another one is
\* counted until after it has, and one that an exception has ended is counted
\* for ever (TaskData.cpp:43-53, 67-76).
CounterCounts ==
  \A d \in Dispatcher :
    task_cnt[d] = Cardinality({c \in Cell : owner[c] = d})

\* A cell belongs to a dispatcher from init to the end of its task.
OwnedWhileOut ==
  \A c \in Cell :
    (owner[c] = None) <=>
      (c \in task_pool \/ \E t \in Tasked : task[t] = c /\ pc[t] = "return")

\* When no call of set_nbr_threads is under way, the workers that run and are
\* not asked to exit are the first nbr_threads - 1, as the number of threads
\* the pool reports and tests says; but for the calls that the exception of
\* signal has ended, whose workers exit while the number stays: the least of
\* their arguments then limits the workers (ThreadPool.cpp:108-152).
WorkersMatch ==
  (\A a \in App : ~InSet(a)) =>
    \A w \in Worker :
      (w < Lesser(nbr_threads, cut) - 1)
        <=> (pc[w] \notin {"none", "dead"} /\ ~exit_flag[w])

\* The tasks as a plug-in sees them.
Stage ==
  [c \in Cell |-> IF owner[c] = None THEN "free"
                  ELSE IF c \in aborted THEN "aborted"
                  ELSE IF \E t \in Tasked : task[t] = c THEN "running"
                  ELSE "scheduled"]

TG == INSTANCE TaskGroup WITH
  Task <- Cell, group <- owner, stage <- Stage, waiting <- disp

\* The pool keeps the promise of TaskGroup: each task is executed once, and
\* wait_completion returns only when no task of its dispatcher is left, those
\* that running tasks and other threads have enqueued included; otherwise it
\* ends by an exception, and the calls made after it keep the promise.
ImplementsTaskGroup == TG!Spec

\* A thread that waits is eventually released, though other waiters take its
\* tokens and the pool may shrink under it, unless a task of its dispatcher
\* has been ended by an exception (ThreadPool.cpp:190-215).
WaitReturns ==
  \A a \in App, d \in Dispatcher :
    disp[a] = d ~>
      disp[a] # d \/ Crashed \/ \E c \in aborted : owner[c] = d

\* A task is executed even if no thread ever waits for it, as long as there
\* are workers (ThreadWorker.cpp:64-87).
TasksRun ==
  \A c \in Cell :
    owner[c] # None ~>
      \/ owner[c] = None \/ c \in aborted
      \/ Crashed \/ Lesser(nbr_threads, cut) = 1

\* A worker that is asked to exit does so (ThreadPool.cpp:120-128).
ExitObeyed ==
  \A w \in Worker : exit_flag[w] ~> pc[w] = "dead" \/ Crashed

\* What the comment of ThreadPool.cpp:135-136 says: the number of threads
\* grows unless it has been reduced before.
GrowsUnlessReduced ==
  [][\A a \in App : IgnoreCall(a) /\ arg[a] > nbr_threads =>
       \E w \in Worker : exit_flag[w]]_vars
=============================================================================
