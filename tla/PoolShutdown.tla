---------------------------- MODULE PoolShutdown ----------------------------
(***************************************************************************)
(* The life of the threads of a pool, from ThreadBase::ThreadBase to their *)
(* death, and ThreadPool::~ThreadPool, which asks the workers to exit,     *)
(* waits 0.1 s for each and kills those that run all the same.  Each copy  *)
(* of the library (AvstpFinder) has its pool.  What workers do between two *)
(* tests of their exit flag is one step (see ThreadPool).                  *)
(*                                                                         *)
(* A new thread, or one that ends, calls the entry points of the libraries *)
(* of the process, under the lock of the loader; the thread that unloads a *)
(* library and runs ~ThreadPool holds it.  This module has no              *)
(* specification of its own: AvstpProcess says when each action may occur. *)
(***************************************************************************)
EXTENDS AvstpFinder, Integers

CONSTANT NbrWorkers    \* the workers of a pool

ASSUME WorkerAssumption == NbrWorkers \in Nat

Worker == 1 .. NbrWorkers

VARIABLES
  pool,         \* pool[l]: "none", "up", "join", "test", "kill" or "freed"
  cnt,          \* cnt[l]: the index of the loop of ~ThreadPool
  exit_flag,    \* exit_flag[l][w]: ThreadWorker::_exit_flag
  run_flag,     \* run_flag[l][w]: ThreadBase::_run_flag
  wpc           \* wpc[l][w]: what the thread does next

poolVars == <<pool, cnt, exit_flag, run_flag, wpc>>

PoolInit ==
  /\ pool = [l \in Lib |-> "none"]
  /\ cnt = [l \in Lib |-> 1]
  /\ exit_flag = [l \in Lib |-> [w \in Worker |-> FALSE]]
  /\ run_flag = [l \in Lib |-> [w \in Worker |-> FALSE]]
  /\ wpc = [l \in Lib |-> [w \in Worker |-> "none"]]

\* worker_sptr.reset () has destroyed the object of the worker.
Destroyed(l, w) == pool[l] = "freed" \/ w < cnt[l]

\* A step that reads or writes the object goes astray if it is destroyed.
Touch(l, w, next) ==
  wpc' = [wpc EXCEPT ![l][w] = IF Destroyed(l, w) THEN "astray" ELSE next]

SetPool(l, s) == pool' = [pool EXCEPT ![l] = s]

-----------------------------------------------------------------------------
(* ThreadBase and ThreadWorker.                                            *)

\* The first call creates the pool: its threads are created suspended, and
\* resumed by run ().
CreatePool(l) ==
  /\ pool[l] = "none"
  /\ SetPool(l, "up")
  /\ wpc' = [wpc EXCEPT ![l] = [w \in Worker |-> "new"]]
  /\ UNCHANGED <<cnt, exit_flag, run_flag>>

Attach(l, w) ==
  /\ wpc[l][w] = "new"
  /\ wpc' = [wpc EXCEPT ![l][w] = "attached"]
  /\ UNCHANGED <<pool, cnt, exit_flag, run_flag>>

\* dispatch_and_run: the thread itself sets _run_flag, when it gets to run.
Begin(l, w) ==
  /\ wpc[l][w] = "attached"
  /\ Touch(l, w, "top")
  /\ run_flag' = IF Destroyed(l, w) THEN run_flag
                 ELSE [run_flag EXCEPT ![l][w] = TRUE]
  /\ UNCHANGED <<pool, cnt, exit_flag>>

TestExit(l, w) ==
  /\ wpc[l][w] = "top"
  /\ Touch(l, w, IF exit_flag[l][w] THEN "over" ELSE "work")
  /\ UNCHANGED <<pool, cnt, exit_flag, run_flag>>

\* worker_wait, which ends in 0.1 s at most, and the tasks it finds.
Work(l, w) ==
  /\ wpc[l][w] = "work"
  /\ Touch(l, w, "top")
  /\ UNCHANGED <<pool, cnt, exit_flag, run_flag>>

\* do_run has returned; then nothing of the object is accessed any more.
EndRun(l, w) ==
  /\ wpc[l][w] = "over"
  /\ Touch(l, w, "leaving")
  /\ run_flag' = IF Destroyed(l, w) THEN run_flag
                 ELSE [run_flag EXCEPT ![l][w] = FALSE]
  /\ UNCHANGED <<pool, cnt, exit_flag>>

Leave(l, w) ==
  /\ wpc[l][w] = "leaving"
  /\ wpc' = [wpc EXCEPT ![l][w] = "gone"]
  /\ UNCHANGED <<pool, cnt, exit_flag, run_flag>>

\* set_nbr_threads asks the workers from w on to exit.
Reduce(l, w) ==
  /\ pool[l] = "up"
  /\ exit_flag' = [exit_flag EXCEPT ![l] = [v \in Worker |-> @[v] \/ v >= w]]
  /\ UNCHANGED <<pool, cnt, run_flag, wpc>>

-----------------------------------------------------------------------------
(* ThreadPool::~ThreadPool.                                                *)

\* The exit flags, then the signal.  The semaphore is taken to have room for
\* it: at the limit, signal would throw out of a destructor, and the process
\* end there.
AskAll(l) ==
  /\ pool[l] = "up"
  /\ exit_flag' = [exit_flag EXCEPT ![l] = [w \in Worker |-> TRUE]]
  /\ SetPool(l, "join")
  /\ UNCHANGED <<cnt, run_flag, wpc>>

\* WaitForSingleObject on the thread: it is dead, or the timeout expires.
IsDead(l, w) == wpc[l][w] \in {"gone", "killed"}
MutantInfinite(l, w) == FALSE
TimesOut(l, w) == ~IsDead(l, w)

WaitForDeath(l) ==
  /\ pool[l] = "join"
  /\ cnt[l] \in Worker
  /\ IsDead(l, cnt[l]) \/ TimesOut(l, cnt[l])
  /\ SetPool(l, "test")
  /\ UNCHANGED <<cnt, exit_flag, run_flag, wpc>>

\* ~ThreadBase: if (_run_flag) kill ();
MutantNeverKills(l, w) == FALSE
MustKill(l, w) == run_flag[l][w]

TestRunFlag(l) ==
  /\ pool[l] = "test"
  /\ \/ /\ MustKill(l, cnt[l])
        /\ SetPool(l, "kill")
        /\ UNCHANGED cnt
     \/ /\ ~MustKill(l, cnt[l])
        /\ SetPool(l, "join")
        /\ cnt' = [cnt EXCEPT ![l] = @ + 1]
  /\ UNCHANGED <<exit_flag, run_flag, wpc>>

Kill(l) ==
  /\ pool[l] = "kill"
  /\ wpc' = [wpc EXCEPT ![l][cnt[l]] = IF @ = "gone" THEN @ ELSE "killed"]
  /\ run_flag' = [run_flag EXCEPT ![l][cnt[l]] = FALSE]
  /\ SetPool(l, "join")
  /\ cnt' = [cnt EXCEPT ![l] = @ + 1]
  /\ UNCHANGED exit_flag

FreePool(l) ==
  /\ pool[l] = "join"
  /\ cnt[l] \notin Worker
  /\ SetPool(l, "freed")
  /\ UNCHANGED <<cnt, exit_flag, run_flag, wpc>>

Destructor(l) ==
  AskAll(l) \/ WaitForDeath(l) \/ TestRunFlag(l) \/ Kill(l) \/ FreePool(l)

-----------------------------------------------------------------------------
\* The steps of a worker that need the lock of the loader, and the others.
Notified(l, w) == Attach(l, w) \/ Leave(l, w)
Inside(l, w) == Begin(l, w) \/ TestExit(l, w) \/ Work(l, w) \/ EndRun(l, w)

PoolTypeOK ==
  /\ pool \in [Lib -> {"none", "up", "join", "test", "kill", "freed"}]
  /\ cnt \in [Lib -> 1 .. NbrWorkers + 1]
  /\ exit_flag \in [Lib -> [Worker -> BOOLEAN]]
  /\ run_flag \in [Lib -> [Worker -> BOOLEAN]]
  /\ wpc \in [Lib -> [Worker -> {"none", "new", "attached", "top", "work",
                                 "over", "leaving", "gone", "killed",
                                 "astray"}]]
=============================================================================
