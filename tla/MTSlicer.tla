------------------------------ MODULE MTSlicer ------------------------------
(***************************************************************************)
(* MTSlicer: a plane is cut in slices, one task each, and the slicer waits *)
(* for them before it is used again or destroyed.  The library is the one  *)
(* TaskGroup specifies, reached through AvstpWrapper; without avstp.dll    *)
(* the wrapper has functions of its own, which run a task at once.         *)
(***************************************************************************)
EXTENDS Integers, FiniteSets

CONSTANTS
  Slicer,      \* the slicers, each used by one thread at a time
  Dispatcher,  \* the dispatchers of the library
  Dummy,       \* AvstpWrapper::_dummy_dispatcher
  None,        \* a null pointer
  MAXT,        \* maximum number of slices, a template parameter
  NbrThreads,  \* what the library may answer to avstp_get_nbr_threads
  MaxHeight,   \* bound on the height of a plane
  MaxMin,      \* bound on min_slice_h
  MaxStarts    \* bound on the calls of start of each slicer

\* The last conjunct keeps the product of SliceEnd within an int.
ASSUME SlicerAssumption ==
  /\ None \notin Dispatcher \cup {Dummy} /\ Dummy \notin Dispatcher
  /\ MAXT \in Nat \ {0} /\ MaxHeight \in Nat
  /\ MaxMin \in Nat \ {0} /\ MaxStarts \in Nat
  /\ NbrThreads \subseteq Nat
  /\ MAXT * MaxHeight <= 2147483647

Index == 0 .. MAXT - 1
Task == Slicer \X Index

VARIABLES
  fallback,        \* TRUE: avstp.dll has not been found
  mt_flag,         \* _mt_flag of each slicer
  proc_ptr,        \* proc_ptr[s]: _proc_ptr is not null
  dispatcher_ptr,  \* _dispatcher_ptr of each slicer
  task_data_arr,   \* _task_data_arr of each slicer, the bounds of each task
  nbr_threads,     \* number of slices of the last start
  height,          \* height of the last start
  min_slice_h,     \* min_slice_h of the last start
  t_cnt,           \* number of tasks start has enqueued
  aborted,         \* aborted[s]: start has thrown
  dying,           \* dying[s]: the destructor has been called
  lines,           \* lines[s][y]: times line y has been processed since start
  starts,          \* starts[s]: number of calls of start
  pc,              \* what the user of each slicer does next
  group, stage, waiting, ended   \* those of TaskGroup

group_vars == <<group, stage, waiting, ended>>
start_vars == <<task_data_arr, nbr_threads, height, min_slice_h>>
vars == <<fallback, mt_flag, proc_ptr, dispatcher_ptr, start_vars, t_cnt,
          aborted, dying, lines, starts, pc, group_vars>>

Library == INSTANCE TaskGroup WITH App <- Slicer

Line == 0 .. MaxHeight - 1
NoLine == [y \in Line |-> 0]

Init ==
  /\ fallback \in BOOLEAN
  /\ mt_flag \in [Slicer -> BOOLEAN]
  /\ proc_ptr = [s \in Slicer |-> FALSE]
  /\ dispatcher_ptr = [s \in Slicer |-> None]
  /\ task_data_arr = [s \in Slicer |-> [i \in Index |-> [y_beg |-> 0, y_end |-> 0]]]
  /\ nbr_threads = [s \in Slicer |-> 1]
  /\ height = [s \in Slicer |-> 0]
  /\ min_slice_h = [s \in Slicer |-> 1]
  /\ t_cnt = [s \in Slicer |-> 0]
  /\ aborted = [s \in Slicer |-> FALSE]
  /\ dying = [s \in Slicer |-> FALSE]
  /\ lines = [s \in Slicer |-> NoLine]
  /\ starts = [s \in Slicer |-> 0]
  /\ pc = [s \in Slicer |-> "idle"]
  /\ Library!Init

Goto(s, l) == pc' = [pc EXCEPT ![s] = l]

-----------------------------------------------------------------------------
(* The slices.                                                             *)

\* As many as there are threads, but none smaller than the minimum.
NbrSlices(n, h, m) ==
  LET Least(a, b) == IF a < b THEN a ELSE b
      k == Least(Least(n, MAXT), h \div m)
  IN  IF k > 1 THEN k ELSE 1

MutantRounded(i, h, k) == (i + 1) * (h \div k)
SliceEnd(i, h, k) == ((i + 1) * h) \div k

Slice(i, h, k) ==
  [y_beg |-> IF i = 0 THEN 0 ELSE SliceEnd(i - 1, h, k),
   y_end |-> SliceEnd(i, h, k)]

\* The callback has the lines of a task.
Process(s, data) ==
  lines' = [lines EXCEPT ![s] =
              [y \in Line |-> IF y \in data.y_beg .. data.y_end - 1
                              THEN @[y] + 1 ELSE @[y]]]

-----------------------------------------------------------------------------
(* start.                                                                  *)

Called(s) ==
  /\ pc[s] = "idle"
  /\ starts[s] < MaxStarts
  /\ starts' = [starts EXCEPT ![s] = @ + 1]
  /\ proc_ptr' = [proc_ptr EXCEPT ![s] = TRUE]

CallStart(s, h, m) ==
  /\ mt_flag[s]
  /\ Called(s)
  /\ \E n \in IF fallback THEN {1} ELSE NbrThreads :
       LET k == NbrSlices(n, h, m) IN
       /\ nbr_threads' = [nbr_threads EXCEPT ![s] = k]
       /\ task_data_arr' = [task_data_arr EXCEPT ![s] =
            [i \in Index |-> IF i < k THEN Slice(i, h, k) ELSE @[i]]]
  /\ height' = [height EXCEPT ![s] = h]
  /\ min_slice_h' = [min_slice_h EXCEPT ![s] = m]
  /\ t_cnt' = [t_cnt EXCEPT ![s] = 0]
  /\ lines' = [lines EXCEPT ![s] = NoLine]
  /\ Goto(s, "create")
  /\ UNCHANGED <<fallback, mt_flag, dispatcher_ptr, aborted, dying, group_vars>>

\* Without multi-threading the plane is processed by the caller at once.
CallStartAlone(s, h) ==
  /\ ~mt_flag[s]
  /\ Called(s)
  /\ height' = [height EXCEPT ![s] = h]
  /\ lines' = [lines EXCEPT ![s] = [y \in Line |-> IF y < h THEN 1 ELSE 0]]
  /\ Goto(s, "started")
  /\ UNCHANGED <<fallback, mt_flag, dispatcher_ptr, task_data_arr, nbr_threads,
                 min_slice_h, t_cnt, aborted, dying, group_vars>>

\* avstp_create_dispatcher gives a dispatcher nobody has, or a null pointer,
\* which start goes on with: what follows is undefined.
CreateDispatcher(s) ==
  /\ pc[s] = "create"
  /\ \E d \in (IF fallback THEN {Dummy} ELSE Dispatcher \cup {None}) :
       /\ d \in Dispatcher => \A u \in Slicer : dispatcher_ptr[u] # d
       /\ dispatcher_ptr' = [dispatcher_ptr EXCEPT ![s] = d]
       /\ Goto(s, IF d = None THEN "undefined" ELSE "enqueue")
  /\ UNCHANGED <<fallback, mt_flag, proc_ptr, start_vars, t_cnt, aborted, dying,
                 lines, starts, group_vars>>

NextTask(s) ==
  /\ pc[s] = "enqueue"
  /\ t_cnt' = [t_cnt EXCEPT ![s] = @ + 1]
  /\ Goto(s, IF t_cnt'[s] = nbr_threads[s] THEN "started" ELSE "enqueue")
  /\ UNCHANGED <<fallback, mt_flag, proc_ptr, dispatcher_ptr, start_vars,
                 aborted, dying, starts>>

EnqueueTask(s) ==
  /\ ~fallback
  /\ NextTask(s)
  /\ Library!Schedule(<<s, t_cnt[s]>>, dispatcher_ptr[s])
  /\ UNCHANGED lines

\* fallback_enqueue_task_ptr executes the task.
EnqueueFallback(s) ==
  /\ fallback
  /\ NextTask(s)
  /\ Process(s, task_data_arr[s][t_cnt[s]])
  /\ UNCHANGED group_vars

\* avstp_enqueue_task throws, for want of a cell or after the task has been
\* enqueued; the stack of the caller is unwound.
EnqueueThrows(s) ==
  /\ ~fallback
  /\ pc[s] = "enqueue"
  /\ \/ Library!Schedule(<<s, t_cnt[s]>>, dispatcher_ptr[s])
     \/ UNCHANGED group_vars
  /\ aborted' = [aborted EXCEPT ![s] = TRUE]
  /\ Goto(s, "started")
  /\ UNCHANGED <<fallback, mt_flag, proc_ptr, dispatcher_ptr, start_vars, t_cnt,
                 dying, lines, starts>>

-----------------------------------------------------------------------------
(* The tasks, executed by any thread of the library: redirect_task.        *)

StartTask(k) ==
  /\ Library!Start(k)
  /\ UNCHANGED <<fallback, mt_flag, proc_ptr, dispatcher_ptr, start_vars, t_cnt,
                 aborted, dying, lines, starts, pc>>

CompleteTask(k) ==
  /\ Library!Complete(k)
  /\ Process(k[1], task_data_arr[k[1]][k[2]])
  /\ UNCHANGED <<fallback, mt_flag, proc_ptr, dispatcher_ptr, start_vars, t_cnt,
                 aborted, dying, starts, pc>>

-----------------------------------------------------------------------------
(* wait, and the destructor.                                               *)

MutantNoWait(s) == Goto(s, "waited") /\ UNCHANGED group_vars
\* wait_completion of the fallback has nothing to wait for.
WaitCompletion(s) ==
  \/ /\ mt_flag[s] /\ ~fallback
     /\ Library!CallWait(s, dispatcher_ptr[s])
     /\ Goto(s, "waiting")
  \/ /\ ~mt_flag[s] \/ fallback
     /\ Goto(s, "waited")
     /\ UNCHANGED group_vars

CallWait(s) ==
  /\ pc[s] = "started"
  /\ ~aborted[s]
  /\ WaitCompletion(s)
  /\ UNCHANGED <<fallback, mt_flag, proc_ptr, dispatcher_ptr, start_vars, t_cnt,
                 aborted, dying, lines, starts>>

MutantDtorNeverWaits(s) == FALSE
DtorWaits(s) == dispatcher_ptr[s] # None

\* A slicer that has been started and not waited for is destroyed when an
\* exception crosses the function that uses it.
Destroy(s) ==
  /\ pc[s] \in {"idle", "started"}
  /\ dying' = [dying EXCEPT ![s] = TRUE]
  /\ \/ /\ DtorWaits(s)
        /\ WaitCompletion(s)
     \/ /\ ~DtorWaits(s)
        /\ Goto(s, "dead")
        /\ UNCHANGED group_vars
  /\ UNCHANGED <<fallback, mt_flag, proc_ptr, dispatcher_ptr, start_vars, t_cnt,
                 aborted, lines, starts>>

ReturnFromWait(s) ==
  /\ pc[s] = "waiting"
  /\ Library!ReturnFromWait(s)
  /\ Goto(s, "waited")
  /\ UNCHANGED <<fallback, mt_flag, proc_ptr, dispatcher_ptr, start_vars, t_cnt,
                 aborted, dying, lines, starts>>

\* An exception of wait_completion leaves the slicer as it was: the user may
\* wait again, or the slicer is destroyed.  The tasks of a slicer enqueue none,
\* so that none is cut short.  Out of the destructor the exception ends the
\* process: nothing follows.
ThrowFromWait(s) ==
  /\ pc[s] = "waiting"
  /\ ~dying[s]
  /\ Library!ThrowFromWait(s)
  /\ Goto(s, "started")
  /\ UNCHANGED <<fallback, mt_flag, proc_ptr, dispatcher_ptr, start_vars, t_cnt,
                 aborted, dying, lines, starts, stage>>

\* destroy_dispatcher, then the pointers are cleared.
DestroyDispatcher(s) ==
  /\ pc[s] = "waited"
  /\ proc_ptr' = [proc_ptr EXCEPT ![s] = FALSE]
  /\ dispatcher_ptr' = [dispatcher_ptr EXCEPT ![s] = None]
  /\ Goto(s, IF dying[s] THEN "dead" ELSE "idle")
  /\ UNCHANGED <<fallback, mt_flag, start_vars, t_cnt, aborted, dying, lines,
                 starts, group_vars>>

-----------------------------------------------------------------------------
UserStep(s) ==
  \/ \E h \in 1 .. MaxHeight :
       \/ CallStartAlone(s, h)
       \/ \E m \in 1 .. MaxMin : CallStart(s, h, m)
  \/ CreateDispatcher(s) \/ EnqueueTask(s) \/ EnqueueFallback(s)
  \/ EnqueueThrows(s) \/ CallWait(s) \/ Destroy(s) \/ ReturnFromWait(s)
  \/ ThrowFromWait(s) \/ DestroyDispatcher(s)

Next ==
  \/ \E s \in Slicer : UserStep(s)
  \/ \E k \in Task : StartTask(k) \/ CompleteTask(k)

Spec == Init /\ [][Next]_vars

-----------------------------------------------------------------------------
(* Properties.                                                             *)

Bounds == 0 .. MaxHeight

TypeOK ==
  /\ fallback \in BOOLEAN
  /\ mt_flag \in [Slicer -> BOOLEAN]
  /\ proc_ptr \in [Slicer -> BOOLEAN]
  /\ dispatcher_ptr \in [Slicer -> Dispatcher \cup {Dummy, None}]
  /\ task_data_arr \in [Slicer -> [Index -> [y_beg : Bounds, y_end : Bounds]]]
  /\ nbr_threads \in [Slicer -> 1 .. MAXT]
  /\ height \in [Slicer -> Bounds]
  /\ min_slice_h \in [Slicer -> 1 .. MaxMin]
  /\ t_cnt \in [Slicer -> 0 .. MAXT]
  /\ aborted \in [Slicer -> BOOLEAN]
  /\ dying \in [Slicer -> BOOLEAN]
  /\ lines \in [Slicer -> [Line -> Nat]]
  /\ starts \in [Slicer -> 0 .. MaxStarts]
  /\ pc \in [Slicer -> {"idle", "create", "undefined", "enqueue", "started",
                        "waiting", "waited", "dead"}]

\* k slices tile a plane of h lines, and have m lines at least; a plane of
\* less is one slice.
Tile(data, k, h, m) ==
  /\ data[0].y_beg = 0 /\ data[k - 1].y_end = h
  /\ \A i \in 1 .. k - 1 : data[i].y_beg = data[i - 1].y_end
  /\ k = 1 \/ \A i \in 0 .. k - 1 : data[i].y_end - data[i].y_beg >= m

\* The slices cover the plane from the first line to the last, without a gap
\* or an overlap, and none is smaller than the minimum asked for, but for a
\* plane that is (MTSlicer.hpp:153-171).
SlicesTile ==
  \A s \in {u \in Slicer : pc[u] = "create"} :
    Tile(task_data_arr[s], nbr_threads[s], height[s], min_slice_h[s])

\* No line is processed twice; when wait returns, every line has been, unless
\* start has thrown (MTSlicer.hpp:145-228).
LinesOnce ==
  \A s \in Slicer :
    /\ \A y \in Line : lines[s][y] <= (IF y < height[s] THEN 1 ELSE 0)
    /\ pc[s] = "waited" /\ ~aborted[s] => \A y \in Line : y < height[s] => lines[s][y] = 1

\* A task finds its slicer as start has left it: never destroyed, nor waited
\* for and maybe started again, however start and wait have ended; what the
\* assertions on _slicer_ptr and _proc_ptr say (MTSlicer.hpp:267-282).
NoTaskLeft ==
  /\ TypeOK
  /\ \A s \in Slicer, i \in Index :
       stage[<<s, i>>] # "free" =>
         /\ pc[s] \in {"enqueue", "started", "waiting"}
         /\ proc_ptr[s]
         /\ group[<<s, i>>] = dispatcher_ptr[s]
         /\ i < t_cnt[s] + (IF aborted[s] THEN 1 ELSE 0)
=============================================================================
