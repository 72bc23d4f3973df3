----------------------------- MODULE TaskGroup -----------------------------
(***************************************************************************)
(* What AVSTP promises to a plug-in: tasks are attached to a dispatcher,   *)
(* each is executed once, and avstp_wait_completion () returns only when   *)
(* no task attached to the dispatcher is outstanding, the tasks that other *)
(* tasks have enqueued included, or else ends by an exception.  A plug-in  *)
(* knows nothing of the queue, the worker threads, the semaphores or the   *)
(* size of the pool; neither does this module.  ThreadPool is shown to     *)
(* implement it.                                                           *)
(***************************************************************************)
CONSTANTS
  App,          \* the application threads
  Dispatcher,   \* the dispatchers they have created
  Task,         \* names for the tasks outstanding at a time
  None

VARIABLES
  group,        \* group[k]: the dispatcher task k is attached to, or None
  stage,        \* stage[k]: where task k stands in its life
  waiting,      \* waiting[a]: the dispatcher thread a waits for, or None
  ended         \* ended[a]: how the last wait of a has ended

vars == <<group, stage, waiting, ended>>

Init ==
  /\ group = [k \in Task |-> None]
  /\ stage = [k \in Task |-> "free"]
  /\ waiting = [a \in App |-> None]
  /\ ended = [a \in App |-> "returned"]

\* A task is enqueued, by an application thread or by a running task.
Schedule(k, d) ==
  /\ stage[k] = "free"
  /\ stage' = [stage EXCEPT ![k] = "scheduled"]
  /\ group' = [group EXCEPT ![k] = d]
  /\ UNCHANGED <<waiting, ended>>

Start(k) ==
  /\ stage[k] = "scheduled"
  /\ stage' = [stage EXCEPT ![k] = "running"]
  /\ UNCHANGED <<group, waiting, ended>>

Complete(k) ==
  /\ stage[k] = "running"
  /\ stage' = [stage EXCEPT ![k] = "free"]
  /\ group' = [group EXCEPT ![k] = None]
  /\ UNCHANGED <<waiting, ended>>

CallWait(a, d) ==
  /\ waiting[a] = None
  /\ waiting' = [waiting EXCEPT ![a] = d]
  /\ UNCHANGED <<group, stage, ended>>

ReturnFromWait(a) ==
  /\ waiting[a] # None
  /\ \A k \in Task : group[k] # waiting[a]
  /\ waiting' = [waiting EXCEPT ![a] = None]
  /\ ended' = [ended EXCEPT ![a] = "returned"]
  /\ UNCHANGED <<group, stage>>

\* An exception ends the wait, with tasks outstanding or not.  It may have
\* ended a task that the thread was executing; the group keeps that one.
ThrowFromWait(a) ==
  /\ waiting[a] # None
  /\ waiting' = [waiting EXCEPT ![a] = None]
  /\ ended' = [ended EXCEPT ![a] = "threw"]
  /\ \/ UNCHANGED stage
     \/ \E k \in Task : /\ stage[k] = "running"
                       /\ stage' = [stage EXCEPT ![k] = "aborted"]
  /\ UNCHANGED group

Next ==
  \/ \E k \in Task, d \in Dispatcher : Schedule(k, d)
  \/ \E k \in Task : Start(k) \/ Complete(k)
  \/ \E a \in App, d \in Dispatcher : CallWait(a, d)
  \/ \E a \in App : ReturnFromWait(a) \/ ThrowFromWait(a)

Spec == Init /\ [][Next]_vars
=============================================================================
