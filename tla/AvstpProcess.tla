---------------------------- MODULE AvstpProcess ----------------------------
(***************************************************************************)
(* A process with plug-ins that find the library and unload it             *)
(* (AvstpFinder), and the pool of each copy that is loaded (PoolShutdown). *)
(* They meet in the lock of the loader: a thread of a pool needs it to     *)
(* begin and to end, the thread that loads or unloads a copy holds it, and *)
(* ~ThreadPool runs in the unloading of its copy.                          *)
(***************************************************************************)
EXTENDS PoolShutdown

vars == <<finderVars, poolVars>>

Init == FinderInit /\ PoolInit

\* A user of the library calls it for the first time.
UsePool(p) ==
  /\ pc[p] = IF p \in Host THEN "loaded" ELSE "ready"
  /\ hnd[p] # None
  /\ CreatePool(hnd[p])
  /\ UNCHANGED finderVars

SetNbrThreads(p, w) ==
  /\ pc[p] = IF p \in Host THEN "loaded" ELSE "ready"
  /\ hnd[p] # None
  /\ Reduce(hnd[p], w)
  /\ UNCHANGED finderVars

\* The static objects of the copy are destroyed, then the copy is unmapped.
Unload(p) ==
  /\ pc[p] = "detach"
  /\ \/ /\ Destructor(path[p])
        /\ UNCHANGED finderVars
     \/ /\ pool[path[p]] \in {"none", "freed"}
        /\ EndDetach(p)
        /\ UNCHANGED poolVars

ActorStep(p) ==
  \/ Continue(p) /\ UNCHANGED poolVars
  \/ Unload(p)

WorkerStep(l, w) ==
  /\ \/ LoaderFree /\ Notified(l, w)
     \/ Inside(l, w)
  /\ UNCHANGED finderVars

Next ==
  \/ \E p \in Actor : Decide(p) /\ UNCHANGED poolVars
  \/ \E p \in Actor : UsePool(p) \/ (\E w \in Worker : SetNbrThreads(p, w))
  \/ \E p \in Actor : ActorStep(p)
  \/ \E l \in Lib, w \in Worker : WorkerStep(l, w)

Spec == Init /\ [][Next]_vars

\* The system schedules every thread, and gives the lock of the loader and
\* the mutex to one that waits for them.
FairSpec ==
  /\ Spec
  /\ \A p \in Actor : WF_vars(ActorStep(p))
  /\ \A l \in Lib, w \in Worker : WF_vars(WorkerStep(l, w))

-----------------------------------------------------------------------------
(* Properties.                                                             *)

Mapped(l) == refs[l] > 0 \/ \E p \in Actor : pc[p] = "detach" /\ path[p] = l

\* The code of a copy outlives the functions of the wrappers.  It and the
\* object of a worker outlive the run of the worker, which has been killed,
\* whatever it was doing, before its object is destroyed.  A run goes from the
\* setting of _run_flag to the clearing: a thread that had not begun (it is not
\* killed, for its flag is still false) finds the object gone, and one that had
\* ended may find the code of its last return gone; neither is covered
\* (ThreadPool.cpp:64-74, ThreadBase.cpp:73-87, 164-174; AvstpWrapper.cpp:62-68).
RunsSafely ==
  /\ PoolTypeOK
  /\ \A l \in Lib, w \in Worker :
       wpc[l][w] \in {"top", "work", "over"} =>
         run_flag[l][w] /\ ~Destroyed(l, w) /\ Mapped(l)
  /\ \A p \in Plugin : fnc[p] = "normal" => Mapped(hnd[p])

\* A search and an unloading always end: the loader of a copy never waits for
\* the mutex, which a finder holds while it waits for the lock of the loader;
\* and ~ThreadPool does not wait for ever for workers that need the lock it
\* holds in order to end.  Calls being in finite number, each ends if time and
\* again none is under way (AvstpFinder.cpp:60-67, 142-167; ThreadPool.cpp:70).
Busy(p) == pc[p] \notin {"idle", "ready", "loaded"}
CallsEnd == []<>(\A p \in Actor : ~Busy(p))
=============================================================================
