--------------------------- MODULE DispatcherPool ---------------------------
(***************************************************************************)
(* avstp_create_dispatcher, avstp_destroy_dispatcher and                   *)
(* avstp_get_nbr_threads, by any number of threads: the singletons         *)
(* TaskDispPool and ThreadPool are constructed on the first call that      *)
(* needs them, and the dispatchers are recycled by conc::ObjPool.          *)
(* Memory may be exhausted at any time.  LockFreeStack and CellPool are    *)
(* atomic here (see their own modules), the cells are counted.             *)
(***************************************************************************)
EXTENDS Integers, Sequences, SequencesExt, FiniteSets

CONSTANTS
  Thread,     \* threads of the process
  Obj,        \* addresses for dispatchers; bounds those alive at a time
  None        \* a null pointer

ASSUME DispatcherAssumption == None \notin Obj \cup Thread

Singleton == {"disp_pool", "thread_pool"}

VARIABLES
  instances,  \* instances[s]: number of constructions of singleton s
  init_flag,  \* init_flag[s]: _singleton_init_flag
  mutex_new,  \* mutex_new[s]: owner of mutex_new, or None
  stack_free, \* the dispatchers in _stack_free, the top first
  stack_all,  \* the dispatchers in _stack_all
  used_cells, \* number of cells out of _obj_cell_pool_ptr
  alive,      \* the dispatchers constructed and not deleted
  out,        \* the dispatchers the application has
  closed,     \* the static objects of the library have been destroyed
  pc,         \* what each thread does next
  call,       \* call[t]: the function of the interface t is in, or was last
  single,     \* single[t]: the singleton t calls use_instance of
  obj_ptr     \* obj_ptr[t]: the dispatcher t creates or destroys, or None

vars == <<instances, init_flag, mutex_new, stack_free, stack_all, used_cells,
          alive, out, closed, pc, call, single, obj_ptr>>
singletons == <<instances, init_flag, mutex_new>>
objects == <<stack_free, stack_all, used_cells, alive, out, closed>>

Init ==
  /\ instances = [s \in Singleton |-> 0]
  /\ init_flag = [s \in Singleton |-> FALSE]
  /\ mutex_new = [s \in Singleton |-> None]
  /\ stack_free = << >>
  /\ stack_all = {}
  /\ used_cells = 0
  /\ alive = {}
  /\ out = {}
  /\ closed = FALSE
  /\ pc = [t \in Thread |-> "idle"]
  /\ call = [t \in Thread |-> "create"]
  /\ single = [t \in Thread |-> "disp_pool"]
  /\ obj_ptr = [t \in Thread |-> None]

Goto(t, l) == pc' = [pc EXCEPT ![t] = l]
Carry(t, d) == obj_ptr' = [obj_ptr EXCEPT ![t] = d]

-----------------------------------------------------------------------------
(* The calls of the interface.                                             *)

\* t calls f, which begins with use_instance of singleton s.
Call(t, f, s) ==
  /\ ~closed
  /\ pc[t] = "idle"
  /\ call' = [call EXCEPT ![t] = f]
  /\ single' = [single EXCEPT ![t] = s]
  /\ Goto(t, "check")

CallCreate(t) ==
  /\ Call(t, "create", "disp_pool")
  /\ UNCHANGED <<singletons, objects, obj_ptr>>

\* The application destroys a dispatcher once, from any thread.
CallDestroy(t, d) ==
  /\ Call(t, "destroy", "disp_pool")
  /\ d \in out
  /\ out' = out \ {d}
  /\ Carry(t, d)
  /\ UNCHANGED <<singletons, stack_free, stack_all, used_cells, alive, closed>>

CallGetNbrThreads(t) ==
  /\ Call(t, "get_nbr_threads", "thread_pool")
  /\ UNCHANGED <<singletons, objects, obj_ptr>>

-----------------------------------------------------------------------------
(* use_instance, the same for both singletons.                             *)

\* Where a thread goes with the instance.
AfterInstance(t) ==
  CASE call[t] = "destroy" -> "return"
    [] call[t] = "get_nbr_threads" -> "idle"
    [] call[t] = "create" /\ single[t] = "disp_pool" -> "pop"
    [] call[t] = "create" /\ single[t] = "thread_pool" -> "new"

Release(s) == mutex_new' = [mutex_new EXCEPT ![s] = None]

\* First check.
Check(t) ==
  /\ pc[t] = "check"
  /\ Goto(t, IF init_flag[single[t]] THEN AfterInstance(t) ELSE "lock")
  /\ UNCHANGED <<singletons, objects, call, single, obj_ptr>>

Lock(t) ==
  /\ pc[t] = "lock"
  /\ mutex_new[single[t]] = None
  /\ mutex_new' = [mutex_new EXCEPT ![single[t]] = t]
  /\ Goto(t, "recheck")
  /\ UNCHANGED <<instances, init_flag, objects, call, single, obj_ptr>>

\* Double check.
MutantNoDoubleCheck(s) == TRUE
MustConstruct(s) == ~init_flag[s]

Recheck(t) ==
  /\ pc[t] = "recheck"
  /\ \/ /\ MustConstruct(single[t])
        /\ Goto(t, "construct")
        /\ UNCHANGED mutex_new
     \/ /\ ~MustConstruct(single[t])
        /\ Release(single[t])
        /\ Goto(t, AfterInstance(t))
  /\ UNCHANGED <<instances, init_flag, objects, call, single, obj_ptr>>

\* The constructor may throw; the caller then returns a null pointer.
Construct(t) ==
  /\ pc[t] = "construct"
  /\ \/ /\ instances' = [instances EXCEPT ![single[t]] = @ + 1]
        /\ Goto(t, "publish")
        /\ UNCHANGED mutex_new
     \/ /\ Release(single[t])
        /\ Goto(t, "idle")
        /\ UNCHANGED instances
  /\ UNCHANGED <<init_flag, objects, call, single, obj_ptr>>

Publish(t) ==
  /\ pc[t] = "publish"
  /\ init_flag' = [init_flag EXCEPT ![single[t]] = TRUE]
  /\ Release(single[t])
  /\ Goto(t, AfterInstance(t))
  /\ UNCHANGED <<instances, objects, call, single, obj_ptr>>

-----------------------------------------------------------------------------
(* ObjPool::take_obj.                                                      *)

\* A dispatcher is recycled, or must be created.
PopFree(t) ==
  /\ pc[t] = "pop"
  /\ \/ /\ stack_free # << >>
        /\ stack_free' = Tail(stack_free)
        /\ Carry(t, Head(stack_free))
        /\ Goto(t, "recycle")
        /\ UNCHANGED single
     \/ /\ stack_free = << >>
        /\ single' = [single EXCEPT ![t] = "thread_pool"]
        /\ Goto(t, "check")
        /\ UNCHANGED <<stack_free, obj_ptr>>
  /\ UNCHANGED <<singletons, stack_all, used_cells, alive, out, closed, call>>

MutantCellKept == UNCHANGED used_cells
return_cell == used_cells' = used_cells - 1

\* The dispatcher goes to the application, its cell to the pool of cells.
Recycle(t) ==
  /\ pc[t] = "recycle"
  /\ return_cell
  /\ out' = out \cup {obj_ptr[t]}
  /\ Carry(t, None)
  /\ Goto(t, "idle")
  /\ UNCHANGED <<singletons, stack_free, stack_all, alive, closed, call, single>>

\* do_create: new TaskDispatcher, or null.
New(t) ==
  /\ pc[t] = "new"
  /\ \/ \E d \in Obj \ alive :
          /\ alive' = alive \cup {d}
          /\ Carry(t, d)
          /\ Goto(t, "cell")
     \/ /\ Goto(t, "idle")
        /\ UNCHANGED <<alive, obj_ptr>>
  /\ UNCHANGED <<singletons, stack_free, stack_all, used_cells, out, closed,
                 call, single>>

MutantNotDeleted(d) == UNCHANGED alive
Delete(d) == alive' = alive \ {d}

\* Without a cell to remember it, the new dispatcher is deleted.
TakeCellForAll(t) ==
  /\ pc[t] = "cell"
  /\ \/ /\ used_cells' = used_cells + 1
        /\ Goto(t, "remember")
        /\ UNCHANGED <<alive, obj_ptr>>
     \/ /\ Delete(obj_ptr[t])
        /\ Carry(t, None)
        /\ Goto(t, "idle")
        /\ UNCHANGED used_cells
  /\ UNCHANGED <<singletons, stack_free, stack_all, out, closed, call, single>>

PushAll(t) ==
  /\ pc[t] = "remember"
  /\ stack_all' = stack_all \cup {obj_ptr[t]}
  /\ out' = out \cup {obj_ptr[t]}
  /\ Carry(t, None)
  /\ Goto(t, "idle")
  /\ UNCHANGED <<singletons, stack_free, used_cells, alive, closed, call,
                 single>>

-----------------------------------------------------------------------------
(* ObjPool::return_obj.                                                    *)

\* Without a cell, return_obj throws, and avstp_destroy_dispatcher ignores
\* it: the dispatcher stays in _stack_all only.
TakeCellForFree(t) ==
  /\ pc[t] = "return"
  /\ \/ /\ used_cells' = used_cells + 1
        /\ Goto(t, "pushfree")
        /\ UNCHANGED obj_ptr
     \/ /\ Carry(t, None)
        /\ Goto(t, "idle")
        /\ UNCHANGED used_cells
  /\ UNCHANGED <<singletons, stack_free, stack_all, alive, out, closed, call,
                 single>>

MutantPushedTwice(d) == stack_free' = <<d, d>> \o stack_free
push_free(d) == stack_free' = <<d>> \o stack_free

PushFree(t) ==
  /\ pc[t] = "pushfree"
  /\ push_free(obj_ptr[t])
  /\ Carry(t, None)
  /\ Goto(t, "idle")
  /\ UNCHANGED <<singletons, stack_all, used_cells, alive, out, closed, call,
                 single>>

-----------------------------------------------------------------------------
(* cleanup, when the library is unloaded.                                  *)

Quiescent == out = {} /\ \A t \in Thread : pc[t] = "idle"

\* The cells of both stacks go back; the dispatchers are those of _stack_all.
MutantDeletesFree == ToSet(stack_free)
Deleted == stack_all

Cleanup ==
  /\ ~closed
  /\ Quiescent
  /\ stack_free' = << >>
  /\ stack_all' = {}
  /\ used_cells' = used_cells - Len(stack_free) - Cardinality(stack_all)
  /\ alive' = alive \ Deleted
  /\ closed' = TRUE
  /\ UNCHANGED <<singletons, out, pc, call, single, obj_ptr>>

-----------------------------------------------------------------------------
InstanceStep(t) ==
  \/ Check(t) \/ Lock(t) \/ Recheck(t) \/ Construct(t) \/ Publish(t)

ObjectStep(t) ==
  \/ PopFree(t) \/ Recycle(t) \/ New(t) \/ TakeCellForAll(t) \/ PushAll(t)
  \/ TakeCellForFree(t) \/ PushFree(t)

Next ==
  \/ \E t \in Thread :
       \/ CallCreate(t) \/ CallGetNbrThreads(t) \/ InstanceStep(t) \/ ObjectStep(t)
       \/ \E d \in Obj : CallDestroy(t, d)
  \/ Cleanup

Spec == Init /\ [][Next]_vars

-----------------------------------------------------------------------------
(* Properties.                                                             *)

ObjectLabel == {"new", "cell", "remember", "recycle", "return", "pushfree"}

TypeOK ==
  /\ instances \in [Singleton -> 0..1]
  /\ init_flag \in [Singleton -> BOOLEAN]
  /\ mutex_new \in [Singleton -> Thread \cup {None}]
  /\ stack_free \in Seq(Obj)
  /\ stack_all \subseteq Obj
  /\ used_cells \in Nat
  /\ alive \subseteq Obj
  /\ out \subseteq Obj
  /\ closed \in BOOLEAN
  /\ pc \in [Thread -> {"idle", "check", "lock", "recheck", "construct",
                        "publish", "pop"} \cup ObjectLabel]
  /\ call \in [Thread -> {"create", "destroy", "get_nbr_threads"}]
  /\ single \in [Thread -> Singleton]
  /\ obj_ptr \in [Thread -> Obj \cup {None}]

\* However many threads make the first call together, and whatever attempts
\* have failed, each singleton is constructed once, and nobody uses it before
\* (TaskDispPool.cpp:52-73, ThreadPool.cpp:79-102).
OneInstance ==
  /\ TypeOK
  /\ \A s \in Singleton : init_flag[s] => instances[s] = 1
  /\ \A t \in Thread :
       /\ pc[t] \in ObjectLabel \cup {"pop"} => init_flag["disp_pool"]
       /\ pc[t] = "new" => init_flag["thread_pool"]

Carried == {t \in Thread : obj_ptr[t] # None}

\* A dispatcher is never given to two users: it is on the free stack, with
\* the application, or in the hands of one call (ObjPool.hpp:121-204).
GivenOnce ==
  /\ IsInjective(stack_free)
  /\ ToSet(stack_free) \cap out = {}
  /\ \A t \in Carried : obj_ptr[t] \notin ToSet(stack_free) \cup out
  /\ \A t, u \in Carried : obj_ptr[t] = obj_ptr[u] => t = u

\* No dispatcher leaks, even when the cells run out: those alive are all on
\* _stack_all but the ones being created (ObjPool.hpp:132-155).
AllKnown ==
  /\ stack_all \subseteq alive
  /\ ToSet(stack_free) \cup out \subseteq stack_all
  /\ alive \ stack_all =
       {obj_ptr[t] : t \in {u \in Thread : pc[u] \in {"cell", "remember"}}}

\* Neither do the cells: one for each entry of either stack, and one for each
\* call that pushes an entry or has popped one (ObjPool.hpp:160, 201, 263).
CellsBalanced ==
  used_cells =
    Len(stack_free) + Cardinality(stack_all)
      + Cardinality({t \in Thread : pc[t] \in {"recycle", "remember", "pushfree"}})

\* The cleanup deletes every dispatcher, those whose destruction has failed
\* for want of a cell included (ObjPool.hpp:221-270).
CleanedUp == closed => alive = {} /\ used_cells = 0
=============================================================================
