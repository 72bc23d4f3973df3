--------------------------- MODULE LockFreeQueue ---------------------------
(***************************************************************************)
(* conc::LockFreeQueue as ThreadPool uses it: enqueue and dequeue of the   *)
(* cells of a pool by any number of threads, one action per access to the  *)
(* memory they share.  A mutex serialises the calls of enqueue, another    *)
(* one the calls of dequeue; head is only accessed under the latter, so    *)
(* its accesses are parts of the actions that follow them.                 *)
(***************************************************************************)
EXTENDS LockFreeCell

CONSTANTS
  Dummy,      \* _dummy
  MaxLoop,    \* max_loop
  Reloads     \* TRUE: the build may load _data again for each use of it in get

Node == Cell \cup {Dummy}

ASSUME QueueAssumption ==
  /\ IsFiniteSet(Cell)
  /\ Dummy \notin Cell
  /\ Null \notin Node \cup Thread
  /\ MaxLoop \in Nat \ {0}
  /\ Reloads \in BOOLEAN
  /\ MaxCalls \in Nat

VARIABLES
  tail,       \* _tail
  enq_lock,   \* owner of mx_lockfree_enqueue, or Null
  deq_lock,   \* owner of mx_lockfree_dequeue, or Null
  pool,       \* the cells that are in the cell pool
  cell,       \* cell[t]: the cell thread t enqueues or has dequeued
  tail_seen,  \* tail_seen[t]: tail_ptr and icount
  loop_cnt    \* loop_cnt[t]: loop_cnt

queueVars == <<next, head, tail, enq_lock, deq_lock, pool, pc, cell, tail_seen,
          next_ptr, loop_cnt, calls>>
locks == <<enq_lock, deq_lock>>
user == <<pool, calls>>

QueueInit ==
  /\ next = [c \in Node |-> Null]
  /\ head = Pair(Dummy, 0)
  /\ tail = Pair(Dummy, 0)
  /\ enq_lock = Null
  /\ deq_lock = Null
  /\ pool = Cell
  /\ pc = [t \in Thread |-> "idle"]
  /\ cell = [t \in Thread |-> Null]
  /\ tail_seen = [t \in Thread |-> Pair(Dummy, 0)]
  /\ next_ptr = [t \in Thread |-> Null]
  /\ loop_cnt = [t \in Thread |-> 0]
  /\ calls = 0

-----------------------------------------------------------------------------
(* AtomicPtrIntPair.                                                       *)

\* cas2_tail on the tail, with the counter incremented.
MutantTailStuck(new, seen) == UNCHANGED tail
cas2_tail(new, seen) ==
  tail' = IF tail = seen THEN Pair(new, seen.val + 1) ELSE tail

\* get copies the pair to res, then checks the copy with a compare-and-swap
\* whose exchange and comparand are named _data too, and which ends the loop
\* when it finds res.  _data is not volatile and every copy of it is a plain
\* one: the build may keep the first, or, when Reloads is TRUE, load either
\* operand again before the swap, which then can succeed whatever the first
\* copy was, and write it back.
Loaded(t) == IF Reloads THEN {tail_seen[t], tail} ELSE {tail_seen[t]}

GetTail(t, load, check, then) ==
  \/ /\ pc[t] = load
     /\ tail_seen' = [tail_seen EXCEPT ![t] = tail]
     /\ Goto(t, check)
     /\ UNCHANGED tail
  \/ /\ pc[t] = check
     /\ \E excg, comp \in Loaded(t) : tail' = IF tail = comp THEN excg ELSE tail
     /\ Goto(t, IF tail = tail_seen[t] THEN then ELSE load)
     /\ UNCHANGED tail_seen

-----------------------------------------------------------------------------
(* enqueue.                                                                *)

\* A cell comes from the pool; LockFreeStack::pop has cleared its pointer.
CallEnqueue(t) ==
  /\ calls < MaxCalls
  /\ pc[t] = "idle"
  /\ \E c \in pool :
       /\ pool' = pool \ {c}
       /\ cell' = [cell EXCEPT ![t] = c]
       /\ next' = [next EXCEPT ![c] = Null]
  /\ calls' = calls + 1
  /\ Goto(t, "elock")
  /\ UNCHANGED <<head, tail, locks, tail_seen, next_ptr, loop_cnt>>

LockEnqueue(t) ==
  /\ enq_lock = Null
  /\ enq_lock' = t

StartEnqueue(t) ==
  /\ pc[t] = "elock"
  /\ LockEnqueue(t)
  /\ next' = [next EXCEPT ![cell[t]] = Null]
  /\ Goto(t, "eget")
  /\ UNCHANGED <<head, tail, deq_lock, user, cell, tail_seen, next_ptr, loop_cnt>>

GetTailToLink(t) ==
  /\ GetTail(t, "eget", "echeck", "enext")
  /\ UNCHANGED <<next, head, locks, user, cell, next_ptr, loop_cnt>>

ReadTailNext(t) ==
  /\ pc[t] = "enext"
  /\ next_ptr' = [next_ptr EXCEPT ![t] = next[tail_seen[t].ptr]]
  /\ Goto(t, "etest")
  /\ UNCHANGED <<next, head, tail, locks, user, cell, tail_seen, loop_cnt>>

TailUnmoved(t) == tail.val = tail_seen[t].val

TestTail(t) ==
  /\ pc[t] = "etest"
  /\ Goto(t, IF TailUnmoved(t) THEN "elink" ELSE "eget")
  /\ UNCHANGED <<next, head, tail, locks, user, cell, tail_seen, next_ptr, loop_cnt>>

\* The cell is linked behind the tail if the pointer there is null; if not,
\* the tail is moved.
LinkCell(t) ==
  /\ pc[t] = "elink"
  /\ LET last   == tail_seen[t].ptr
         linked == next_ptr[t] = Null /\ next[last] = Null
     IN  /\ next' = IF linked THEN [next EXCEPT ![last] = cell[t]] ELSE next
         /\ IF next_ptr[t] = Null THEN UNCHANGED tail
                                  ELSE cas2_tail(next[last], tail_seen[t])
         /\ Goto(t, IF linked THEN "eswing" ELSE "eget")
  /\ UNCHANGED <<head, locks, user, cell, tail_seen, next_ptr, loop_cnt>>

\* The tail is moved to the new cell, unless a dequeue has done it already;
\* the mutex is released.  The cell may have been the dummy.
AfterEnqueue(t) == IF cell[t] = Dummy THEN "dlock" ELSE "idle"

SwingTail(t) ==
  /\ pc[t] = "eswing"
  /\ cas2_tail(cell[t], tail_seen[t])
  /\ enq_lock' = Null
  /\ cell' = [cell EXCEPT ![t] = Null]
  /\ Goto(t, AfterEnqueue(t))
  /\ UNCHANGED <<next, head, deq_lock, user, tail_seen, next_ptr, loop_cnt>>

-----------------------------------------------------------------------------
(* dequeue.                                                                *)

CallDequeue(t) ==
  /\ calls < MaxCalls
  /\ pc[t] = "idle"
  /\ calls' = calls + 1
  /\ Goto(t, "dlock")
  /\ UNCHANGED <<next, head, tail, locks, pool, cell, tail_seen, next_ptr, loop_cnt>>

MutantDeqUnlocked(t) == UNCHANGED deq_lock
LockDequeue(t) ==
  /\ deq_lock = Null
  /\ deq_lock' = t

StartDequeue(t) ==
  /\ pc[t] = "dlock"
  /\ LockDequeue(t)
  /\ loop_cnt' = [loop_cnt EXCEPT ![t] = 0]
  /\ Goto(t, "dget")
  /\ UNCHANGED <<next, head, tail, enq_lock, user, cell, tail_seen, next_ptr>>

GetTailToCompare(t) ==
  /\ GetTail(t, "dget", "dcheck", "dnext")
  /\ UNCHANGED <<next, head, locks, user, cell, next_ptr, loop_cnt>>

MutantHelpSkipped(t) == head.ptr = tail_seen[t].ptr /\ next[head.ptr] = Null
TailReached(t) == head.ptr = tail_seen[t].ptr

\* The head of the queue and the cell behind it.
ReadHeadNext(t) ==
  /\ pc[t] = "dnext"
  /\ next_ptr' = [next_ptr EXCEPT ![t] = next[head.ptr]]
  /\ Goto(t, IF TailReached(t)
             THEN IF next[head.ptr] = Null THEN "empty" ELSE "dhelp"
             ELSE IF next[head.ptr] = Null THEN "dloop" ELSE "dtake")
  /\ UNCHANGED <<next, head, tail, locks, user, cell, tail_seen, loop_cnt>>

ReturnEmpty(t) ==
  /\ pc[t] = "empty"
  /\ deq_lock' = Null
  /\ Goto(t, "idle")
  /\ UNCHANGED <<next, head, tail, enq_lock, user, cell, tail_seen, next_ptr, loop_cnt>>

\* The head moves; the old one is what dequeue returns, unless it is the
\* dummy, which is enqueued before dequeue starts again.
TakeHead(t) ==
  /\ pc[t] = "dtake"
  /\ head' = Pair(next_ptr[t], head.val + 1)
  /\ cell' = [cell EXCEPT ![t] = head.ptr]
  /\ deq_lock' = Null
  /\ Goto(t, IF head.ptr = Dummy THEN "elock" ELSE "got")
  /\ UNCHANGED <<next, tail, enq_lock, user, tail_seen, next_ptr, loop_cnt>>

\* The tail is behind the head: it is moved first.
HelpDequeue(t) ==
  /\ pc[t] = "dhelp"
  /\ cas2_tail(next_ptr[t], tail_seen[t])
  /\ Goto(t, "dloop")
  /\ UNCHANGED <<next, head, locks, user, cell, tail_seen, next_ptr, loop_cnt>>

\* Another iteration, or max_loop is reached: the call returns null.
Loop(t) ==
  /\ pc[t] = "dloop"
  /\ loop_cnt' = [loop_cnt EXCEPT ![t] = @ + 1]
  /\ Goto(t, IF loop_cnt[t] + 1 >= MaxLoop THEN "empty" ELSE "dget")
  /\ UNCHANGED <<next, head, tail, locks, user, cell, tail_seen, next_ptr>>

\* The caller is done with the cell.  LockFreeStack::push makes it point to
\* the cell that was on top of the pool.
ReturnCell(t) ==
  /\ pc[t] = "got"
  /\ pool' = pool \cup {cell[t]}
  /\ \E c \in pool \cup {Null} : next' = [next EXCEPT ![cell[t]] = c]
  /\ cell' = [cell EXCEPT ![t] = Null]
  /\ Goto(t, "idle")
  /\ UNCHANGED <<head, tail, locks, calls, tail_seen, next_ptr, loop_cnt>>

-----------------------------------------------------------------------------
EnqueueStep(t) ==
  \/ StartEnqueue(t) \/ GetTailToLink(t) \/ ReadTailNext(t) \/ TestTail(t)
  \/ LinkCell(t) \/ SwingTail(t)

DequeueStep(t) ==
  \/ StartDequeue(t) \/ GetTailToCompare(t) \/ ReadHeadNext(t)
  \/ ReturnEmpty(t) \/ TakeHead(t) \/ HelpDequeue(t) \/ Loop(t)
  \/ ReturnCell(t)

QueueNext ==
  \E t \in Thread :
    \/ CallEnqueue(t) \/ CallDequeue(t)
    \/ EnqueueStep(t) \/ DequeueStep(t)

QueueSpec == QueueInit /\ [][QueueNext]_queueVars

\* Every thread is scheduled, and gets a mutex that nobody holds any more.
QueueFairSpec ==
  QueueSpec /\ \A t \in Thread : WF_queueVars(EnqueueStep(t) \/ DequeueStep(t))

-----------------------------------------------------------------------------
(* Properties.                                                             *)

QueueTypeOK ==
  /\ next \in [Node -> Node \cup {Null}]
  /\ head \in [ptr : Node, val : Nat]
  /\ tail \in [ptr : Node, val : Nat]
  /\ enq_lock \in Thread \cup {Null}
  /\ deq_lock \in Thread \cup {Null}
  /\ pool \in SUBSET Cell
  /\ cell \in [Thread -> Node \cup {Null}]
  /\ tail_seen \in [Thread -> [ptr : Node, val : Nat]]
  /\ next_ptr \in [Thread -> Node \cup {Null}]
  /\ loop_cnt \in [Thread -> 0 .. MaxLoop]
  /\ calls \in 0 .. MaxCalls

\* The tail is the last cell of the queue, or, until an enqueue or a dequeue
\* moves it, the one before: it never leaves the queue
\* (LockFreeQueue.hpp:61-88, 125-135).
TailIsNearEnd ==
  /\ QueueTypeOK
  /\ LET n == Len(Contents) IN
       \E i \in {n - 1, n} : i > 0 /\ Contents[i] = tail.ptr

\* The cell a thread holds, until it has linked it.
Hand == [t \in Thread |-> IF pc[t] = "eswing" THEN Null ELSE cell[t]]

Q == INSTANCE CellQueue WITH
  First <- Dummy, queue <- Contents, hand <- Hand

\* The queue is a FIFO: the cells leave in the order they are linked, each
\* to one thread, however the steps of the calls interleave.
ImplementsCellQueue == Q!Spec

\* What the comment of LockFreeQueue.hpp:69 says: when the counter has not
\* moved, the pointer read from the tail cell is a valid one, null at the end
\* of the queue and otherwise the way to its next cell.
NextIsValid ==
  \A t \in Thread :
    pc[t] = "etest" /\ tail.val = tail_seen[t].val =>
      IF next_ptr[t] = Null THEN tail_seen[t].ptr = Last(Contents)
                            ELSE next_ptr[t] \in ToSet(Contents)

\* Two iterations of the loop of dequeue are enough, far from the hundred
\* after which it takes the queue for corrupted (LockFreeQueue.hpp:148-156).
FewLoops == \A t \in Thread : loop_cnt[t] <= 1
=============================================================================
