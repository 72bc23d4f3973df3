--------------------------- MODULE LockFreeStack ---------------------------
(***************************************************************************)
(* conc::LockFreeStack as CellPool uses it: push and pop by any number of  *)
(* threads, one action per access to the memory they share.  A thread that *)
(* has popped a cell owns it, and LockFreeQueue links it elsewhere while   *)
(* slower threads may still read its pointer.                              *)
(***************************************************************************)
EXTENDS LockFreeCell

ASSUME StackAssumption ==
  /\ IsFiniteSet(Cell)
  /\ Null \notin Cell
  /\ MaxCalls \in Nat

VARIABLES
  fresh,      \* the cells of a new zone that have not been pushed yet
  hand,       \* hand[t]: the cell thread t pushes or has popped, or Null
  head_ptr,   \* head_ptr[t]: head_ptr of push, cell_ptr of pop
  count       \* count[t]: count

stackVars == <<next, head, fresh, pc, hand, head_ptr, count, next_ptr, calls>>
locals == <<head_ptr, count, next_ptr>>

StackInit ==
  /\ next = [c \in Cell |-> Null]
  /\ head = Pair(Null, 0)
  /\ fresh = Cell
  /\ pc = [t \in Thread |-> "idle"]
  /\ hand = [t \in Thread |-> Null]
  /\ head_ptr = [t \in Thread |-> Null]
  /\ count = [t \in Thread |-> 0]
  /\ next_ptr = [t \in Thread |-> Null]
  /\ calls = 0

-----------------------------------------------------------------------------
(* AtomicPtrIntPair: get_ptr and get_val load one half of the pair, cas2_head   *)
(* compares both and increments the count.                                 *)

MutantPtrOnly(t) == head.ptr = head_ptr[t]
MutantCountAhead(t) == head = Pair(head_ptr[t], count[t] + 1)
Matches(t) == head = Pair(head_ptr[t], count[t])

MutantCountKept(t, new) == head' = IF Matches(t) THEN Pair(new, head.val) ELSE head
cas2_head(t, new) == head' = IF Matches(t) THEN Pair(new, count[t] + 1) ELSE head

ReadPtr(t) == head_ptr' = [head_ptr EXCEPT ![t] = head.ptr]
ReadVal(t) == count' = [count EXCEPT ![t] = head.val]

-----------------------------------------------------------------------------
(* push.                                                                   *)

\* CellPool pushes a cell it has just allocated, or one that is returned.
CallPush(t) ==
  /\ calls < MaxCalls
  /\ pc[t] = "idle"
  /\ \/ /\ hand[t] = Null
        /\ \E c \in fresh :
             /\ fresh' = fresh \ {c}
             /\ hand' = [hand EXCEPT ![t] = c]
     \/ /\ hand[t] # Null
        /\ UNCHANGED <<fresh, hand>>
  /\ calls' = calls + 1
  /\ Goto(t, "push")
  /\ UNCHANGED <<next, head, locals>>

PushReadPtr(t) ==
  /\ pc[t] = "push"
  /\ ReadPtr(t)
  /\ Goto(t, "pushval")
  /\ UNCHANGED <<next, head, fresh, hand, count, next_ptr, calls>>

PushReadVal(t) ==
  /\ pc[t] = "pushval"
  /\ ReadVal(t)
  /\ next' = [next EXCEPT ![hand[t]] = head_ptr[t]]
  /\ Goto(t, "pushcas")
  /\ UNCHANGED <<head, fresh, hand, head_ptr, next_ptr, calls>>

PushCas(t) ==
  /\ pc[t] = "pushcas"
  /\ cas2_head(t, hand[t])
  /\ \/ /\ Matches(t)
        /\ hand' = [hand EXCEPT ![t] = Null]
        /\ Goto(t, "idle")
     \/ /\ ~Matches(t)
        /\ Goto(t, "push")
        /\ UNCHANGED hand
  /\ UNCHANGED <<next, fresh, locals, calls>>

-----------------------------------------------------------------------------
(* pop.                                                                    *)

CallPop(t) ==
  /\ calls < MaxCalls
  /\ pc[t] = "idle"
  /\ hand[t] = Null
  /\ calls' = calls + 1
  /\ Goto(t, "pop")
  /\ UNCHANGED <<next, head, fresh, hand, locals>>

\* The stack is empty, and pop returns null, when there is no top cell.
Empty == head.ptr = Null

PopReadPtr(t) ==
  /\ pc[t] = "pop"
  /\ ReadPtr(t)
  /\ Goto(t, IF Empty THEN "idle" ELSE "popval")
  /\ UNCHANGED <<next, head, fresh, hand, count, next_ptr, calls>>

PopReadVal(t) ==
  /\ pc[t] = "popval"
  /\ ReadVal(t)
  /\ Goto(t, "popnext")
  /\ UNCHANGED <<next, head, fresh, hand, head_ptr, next_ptr, calls>>

PopReadNext(t) ==
  /\ pc[t] = "popnext"
  /\ next_ptr' = [next_ptr EXCEPT ![t] = next[head_ptr[t]]]
  /\ Goto(t, "popcas")
  /\ UNCHANGED <<next, head, fresh, hand, head_ptr, count, calls>>

PopCas(t) ==
  /\ pc[t] = "popcas"
  /\ cas2_head(t, next_ptr[t])
  /\ \/ /\ Matches(t)
        /\ hand' = [hand EXCEPT ![t] = head_ptr[t]]
        /\ Goto(t, "clear")
     \/ /\ ~Matches(t)
        /\ Goto(t, "pop")
        /\ UNCHANGED hand
  /\ UNCHANGED <<next, fresh, locals, calls>>

ClearNext(t) ==
  /\ pc[t] = "clear"
  /\ next' = [next EXCEPT ![hand[t]] = Null]
  /\ Goto(t, "idle")
  /\ UNCHANGED <<head, fresh, hand, locals, calls>>

-----------------------------------------------------------------------------
\* The owner of a cell links it in the queue of the tasks.
LinkElsewhere(t) ==
  /\ pc[t] = "idle"
  /\ hand[t] # Null
  /\ \E c \in Cell : next' = [next EXCEPT ![hand[t]] = c]
  /\ UNCHANGED <<head, fresh, pc, hand, locals, calls>>

PushStep(t) == PushReadPtr(t) \/ PushReadVal(t) \/ PushCas(t)
PopStep(t) ==
  \/ PopReadPtr(t) \/ PopReadVal(t) \/ PopReadNext(t) \/ PopCas(t)
  \/ ClearNext(t)

StackNext ==
  \E t \in Thread :
    \/ CallPush(t) \/ CallPop(t) \/ LinkElsewhere(t)
    \/ PushStep(t) \/ PopStep(t)

StackSpec == StackInit /\ [][StackNext]_stackVars

\* Every thread is scheduled.
StackFairSpec == StackSpec /\ \A t \in Thread : WF_stackVars(PushStep(t) \/ PopStep(t))

-----------------------------------------------------------------------------
(* Properties.                                                             *)

StackTypeOK ==
  /\ next \in [Cell -> Cell \cup {Null}]
  /\ head \in [ptr : Cell \cup {Null}, val : Nat]
  /\ fresh \in SUBSET Cell
  /\ pc \in [Thread -> {"idle", "push", "pushval", "pushcas", "pop", "popval",
                        "popnext", "popcas", "clear"}]
  /\ hand \in [Thread -> Cell \cup {Null}]
  /\ head_ptr \in [Thread -> Cell \cup {Null}]
  /\ count \in [Thread -> Nat]
  /\ next_ptr \in [Thread -> Cell \cup {Null}]
  /\ calls \in 0 .. MaxCalls
  /\ \A t \in Thread :
       /\ pc[t] \in {"popval", "popnext", "popcas"} => head_ptr[t] # Null
       /\ pc[t] \in {"push", "pushval", "pushcas", "clear"} => hand[t] # Null

\* Every cell is on the stack, in the hand of one thread, or not pushed yet:
\* none is lost when a pop has read the pointer of a cell that another thread
\* has popped, used and pushed back since (LockFreeStack.hpp:63-93).
NoCellLost ==
  /\ StackTypeOK
  /\ IsInjective(Contents)
  /\ Cell = fresh \cup ToSet(Contents) \cup ({hand[t] : t \in Thread} \ {Null})

FL == INSTANCE FreeList WITH stack <- Contents

\* The lock-free stack is a stack: a swap that succeeds pops the cell that is
\* on top at that moment, and leaves the one below.
ImplementsFreeList == FL!Spec
=============================================================================
