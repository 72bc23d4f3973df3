---------------------------- MODULE LockFreeCell ----------------------------
(***************************************************************************)
(* What LockFreeStack and LockFreeQueue have in common: cells linked by    *)
(* their pointers, of which the first is in a pair with a count of its     *)
(* changes, and threads that call the operations.                          *)
(***************************************************************************)
EXTENDS Integers, Sequences, SequencesExt, FiniteSets, CellChain

CONSTANTS
  Thread,     \* threads of the process
  Cell,       \* cells CellPool has allocated
  Null,       \* a null pointer
  MaxCalls    \* bound on the calls in a behaviour

VARIABLES
  next,       \* next[c]: _next_ptr of a cell
  head,       \* _head_ptr of the stack, _head of the queue
  pc,         \* what each thread does next
  next_ptr,   \* next_ptr[t]: next_ptr
  calls       \* calls so far

Pair(c, n) == [ptr |-> c, val |-> n]

Goto(t, l) == pc' = [pc EXCEPT ![t] = l]

\* The cells linked from the head on.
Contents == ChainOf(head.ptr, next, Null)

\* Every call returns, as the others are in finite number
\* (LockFreeStack.hpp:46-93, LockFreeQueue.hpp:50-168).
CallsReturn == \A t \in Thread : pc[t] # "idle" ~> pc[t] = "idle"
=============================================================================
