------------------------------ MODULE FreeList ------------------------------
(***************************************************************************)
(* What LockFreeStack promises to CellPool: a stack of the cells that are  *)
(* free, from which each cell is popped by one thread at a time.           *)
(***************************************************************************)
EXTENDS Naturals, Sequences

CONSTANTS Thread, Cell, Null

VARIABLES
  stack,    \* the free cells, the top first
  hand      \* hand[t]: the cell thread t pushes or has popped, or Null

vars == <<stack, hand>>

Init ==
  /\ stack = << >>
  /\ hand = [t \in Thread |-> Null]

\* A cell that has just been allocated.
Bring(t, c) ==
  /\ hand[t] = Null
  /\ \A i \in 1 .. Len(stack) : stack[i] # c
  /\ \A u \in Thread : hand[u] # c
  /\ hand' = [hand EXCEPT ![t] = c]
  /\ UNCHANGED stack

Push(t) ==
  /\ hand[t] # Null
  /\ stack' = <<hand[t]>> \o stack
  /\ hand' = [hand EXCEPT ![t] = Null]

Pop(t) ==
  /\ hand[t] = Null
  /\ stack # << >>
  /\ stack' = Tail(stack)
  /\ hand' = [hand EXCEPT ![t] = Head(stack)]

Next ==
  \E t \in Thread :
    \/ \E c \in Cell : Bring(t, c)
    \/ Push(t) \/ Pop(t)

Spec == Init /\ [][Next]_vars
=============================================================================
