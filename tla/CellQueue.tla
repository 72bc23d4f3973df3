----------------------------- MODULE CellQueue -----------------------------
(***************************************************************************)
(* What LockFreeQueue promises to ThreadPool: a FIFO of cells in which the *)
(* last cell stays until another one is linked behind it, each cell being  *)
(* in the queue or in the hand of one thread.                              *)
(***************************************************************************)
EXTENDS Naturals, Sequences

CONSTANTS Thread, Node, First, Null

VARIABLES
  queue,    \* the cells linked, first to leave first
  hand      \* hand[t]: the cell thread t enqueues or has dequeued, or Null

vars == <<queue, hand>>

Init ==
  /\ queue = <<First>>
  /\ hand = [t \in Thread |-> Null]

Bring(t, c) ==
  /\ hand[t] = Null
  /\ \A i \in 1 .. Len(queue) : queue[i] # c
  /\ \A u \in Thread : hand[u] # c
  /\ hand' = [hand EXCEPT ![t] = c]
  /\ UNCHANGED queue

Link(t) ==
  /\ hand[t] # Null
  /\ queue' = Append(queue, hand[t])
  /\ hand' = [hand EXCEPT ![t] = Null]

Unlink(t) ==
  /\ hand[t] = Null
  /\ Len(queue) > 1
  /\ queue' = Tail(queue)
  /\ hand' = [hand EXCEPT ![t] = Head(queue)]

Release(t) ==
  /\ hand[t] # Null
  /\ hand' = [hand EXCEPT ![t] = Null]
  /\ UNCHANGED queue

Next ==
  \E t \in Thread :
    \/ \E c \in Node : Bring(t, c)
    \/ Link(t) \/ Unlink(t) \/ Release(t)

Spec == Init /\ [][Next]_vars
=============================================================================
