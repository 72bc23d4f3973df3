----------------------------- MODULE AtomicWord -----------------------------
(***************************************************************************)
(* What the users of AtomicInt, AtomicPtr and Interlocked count on: a call *)
(* takes effect in one step, between its start and its return, and returns *)
(* the value it has found there.  The postfix operators are the exception  *)
(* their header warns of: the value they return is read before.            *)
(***************************************************************************)
CONSTANTS
  Thread,
  Word,           \* the values of the word
  Op,             \* the calls, with their operands
  Result(_, _),   \* Result(o, v): what call o makes of the value v
  Postfix,        \* the calls of a postfix operator
  None

VARIABLES
  word,      \* the value of the word
  op,        \* op[t]: the call thread t is in, or None
  ret,       \* ret[t]: what the call will return, once it is known
  stage      \* stage[t]: "idle", "called", "observed" or "done"

vars == <<word, op, ret, stage>>

Init ==
  /\ word \in Word
  /\ op = [t \in Thread |-> None]
  /\ ret = [t \in Thread |-> None]
  /\ stage = [t \in Thread |-> "idle"]

Call(t, o) ==
  /\ stage[t] = "idle"
  /\ op' = [op EXCEPT ![t] = o]
  /\ stage' = [stage EXCEPT ![t] = "called"]
  /\ UNCHANGED <<word, ret>>

\* A postfix operator reads the value it will return.
Observe(t) ==
  /\ stage[t] = "called"
  /\ op[t] \in Postfix
  /\ ret' = [ret EXCEPT ![t] = word]
  /\ stage' = [stage EXCEPT ![t] = "observed"]
  /\ UNCHANGED <<word, op>>

TakeEffect(t) ==
  /\ stage[t] = IF op[t] \in Postfix THEN "observed" ELSE "called"
  /\ word' = Result(op[t], word)
  /\ ret' = IF op[t] \in Postfix THEN ret ELSE [ret EXCEPT ![t] = word]
  /\ stage' = [stage EXCEPT ![t] = "done"]
  /\ UNCHANGED op

Return(t) ==
  /\ stage[t] = "done"
  /\ op' = [op EXCEPT ![t] = None]
  /\ ret' = [ret EXCEPT ![t] = None]
  /\ stage' = [stage EXCEPT ![t] = "idle"]
  /\ UNCHANGED word

Next ==
  \E t \in Thread :
    \/ \E o \in Op : Call(t, o)
    \/ Observe(t) \/ TakeEffect(t) \/ Return(t)

Spec == Init /\ [][Next]_vars
=============================================================================
