----------------------------- MODULE AtomicInt -----------------------------
(***************************************************************************)
(* A word shared by threads, as AtomicInt, AtomicPtr and AtomicMem make it *)
(* of Interlocked: the processor has a compare-and-swap, on some systems   *)
(* an exchange, and everything else is a loop over a plain read and a      *)
(* compare-and-swap.  A word wider than the processor's (64 bits on a      *)
(* 32-bit one, 128 bits) is read in two halves, and another thread may     *)
(* write it in between.  The builds are for x86 (conc_ARCHI_X86).          *)
(***************************************************************************)
EXTENDS Integers

CONSTANTS
  Thread,
  Half,        \* number of values of half a word
  Arg,         \* operands of the calls
  None,
  MaxCalls     \* bound on the calls in a behaviour

Modulus == Half * Half
Word == 0 .. Modulus - 1

ASSUME WordAssumption ==
  /\ Half \in Nat \ {0}
  /\ Arg \subseteq Word
  /\ None \notin Word
  /\ MaxCalls \in Nat

\* A call: = and swap ("swap"), cas, += and ++ ("add"), -= and -- ("sub"),
\* AtomicIntOp with AioMax ("max"), conversion to T ("get"), and the postfix
\* ++ and -- ("add" and "sub" that return the value they have read first).
Exchange == [name : {"swap"}, arg : Arg]
Cas      == [name : {"cas"}, arg : Arg, comp : Arg]
Loop     == [name : {"add", "sub", "max"}, arg : Arg]
Get      == [name : {"get"}]
Postfix  == [name : {"add", "sub"}, arg : {1 % Modulus}, postfix : {TRUE}]
Op       == Exchange \cup Cas \cup Loop \cup Get \cup Postfix

VARIABLES
  val,      \* _val
  wide,     \* the word is wider than the processor's
  pc,       \* what each thread does next
  op,       \* op[t]: the call thread t is in, or None
  cur,      \* cur[t]: old, val_cur or comp, the local copy of the value
  ret,      \* ret[t]: the value the call returns
  calls     \* calls so far

vars == <<val, wide, pc, op, cur, ret, calls>>

Init ==
  /\ val \in Word
  /\ wide \in BOOLEAN
  /\ pc = [t \in Thread |-> "idle"]
  /\ op = [t \in Thread |-> None]
  /\ cur = [t \in Thread |-> None]
  /\ ret = [t \in Thread |-> None]
  /\ calls = 0

Goto(t, l) == pc' = [pc EXCEPT ![t] = l]

-----------------------------------------------------------------------------
\* AioAdd, AioSub and AioMax, and the effect of the other calls.
AioAdd(v, n) == (v + n) % Modulus
AioSub(v, n) == (v - n) % Modulus
AioMax(v, n) == IF v < n THEN n ELSE v

Result(o, v) ==
  CASE o.name = "swap" -> o.arg
    [] o.name = "cas"  -> IF v = o.comp THEN o.arg ELSE v
    [] o.name = "add"  -> AioAdd(v, o.arg)
    [] o.name = "sub"  -> AioSub(v, o.arg)
    [] o.name = "max"  -> AioMax(v, o.arg)
    [] OTHER           -> v

\* The first half of one value with the second half of the other.
Mix(u, v) == (u \div Half) * Half + (v % Half)

\* cmpxchg finds what the thread expects.
MutantNotCompared(t) == TRUE
Found(t) == val = cur[t]

\* Where a loop goes when it does not.
MutantNotReloaded == "cas"
Again == "read"

-----------------------------------------------------------------------------
\* Nothing in the code reads a word wider than the processor's but the loops,
\* which compare it afterwards: a conversion or a postfix operator of a wide
\* AtomicInt (doc/avstp.html:175) could return half of one value and half of
\* another, and is left out.
Call(t, o) ==
  /\ pc[t] = "idle"
  /\ calls < MaxCalls
  /\ wide => o \notin Get \cup Postfix
  /\ calls' = calls + 1
  /\ op' = [op EXCEPT ![t] = o]
  /\ cur' = IF o \in Cas THEN [cur EXCEPT ![t] = o.comp] ELSE cur
  /\ Goto(t, IF o \in Cas THEN "cas"
             ELSE IF o \in Postfix THEN "observe" ELSE "read")
  /\ UNCHANGED <<val, wide, ret>>

\* const T prev = _val;
Observe(t) ==
  /\ pc[t] = "observe"
  /\ ret' = [ret EXCEPT ![t] = val]
  /\ Goto(t, "read")
  /\ UNCHANGED <<val, wide, op, cur, calls>>

\* operator T.
Convert(t) ==
  /\ pc[t] = "read"
  /\ op[t] \in Get
  /\ ret' = [ret EXCEPT ![t] = val]
  /\ Goto(t, "done")
  /\ UNCHANGED <<val, wide, op, cur, calls>>

\* _InterlockedExchange, where the system has it.
SwapAtOnce(t) ==
  /\ pc[t] = "read"
  /\ op[t] \in Exchange
  /\ ~wide
  /\ val' = Result(op[t], val)
  /\ ret' = [ret EXCEPT ![t] = val]
  /\ Goto(t, "done")
  /\ UNCHANGED <<wide, op, cur, calls>>

\* old = dest, or val_cur = atom: the value, or the first half of it.
Read(t) ==
  /\ pc[t] = "read"
  /\ op[t] \notin Get
  /\ cur' = [cur EXCEPT ![t] = val]
  /\ Goto(t, IF wide THEN "half" ELSE "cas")
  /\ UNCHANGED <<val, wide, op, ret, calls>>

\* The other half, the low or the high one.
ReadOtherHalf(t) ==
  /\ pc[t] = "half"
  /\ \E v \in {Mix(cur[t], val), Mix(val, cur[t])} :
       cur' = [cur EXCEPT ![t] = v]
  /\ Goto(t, "cas")
  /\ UNCHANGED <<val, wide, op, ret, calls>>

CasSucceeds(t) ==
  /\ pc[t] = "cas"
  /\ Found(t)
  /\ val' = Result(op[t], cur[t])
  /\ ret' = IF op[t] \in Postfix THEN ret ELSE [ret EXCEPT ![t] = cur[t]]
  /\ Goto(t, "done")
  /\ UNCHANGED <<wide, op, cur, calls>>

\* A call of cas returns what it has found, a loop starts again from its read:
\* so does the assembly of the 64-bit swap, whose label is before the two halves
\* are read.
CasFails(t) ==
  /\ pc[t] = "cas"
  /\ ~Found(t)
  /\ \/ /\ op[t] \in Cas
        /\ ret' = [ret EXCEPT ![t] = val]
        /\ Goto(t, "done")
     \/ /\ op[t] \notin Cas
        /\ Goto(t, Again)
        /\ UNCHANGED ret
  /\ UNCHANGED <<val, wide, op, cur, calls>>

Return(t) ==
  /\ pc[t] = "done"
  /\ op' = [op EXCEPT ![t] = None]
  /\ cur' = [cur EXCEPT ![t] = None]
  /\ ret' = [ret EXCEPT ![t] = None]
  /\ Goto(t, "idle")
  /\ UNCHANGED <<val, wide, calls>>

Step(t) ==
  \/ Observe(t) \/ Convert(t) \/ SwapAtOnce(t) \/ Read(t) \/ ReadOtherHalf(t)
  \/ CasSucceeds(t) \/ CasFails(t) \/ Return(t)

Next == \E t \in Thread : (\E o \in Op : Call(t, o)) \/ Step(t)

Spec == Init /\ [][Next]_vars

\* The system schedules every thread.
FairSpec == Spec /\ \A t \in Thread : WF_vars(Step(t))

-----------------------------------------------------------------------------
(* Properties.                                                             *)

TypeOK ==
  /\ val \in Word
  /\ wide \in BOOLEAN
  /\ pc \in [Thread -> {"idle", "observe", "read", "half", "cas", "done"}]
  /\ op \in [Thread -> Op \cup {None}]
  /\ cur \in [Thread -> Word \cup {None}]
  /\ ret \in [Thread -> Word \cup {None}]
  /\ calls \in 0 .. MaxCalls

\* A call has taken effect when it is about to return, and a postfix operator
\* has read what it returns when it is about to modify the word.
Stage ==
  [t \in Thread |->
     IF pc[t] \in {"idle", "done"} THEN pc[t]
     ELSE IF pc[t] = "observe" \/ op[t] \notin Postfix THEN "called"
     ELSE "observed"]

AW == INSTANCE AtomicWord WITH word <- val, stage <- Stage

\* The loops over a plain read, torn or not, are atomic: no modification of
\* another thread is lost between the read and the write, and the value that is
\* returned is the one that has been replaced.  So are conversions, and the
\* increments of the postfix operators, of a word the processor reads at once;
\* those of a wider word are not in the model (Interlocked.hpp:67-74, 132-177,
\* 250-262; AtomicIntOp.hpp:71-81).
ImplementsAtomicWord == AW!Spec

\* A loop ends when the other threads have ended theirs: it tries again only
\* when the word differs from what it has read (AtomicIntOp.hpp:74-80).  The
\* calls are those of Op, without conversions and postfix operators if the word
\* is wide.
CallsReturn == \A t \in Thread : pc[t] # "idle" ~> pc[t] = "idle"
=============================================================================
