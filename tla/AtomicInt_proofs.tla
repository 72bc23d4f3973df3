-------------------------- MODULE AtomicInt_proofs --------------------------
(***************************************************************************)
(* Proofs about AtomicInt, for any number of threads, any width of the     *)
(* word and any number of calls: the loops over plain reads implement      *)
(* AtomicWord.  The invariant ties the place of a thread in the code to    *)
(* the call it is in; what a loop has read matters only when the word      *)
(* still equals it, so that a torn read needs no case of its own.          *)
(***************************************************************************)
EXTENDS AtomicInt, TLAPS

-----------------------------------------------------------------------------
(* Words.                                                                  *)

LEMMA ModulusPositive == Half \in Nat \ {0} /\ Modulus \in Nat \ {0}
<1>1. Half \in Nat \ {0}
  BY WordAssumption
<1> QED BY <1>1, Z3 DEF Modulus

\* The remainder by the modulus is a word.
LEMMA Wraps ==
  ASSUME NEW n \in Int
  PROVE  n % Modulus \in Word
<1> DEFINE M == Modulus
<1>1. M \in Nat \ {0}
  BY ModulusPositive
<1> HIDE DEF M
<1>2. n % M \in 0 .. M - 1
  BY <1>1
<1> QED BY <1>2 DEF Word, M

\* Halves of two words make a word.
LEMMA MixIsWord ==
  ASSUME NEW u \in Word, NEW v \in Word
  PROVE  Mix(u, v) \in Word
<1> DEFINE H == Half
           q == u \div H
           r == v % H
<1>1. H \in Nat \ {0} /\ u \in Nat /\ v \in Nat /\ u < H * H
  BY ModulusPositive DEF Word, Modulus
<1>2. q \in Nat /\ r \in Nat /\ r <= H - 1 /\ q * H <= u
  BY <1>1, Z3
<1> HIDE DEF H, q, r
<1>3. q <= H - 1
  <2> SUFFICES ASSUME H <= q PROVE FALSE
    BY <1>1, <1>2
  <2>1. H * H <= q * H
    BY <1>1, <1>2, Z3
  <2>2. q * H \in Nat /\ H * H \in Nat
    BY <1>1, <1>2, Z3
  <2> QED BY <2>1, <2>2, <1>1, <1>2
<1>4. q * H <= (H - 1) * H
  BY <1>1, <1>2, <1>3, Z3
<1>5. (H - 1) * H = H * H - H
  BY <1>1, Z3
<1>6. q * H \in Nat /\ H * H \in Nat
  BY <1>1, <1>2, Z3
<1>7. q * H + r \in Nat /\ q * H + r <= H * H - 1
  BY <1>1, <1>2, <1>4, <1>5, <1>6
<1> QED BY <1>7 DEF Mix, Word, Modulus, H, q, r

LEMMA ResultIsWord ==
  ASSUME NEW o \in Op, NEW v \in Word
  PROVE  Result(o, v) \in Word
<1>1. Word \subseteq Int /\ Arg \subseteq Word
  BY WordAssumption, ModulusPositive DEF Word
<1>2. 1 % Modulus \in Word
  BY Wraps
<1>3. o.name \in {"swap", "cas", "add", "sub", "max"} => o.arg \in Word
  BY <1>1, <1>2 DEF Op, Exchange, Cas, Loop, Get, Postfix
<1>4. o.name \in {"add", "sub"} =>
        AioAdd(v, o.arg) \in Word /\ AioSub(v, o.arg) \in Word
  <2> SUFFICES ASSUME o.name \in {"add", "sub"}
               PROVE  /\ (v + o.arg) % Modulus \in Word
                      /\ (v - o.arg) % Modulus \in Word
    BY DEF AioAdd, AioSub
  <2> DEFINE m == v + o.arg
             d == v - o.arg
  <2>1. v \in Int /\ o.arg \in Int
    BY <1>1, <1>3
  <2>2. m \in Int /\ d \in Int
    BY <2>1
  <2> HIDE DEF m, d
  <2>3. m % Modulus \in Word /\ d % Modulus \in Word
    BY <2>2, Wraps
  <2> QED BY <2>3 DEF m, d
<1> QED BY <1>3, <1>4 DEF Result, AioMax

-----------------------------------------------------------------------------
(* The invariant.                                                          *)

\* A thread is where its call takes it, and a call of cas keeps its comparand.
CallMatches ==
  \A t \in Thread :
    /\ pc[t] = "observe" => op[t] \in Postfix
    /\ pc[t] \in {"read", "half", "cas"} => op[t] \in Op
    /\ pc[t] \in {"read", "half"} => op[t] \notin Cas
    /\ pc[t] \in {"half", "cas"} => op[t] \notin Get /\ cur[t] \in Word
    /\ pc[t] = "cas" /\ op[t] \in Cas => cur[t] = op[t].comp

Inv == TypeOK /\ CallMatches

LEMMA InitInv == Init => Inv
BY WordAssumption DEF Init, Inv, TypeOK, CallMatches

LEMMA NextInv == Inv /\ [Next]_vars => Inv'
<1> SUFFICES ASSUME Inv, [Next]_vars PROVE Inv'
  OBVIOUS
<1> USE DEF Inv
<1>0. CASE UNCHANGED vars
  BY <1>0 DEF vars, TypeOK, CallMatches
<1>1. ASSUME NEW t \in Thread, NEW o \in Op, Call(t, o)
      PROVE  Inv'
  <2>1. o \in Cas => o.comp \in Word
    BY WordAssumption DEF Cas
  <2>2. TypeOK'
    <3>1. calls' \in 0 .. MaxCalls
      BY <1>1, WordAssumption DEF Call, TypeOK
    <3>2. cur' \in [Thread -> Word \cup {None}]
      BY <1>1, <2>1 DEF Call, TypeOK
    <3>3. op' \in [Thread -> Op \cup {None}]
      BY <1>1 DEF Call, TypeOK
    <3>4. pc' \in [Thread ->
                    {"idle", "observe", "read", "half", "cas", "done"}]
      BY <1>1 DEF Call, Goto, TypeOK
    <3> QED BY <1>1, <3>1, <3>2, <3>3, <3>4 DEF Call, TypeOK
  <2>3. o \in Cas => o \notin Get
    BY DEF Cas, Get
  <2>4. /\ op'[t] = o
        /\ cur'[t] = IF o \in Cas THEN o.comp ELSE cur[t]
        /\ pc'[t] = IF o \in Cas THEN "cas"
                    ELSE IF o \in Postfix THEN "observe" ELSE "read"
    BY <1>1 DEF Call, Goto, TypeOK
  <2>5. \A u \in Thread \ {t} :
          op'[u] = op[u] /\ cur'[u] = cur[u] /\ pc'[u] = pc[u]
    BY <1>1 DEF Call, Goto, TypeOK
  <2>6. CallMatches'
    BY <2>1, <2>3, <2>4, <2>5 DEF CallMatches
  <2> QED BY <2>2, <2>6
<1>2. ASSUME NEW t \in Thread, Observe(t)
      PROVE  Inv'
  <2>1. op[t] \in Op \ Cas
    BY <1>2 DEF Observe, CallMatches, Op, Postfix, Cas
  <2> QED BY <1>2, <2>1 DEF Observe, Goto, TypeOK, CallMatches
<1>3. ASSUME NEW t \in Thread, Convert(t)
      PROVE  Inv'
  BY <1>3 DEF Convert, Goto, TypeOK, CallMatches
<1>4. ASSUME NEW t \in Thread, SwapAtOnce(t)
      PROVE  Inv'
  <2>1. Result(op[t], val) \in Word
    BY <1>4, ResultIsWord DEF SwapAtOnce, TypeOK, CallMatches
  <2> QED BY <1>4, <2>1 DEF SwapAtOnce, Goto, TypeOK, CallMatches
<1>5. ASSUME NEW t \in Thread, Read(t)
      PROVE  Inv'
  BY <1>5 DEF Read, Goto, TypeOK, CallMatches
<1>6. ASSUME NEW t \in Thread, ReadOtherHalf(t)
      PROVE  Inv'
  <2>1. PICK v \in {Mix(cur[t], val), Mix(val, cur[t])} :
          cur' = [cur EXCEPT ![t] = v]
    BY <1>6 DEF ReadOtherHalf
  <2>2. cur[t] \in Word
    BY <1>6 DEF ReadOtherHalf, TypeOK, CallMatches
  <2>3. v \in Word
    BY <2>1, <2>2, MixIsWord DEF TypeOK
  <2> QED BY <1>6, <2>1, <2>3 DEF ReadOtherHalf, Goto, TypeOK, CallMatches
<1>7. ASSUME NEW t \in Thread, CasSucceeds(t)
      PROVE  Inv'
  <2>1. cur[t] \in Word /\ op[t] \in Op
    BY <1>7 DEF CasSucceeds, Found, TypeOK, CallMatches
  <2>2. Result(op[t], cur[t]) \in Word
    BY <2>1, ResultIsWord
  <2> QED BY <1>7, <2>1, <2>2 DEF CasSucceeds, Goto, TypeOK, CallMatches
<1>8. ASSUME NEW t \in Thread, CasFails(t)
      PROVE  Inv'
  <2>1. op[t] \in Exchange => op[t] \notin Cas
    BY DEF Exchange, Cas
  <2> QED BY <1>8, <2>1 DEF CasFails, Again, Goto, TypeOK, CallMatches
<1>9. ASSUME NEW t \in Thread, Return(t)
      PROVE  Inv'
  BY <1>9 DEF Return, Goto, TypeOK, CallMatches
<1> QED
  BY <1>0, <1>1, <1>2, <1>3, <1>4, <1>5, <1>6, <1>7, <1>8, <1>9 DEF Next, Step

\* Every variable keeps its type: the word and what is returned of it wrap
\* around and never leave its range, even with values mixed of two halves.
THEOREM TypeCorrect == Spec => []TypeOK
<1>1. Inv => TypeOK
  BY DEF Inv
<1> QED BY InitInv, NextInv, <1>1, PTL DEF Spec

-----------------------------------------------------------------------------
(* The refinement of AtomicWord.                                           *)

\* A step of thread t that takes it to the place l and its call to o changes
\* the stage of t only.
LEMMA StageMoves ==
  ASSUME NEW t \in Thread, NEW l, NEW o, TypeOK,
         pc' = [pc EXCEPT ![t] = l], op' = [op EXCEPT ![t] = o]
  PROVE  /\ l \in {"idle", "done"} => Stage' = [Stage EXCEPT ![t] = l]
         /\ l \notin {"idle", "done"} =>
              Stage' = [Stage EXCEPT ![t] =
                          IF l = "observe" \/ o \notin Postfix
                          THEN "called" ELSE "observed"]
<1>1. pc'[t] = l /\ op'[t] = o
  BY DEF TypeOK
<1>2. \A u \in Thread \ {t} : pc'[u] = pc[u] /\ op'[u] = op[u]
  BY DEF TypeOK
<1>3. CASE l \in {"idle", "done"}
  BY <1>1, <1>2, <1>3 DEF Stage
<1>4. CASE l \notin {"idle", "done"}
  BY <1>1, <1>2, <1>4 DEF Stage
<1> QED BY <1>3, <1>4

LEMMA InitRefines == Init => AW!Init
<1> SUFFICES ASSUME Init PROVE AW!Init
  OBVIOUS
<1>1. Stage = [t \in Thread |-> "idle"]
  BY DEF Init, Stage
<1> QED BY <1>1 DEF Init, AW!Init

LEMMA StepRefines == Inv /\ [Next]_vars => [AW!Next]_(AW!vars)
<1> SUFFICES ASSUME Inv, [Next]_vars PROVE AW!Next \/ UNCHANGED AW!vars
  BY DEF AW!vars
<1> USE DEF Inv
<1>0. CASE UNCHANGED vars
  <2>1. Stage' = Stage
    BY <1>0 DEF vars, Stage
  <2> QED BY <1>0, <2>1 DEF vars, AW!vars
<1>1. ASSUME NEW t \in Thread, NEW o \in Op, Call(t, o)
      PROVE  AW!Next
  <2>1. Stage[t] = "idle"
    BY <1>1 DEF Call, Stage
  <2>2. Cas \cap Postfix = {}
    BY DEF Cas, Postfix
  <2> DEFINE l == IF o \in Cas THEN "cas"
                  ELSE IF o \in Postfix THEN "observe" ELSE "read"
  <2>3. /\ pc' = [pc EXCEPT ![t] = l] /\ op' = [op EXCEPT ![t] = o]
        /\ UNCHANGED <<val, ret>>
    BY <1>1 DEF Call, Goto
  <2>4. l \notin {"idle", "done"} /\ (l = "observe" \/ o \notin Postfix)
    BY <2>2
  <2> HIDE DEF l
  <2>5. Stage' = [Stage EXCEPT ![t] = "called"]
    BY <2>3, <2>4, StageMoves
  <2>6. AW!Call(t, o)
    BY <2>1, <2>3, <2>5 DEF AW!Call
  <2> QED BY <2>6 DEF AW!Next
<1>2. ASSUME NEW t \in Thread, Observe(t)
      PROVE  AW!Next
  <2>1. /\ pc[t] = "observe" /\ op[t] \in Postfix
        /\ pc' = [pc EXCEPT ![t] = "read"] /\ op' = [op EXCEPT ![t] = op[t]]
        /\ ret' = [ret EXCEPT ![t] = val] /\ UNCHANGED <<val, op>>
    BY <1>2 DEF Observe, Goto, CallMatches, TypeOK
  <2>2. Stage[t] = "called"
    BY <2>1 DEF Stage
  <2>3. Stage' = [Stage EXCEPT ![t] = "observed"]
    BY <2>1, StageMoves
  <2>4. AW!Observe(t)
    BY <2>1, <2>2, <2>3 DEF AW!Observe
  <2> QED BY <2>4 DEF AW!Next
\* What a call does in the step where it takes effect.
<1>3. ASSUME NEW t \in Thread,
             pc[t] \in {"read", "cas"},
             pc' = [pc EXCEPT ![t] = "done"],
             val' = Result(op[t], val),
             ret' = IF op[t] \in Postfix THEN ret ELSE [ret EXCEPT ![t] = val],
             op' = op
      PROVE  AW!Next
  <2>1. Stage[t] = IF op[t] \in Postfix THEN "observed" ELSE "called"
    BY <1>3 DEF Stage
  <2>2. op' = [op EXCEPT ![t] = op[t]]
    BY <1>3 DEF TypeOK
  <2>3. Stage' = [Stage EXCEPT ![t] = "done"]
    BY <1>3, <2>2, StageMoves
  <2>4. AW!TakeEffect(t)
    BY <1>3, <2>1, <2>3 DEF AW!TakeEffect
  <2> QED BY <2>4 DEF AW!Next
\* A step inside of a call.
<1>4. ASSUME NEW t \in Thread, NEW l \in {"read", "half", "cas"},
             pc[t] \in {"read", "half", "cas"},
             pc' = [pc EXCEPT ![t] = l],
             UNCHANGED <<val, op, ret>>
      PROVE  UNCHANGED AW!vars
  <2>1. op' = [op EXCEPT ![t] = op[t]]
    BY <1>4 DEF TypeOK
  <2>2. Stage' = [Stage EXCEPT ![t] = IF op[t] \notin Postfix
                                      THEN "called" ELSE "observed"]
    BY <1>4, <2>1, StageMoves
  <2>3. Stage[t] = IF op[t] \notin Postfix THEN "called" ELSE "observed"
    BY <1>4 DEF Stage
  <2>4. Stage' = Stage
    BY <2>2, <2>3 DEF Stage
  <2> QED BY <1>4, <2>4 DEF AW!vars
<1>5. ASSUME NEW t \in Thread, Convert(t)
      PROVE  AW!Next
  <2>1. op[t] \notin Postfix /\ Result(op[t], val) = val
    BY <1>5 DEF Convert, Get, Postfix, Result
  <2> QED BY <1>3, <1>5, <2>1 DEF Convert, Goto
<1>6. ASSUME NEW t \in Thread, SwapAtOnce(t)
      PROVE  AW!Next
  <2>1. op[t] \notin Postfix
    BY <1>6 DEF SwapAtOnce, Exchange, Postfix
  <2> QED BY <1>3, <1>6, <2>1 DEF SwapAtOnce, Goto
<1>7. ASSUME NEW t \in Thread, Read(t)
      PROVE  UNCHANGED AW!vars
  BY <1>4, <1>7 DEF Read, Goto
<1>8. ASSUME NEW t \in Thread, ReadOtherHalf(t)
      PROVE  UNCHANGED AW!vars
  BY <1>4, <1>8 DEF ReadOtherHalf, Goto
<1>9. ASSUME NEW t \in Thread, CasSucceeds(t)
      PROVE  AW!Next
  BY <1>3, <1>9 DEF CasSucceeds, Found, Goto
<1>10. ASSUME NEW t \in Thread, CasFails(t)
       PROVE  AW!Next \/ UNCHANGED AW!vars
  <2>1. /\ pc[t] = "cas" /\ val # cur[t] /\ UNCHANGED <<val, op>>
    BY <1>10 DEF CasFails, Found
  <2>2. CASE op[t] \in Cas /\ ret' = [ret EXCEPT ![t] = val]
             /\ pc' = [pc EXCEPT ![t] = "done"]
    <3>1. op[t] \notin Postfix
      BY <2>2 DEF Cas, Postfix
    <3>2. op[t].name = "cas" /\ op[t].comp # val
      BY <2>1, <2>2 DEF CallMatches, Cas
    <3>3. Result(op[t], val) = val
      BY <3>2 DEF Result
    <3> QED BY <1>3, <2>1, <2>2, <3>1, <3>3
  <2>3. CASE ret' = ret /\ pc' = [pc EXCEPT ![t] = "read"]
    BY <1>4, <2>1, <2>3
  <2>4. CASE ret' = ret /\ pc' = pc
    <3>1. pc' = [pc EXCEPT ![t] = "cas"]
      BY <2>1, <2>4 DEF TypeOK
    <3> QED BY <1>4, <2>1, <2>4, <3>1
  <2> QED BY <1>10, <2>2, <2>3, <2>4 DEF CasFails, Again, Goto
<1>11. ASSUME NEW t \in Thread, Return(t)
       PROVE  AW!Next
  <2>1. /\ pc[t] = "done" /\ val' = val
        /\ pc' = [pc EXCEPT ![t] = "idle"] /\ op' = [op EXCEPT ![t] = None]
        /\ ret' = [ret EXCEPT ![t] = None]
    BY <1>11 DEF Return, Goto
  <2>2. Stage[t] = "done"
    BY <2>1 DEF Stage
  <2>3. Stage' = [Stage EXCEPT ![t] = "idle"]
    BY <2>1, StageMoves
  <2>4. AW!Return(t)
    BY <2>1, <2>2, <2>3 DEF AW!Return
  <2> QED BY <2>4 DEF AW!Next
<1> QED
  BY <1>0, <1>1, <1>2, <1>5, <1>6, <1>7, <1>8, <1>9, <1>10, <1>11
     DEF Next, Step

\* The calls of AtomicInt, AtomicPtr and Interlocked are atomic: each takes
\* effect in one step and returns what it has found there, for any number of
\* threads and any width of the word, also when the word is read in halves.
THEOREM Refinement == Spec => ImplementsAtomicWord
<1>1. Inv /\ [Next]_vars => [AW!Next]_(AW!vars)
  BY StepRefines
<1> QED BY InitInv, NextInv, InitRefines, <1>1, PTL
        DEF Spec, ImplementsAtomicWord, AW!Spec
=============================================================================
