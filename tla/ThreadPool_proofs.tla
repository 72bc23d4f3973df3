------------------------- MODULE ThreadPool_proofs -------------------------
(***************************************************************************)
(* Proofs about ThreadPool, for any number of application threads, of      *)
(* dispatchers, of cells and of workers, and any bound of the semaphores.  *)
(* IInv is inductive: each lemma <X>Step proves that a step preserves one  *)
(* of its conjuncts.  The refinement of TaskGroup follows from it.         *)
(***************************************************************************)
EXTENDS ThreadPoolInv, TLAPS, SequenceTheorems, FiniteSetTheorems

-----------------------------------------------------------------------------
(* The queue as a set of cells.                                            *)

\* Linking a cell that is not in the queue adds it, once.
LEMMA AppendToQueue ==
  ASSUME NEW S, NEW q \in Seq(S), NEW c \in S, IsInjective(q), c \notin ToSet(q)
  PROVE  /\ Append(q, c) \in Seq(S)
         /\ ToSet(Append(q, c)) = ToSet(q) \cup {c}
         /\ IsInjective(Append(q, c))
BY AppendProperties DEF ToSet, IsInjective

\* Taking the head removes it, and only it.
LEMMA TailOfQueue ==
  ASSUME NEW S, NEW q \in Seq(S), IsInjective(q), Len(q) > 1
  PROVE  /\ Tail(q) \in Seq(S)
         /\ Head(q) \in ToSet(q) \cap S
         /\ ToSet(Tail(q)) = ToSet(q) \ {Head(q)}
         /\ IsInjective(Tail(q))
<1> DEFINE r == Tail(q)
<1>1. /\ DOMAIN q = 1 .. Len(q)
      /\ Len(q) \in Nat
      /\ q # << >>
      /\ Head(q) = q[1]
  OBVIOUS
<1>2. /\ r \in Seq(S)
      /\ Len(r) = Len(q) - 1
      /\ \A i \in 1 .. Len(r) : r[i] = q[i + 1]
  BY <1>1, HeadTailProperties
<1>3. DOMAIN r = 1 .. Len(q) - 1
  BY <1>2
<1> HIDE DEF r
<1>4. Head(q) \in ToSet(q) \cap S
  BY <1>1 DEF ToSet
<1>5. IsInjective(r)
  <2> SUFFICES ASSUME NEW i \in 1 .. Len(q) - 1, NEW j \in 1 .. Len(q) - 1,
                      r[i] = r[j]
               PROVE  i = j
    BY <1>3 DEF IsInjective
  <2>1. q[i + 1] = q[j + 1] /\ i + 1 \in 1 .. Len(q) /\ j + 1 \in 1 .. Len(q)
    BY <1>1, <1>2
  <2> QED BY <2>1, <1>1 DEF IsInjective
<1>6. ToSet(r) = ToSet(q) \ {Head(q)}
  <2>1. ASSUME NEW i \in 1 .. Len(q) - 1
        PROVE  r[i] \in ToSet(q) \ {Head(q)}
    <3>1. r[i] = q[i + 1] /\ i + 1 \in 1 .. Len(q) /\ i + 1 # 1 /\ 1 \in 1 .. Len(q)
      BY <1>1, <1>2
    <3> QED BY <3>1, <1>1 DEF ToSet, IsInjective
  <2>2. ASSUME NEW c \in ToSet(q), c # Head(q)
        PROVE  c \in ToSet(r)
    <3>1. PICK i \in 1 .. Len(q) : q[i] = c
      BY <1>1 DEF ToSet
    <3>2. i - 1 \in 1 .. Len(q) - 1 /\ r[i - 1] = c
      BY <3>1, <2>2, <1>1, <1>2
    <3> QED BY <3>2, <1>3 DEF ToSet
  <2> QED BY <2>1, <2>2, <1>3 DEF ToSet
<1> QED BY <1>2, <1>4, <1>5, <1>6 DEF r

\* The queue of the pool, when a cell is linked, and when there is one to take.
LEMMA QueueAppend ==
  ASSUME TypeOK, IsInjective(task_queue),
         NEW c \in Cell \cup {Dummy}, c \notin InQueue
  PROVE  /\ ToSet(Append(task_queue, c)) = InQueue \cup {c}
         /\ IsInjective(Append(task_queue, c))
BY AppendToQueue DEF TypeOK, InQueue

LEMMA QueueTail ==
  ASSUME TypeOK, IsInjective(task_queue), Len(task_queue) > 1
  PROVE  /\ Tail(task_queue) \in Seq(Cell \cup {Dummy})
         /\ Head(task_queue) \in InQueue \cap (Cell \cup {Dummy})
         /\ ToSet(Tail(task_queue)) = InQueue \ {Head(task_queue)}
         /\ IsInjective(Tail(task_queue))
         /\ Len(task_queue) # 1
<1>1. \A n \in Nat : n > 1 => n # 1
  OBVIOUS
<1>2. Len(task_queue) \in Nat
  BY DEF TypeOK
<1>3. Len(task_queue) # 1
  BY ONLY <1>1, <1>2, Len(task_queue) > 1, Zenon
<1> QED BY <1>3, TailOfQueue DEF TypeOK, InQueue

-----------------------------------------------------------------------------
(* Type correctness.                                                       *)

LEMMA ThreadFacts ==
  /\ App \cap Worker = {}
  /\ App \subseteq Thread
  /\ Worker \subseteq Thread
  /\ Worker \subseteq Int
  /\ \A t \in Thread : t \in App \/ t \in Worker
BY ThreadsAssumption DEF Thread, Worker

\* The counter of a dispatcher is positive while a cell is owned by it.
LEMMA OwnedIsCounted ==
  ASSUME TypeOK, CounterCounts, NEW c \in Cell, owner[c] # None
  PROVE  /\ owner[c] \in Dispatcher
         /\ task_cnt[owner[c]] \in Nat \ {0}
<1> DEFINE S == {x \in Cell : owner[x] = owner[c]}
<1>1. owner[c] \in Dispatcher
  BY DEF TypeOK
<1>2. IsFiniteSet(S) /\ c \in S
  BY FS_Subset, DataAssumption
<1>3. Cardinality(S) \in Nat /\ Cardinality(S) # 0
  BY <1>2, FS_CardinalityType, FS_EmptySet
<1>4. task_cnt[owner[c]] = Cardinality(S)
  BY <1>1 DEF CounterCounts
<1> QED BY <1>1, <1>3, <1>4

LEMMA TypeInit == Init => TypeOK
<1> SUFFICES ASSUME Init PROVE TypeOK
  OBVIOUS
<1>1. PICK n \in InitThreads :
        /\ nbr_threads = n
        /\ arr_size = IF n = 1 THEN 0 ELSE n
        /\ pc = [t \in Thread |-> IF t \in App THEN "idle"
                                  ELSE IF t < n - 1 THEN "top" ELSE "none"]
  BY DEF Init
<1>2. n \in 1 .. MaxThreads /\ MaxThreads \in Nat
  BY ThreadsAssumption
<1>3. pc \in [Thread -> AppLabel \cup WorkerLabel]
  BY <1>1 DEF AppLabel, WorkerLabel
<1>4. \A a \in App : pc[a] \in AppLabel
  BY <1>1, ThreadFacts DEF AppLabel
<1>5. \A w \in Worker : pc[w] \in WorkerLabel
  BY <1>1, ThreadFacts DEF WorkerLabel
<1>6. task_queue \in Seq(Cell \cup {Dummy})
  BY DEF Init
<1> QED BY <1>1, <1>2, <1>3, <1>4, <1>5, <1>6, SemaAssumption DEF Init, TypeOK


-----------------------------------------------------------------------------
(* Which actions write which variables.                                    *)

\* The cells and the hands of the threads.
LEMMA CellFrame ==
  ASSUME [Next]_vars
  PROVE  /\ \/ UNCHANGED task
            \/ \E t \in Thread : Dequeue(t) \/ ReturnCell(t) \/ SignalWorkers(t)
         /\ \/ UNCHANGED aborted
            \/ \E t \in Thread : SignalWorkers(t)
         /\ \/ UNCHANGED new
            \/ \E t \in Thread, d \in Dispatcher : InitTask(t, d)
            \/ \E t \in Thread : LinkTask(t)
         /\ \/ UNCHANGED task_queue
            \/ \E t \in Thread : LinkTask(t) \/ Dequeue(t) \/ RequeueDummy(t)
         /\ \/ UNCHANGED task_pool
            \/ \E t \in Thread, d \in Dispatcher : InitTask(t, d)
            \/ \E t \in Thread : ReturnCell(t)
         /\ \/ UNCHANGED <<owner, task_cnt>>
            \/ \E t \in Thread, d \in Dispatcher : InitTask(t, d)
            \/ \E t \in Thread : FinishTask(t)
BY DEF Next, AppCall, CommonStep, WaitStep, WorkerStep, SetStep, InitTask,
       LinkTask, SignalWorkers, Dequeue, RequeueDummy, FinishTask, ReturnCell,
       TestMt, SignalPool, CallWait, CheckCounter, FoundEmpty, Recheck, WakeUp, TimeOut,
       WorkerTop, WorkerCheck, WorkerWakeUp, WorkerTimeOut, CallSetNbrThreads,
       RequestExit, SignalExit, Grow, AssignNbrThreads, IgnoreCall, EndSet, vars,
       poolVars, setVars, cellVars, endVars

\* The calls of the application, the size of the pool and the semaphores.
LEMMA PoolFrame ==
  ASSUME [Next]_vars
  PROVE  /\ \/ UNCHANGED <<disp, ended>>
            \/ \E a \in App, d \in Dispatcher : CallWait(a, d)
            \/ \E a \in App : CheckCounter(a)
            \/ \E t \in Thread : SignalWorkers(t) \/ SignalPool(t)
         /\ \/ UNCHANGED arg
            \/ \E a \in App, n \in Args : CallSetNbrThreads(a, n)
            \/ \E a \in App : SignalExit(a) \/ AssignNbrThreads(a) \/ IgnoreCall(a)
         /\ \/ UNCHANGED resized
            \/ \E a \in App, n \in Args : CallSetNbrThreads(a, n)
         /\ \/ UNCHANGED cut
            \/ \E a \in App : SignalExit(a)
         /\ \/ UNCHANGED nbr_threads
            \/ \E a \in App : AssignNbrThreads(a)
         /\ \/ UNCHANGED arr_size
            \/ \E a \in App : Grow(a)
         /\ \/ UNCHANGED exit_flag
            \/ \E a \in App : RequestExit(a)
         /\ \/ UNCHANGED sync_pool
            \/ \E t \in Thread : SignalPool(t)
            \/ \E a \in App : WakeUp(a)
         /\ \/ UNCHANGED sync_workers
            \/ \E t \in Thread : SignalWorkers(t)
            \/ \E a \in App : SignalExit(a)
            \/ \E w \in Worker : WorkerWakeUp(w)
         /\ \/ UNCHANGED issued
            \/ \E t \in Thread, d \in Dispatcher : InitTask(t, d)
BY DEF Next, AppCall, CommonStep, WaitStep, WorkerStep, SetStep, InitTask,
       LinkTask, SignalWorkers, Dequeue, RequeueDummy, FinishTask, ReturnCell,
       TestMt, SignalPool, CallWait, CheckCounter, FoundEmpty, Recheck, WakeUp, TimeOut,
       WorkerTop, WorkerCheck, WorkerWakeUp, WorkerTimeOut, CallSetNbrThreads,
       RequestExit, SignalExit, Grow, AssignNbrThreads, IgnoreCall, EndSet, vars,
       poolVars, setVars, cellVars, endVars

\* Places in the code where a thread has no cell in a local variable.
NoHandLabel ==
  {"none", "top", "wwait", "wcheck", "dead", "idle", "check", "deq", "empty",
   "recheck", "sleep", "set", "shrink", "shrunk", "grown", "threw"}

\* The steps that touch no cell and leave all hands as they are.
QuietStep ==
  /\ UNCHANGED <<task_pool, task_queue, owner, task_cnt, task, new, aborted>>
  /\ \A t \in Thread : \/ pc'[t] = pc[t]
                       \/ pc[t] \in NoHandLabel \ {"threw"} /\ pc'[t] \in NoHandLabel

\* The steps that move the cells, in the order a task goes through them.
CellStep ==
  \/ \E t \in Thread, d \in Dispatcher : InitTask(t, d)
  \/ \E t \in Thread : CommonStep(t)

LEMMA GrowStarts ==
  ASSUME IInv, NEW a \in App, Grow(a)
  PROVE  /\ pc'[a] = "grown"
         /\ \A t \in Thread \ {a} : pc'[t] = pc[t] \/ (pc[t] = "none" /\ pc'[t] = "top")
<1>1. nbr_threads = 1 /\ arr_size = 0 /\ \A w \in Worker : pc[w] = "none"
  BY DEF Grow, CanGrow, IInv, ArrayMatches, TypeOK
<1>2. nbr_threads - 1 .. arg[a] - 2 \subseteq Worker
  BY <1>1, ThreadsAssumption DEF IInv, TypeOK, Worker
<1> QED BY <1>1, <1>2, ThreadFacts DEF Grow

LEMMA StepKinds ==
  ASSUME IInv, [Next]_vars
  PROVE  CellStep \/ QuietStep
<1> USE DEF QuietStep, NoHandLabel, cellVars, endVars
<1>1. ASSUME NEW a \in App, WaitStep(a)
      PROVE  QuietStep
  BY <1>1 DEF WaitStep, CheckCounter, FoundEmpty, Recheck, WakeUp, TimeOut, Goto, IInv, TypeOK
<1>2. ASSUME NEW w \in Worker, WorkerStep(w)
      PROVE  QuietStep
  BY <1>2 DEF WorkerStep, WorkerTop, WorkerCheck, WorkerWakeUp, WorkerTimeOut, Goto, IInv, TypeOK
<1>3. ASSUME NEW a \in App, NEW d \in Dispatcher, CallWait(a, d)
      PROVE  QuietStep
  BY <1>3 DEF CallWait, Goto, IInv, TypeOK
<1>4. ASSUME NEW a \in App, NEW n \in Args, CallSetNbrThreads(a, n)
      PROVE  QuietStep
  BY <1>4 DEF CallSetNbrThreads, Goto, IInv, TypeOK
<1>5. ASSUME NEW a \in App, Grow(a)
      PROVE  QuietStep
  BY <1>5, GrowStarts DEF Grow
<1>6. ASSUME NEW a \in App, SetStep(a), ~Grow(a)
      PROVE  QuietStep
  BY <1>6 DEF SetStep, RequestExit, SignalExit, AssignNbrThreads, IgnoreCall,
         EndSet, Goto, IInv, TypeOK
<1>7. CASE UNCHANGED vars
  BY <1>7 DEF vars
<1> QED BY <1>1, <1>2, <1>3, <1>4, <1>5, <1>6, <1>7 DEF Next, AppCall, CellStep

-----------------------------------------------------------------------------
(* Each step preserves TypeOK.                                             *)

PcOK ==
  /\ pc \in [Thread -> AppLabel \cup WorkerLabel]
  /\ \A a \in App : pc[a] \in AppLabel
  /\ \A w \in Worker : pc[w] \in WorkerLabel

\* A thread goes to a place of its own code.
LEMMA PcType ==
  ASSUME IInv, [Next]_vars
  PROVE  PcOK'
<1> DEFINE OneMoves(t, l) == /\ Goto(t, l)
                             /\ t \in App => l \in AppLabel
                             /\ t \in Worker => l \in WorkerLabel
<1>1. ASSUME NEW t \in Thread, NEW l, OneMoves(t, l)
      PROVE  PcOK'
  BY <1>1, ThreadFacts DEF IInv, TypeOK, Goto, PcOK
<1> HIDE DEF OneMoves
<1>2. ASSUME NEW t \in Thread, CommonStep(t)
      PROVE  \E l : OneMoves(t, l)
  <2> USE ThreadFacts DEF AppLabel, WorkerLabel, OneMoves
  <2>1. CASE LinkTask(t)      BY <2>1 DEF LinkTask
  <2>2. CASE SignalWorkers(t) BY <2>2 DEF SignalWorkers, UnwindWait, IInv, HandsMatch
  <2>3. CASE Dequeue(t)       BY <2>3 DEF Dequeue
  <2>4. CASE RequeueDummy(t)  BY <2>4 DEF RequeueDummy
  <2>5. CASE FinishTask(t)    BY <2>5 DEF FinishTask
  <2>6. CASE ReturnCell(t)    BY <2>6 DEF ReturnCell
  <2>7. CASE TestMt(t)        BY <2>7 DEF TestMt, LoopOf
  <2>8. CASE SignalPool(t)    BY <2>8 DEF SignalPool, UnwindWait, LoopOf
  <2> QED BY <1>2, <2>1, <2>2, <2>3, <2>4, <2>5, <2>6, <2>7, <2>8 DEF CommonStep
<1>3. ASSUME NEW a \in App, WaitStep(a)
      PROVE  \E l : OneMoves(a, l)
  BY <1>3, ThreadFacts
     DEF WaitStep, CheckCounter, FoundEmpty, Recheck, WakeUp, TimeOut, AppLabel, OneMoves
<1>4. ASSUME NEW w \in Worker, WorkerStep(w)
      PROVE  \E l : OneMoves(w, l)
  BY <1>4, ThreadFacts
     DEF WorkerStep, WorkerTop, WorkerCheck, WorkerWakeUp, WorkerTimeOut, WorkerLabel, OneMoves
<1>5. ASSUME NEW t \in Thread, NEW d \in Dispatcher, InitTask(t, d)
      PROVE  \E l : OneMoves(t, l)
  BY <1>5 DEF InitTask, AppLabel, WorkerLabel, OneMoves
<1>6. ASSUME NEW a \in App, NEW d \in Dispatcher, CallWait(a, d)
      PROVE  \E l : OneMoves(a, l)
  BY <1>6, ThreadFacts DEF CallWait, AppLabel, OneMoves
<1>7. ASSUME NEW a \in App, NEW n \in Args, CallSetNbrThreads(a, n)
      PROVE  \E l : OneMoves(a, l)
  BY <1>7, ThreadFacts DEF CallSetNbrThreads, AppLabel, OneMoves
<1>8. ASSUME NEW a \in App, SetStep(a), ~Grow(a)
      PROVE  \E l : OneMoves(a, l)
  BY <1>8, ThreadFacts
     DEF SetStep, RequestExit, SignalExit, AssignNbrThreads, IgnoreCall, EndSet,
         AppLabel, OneMoves
<1>9. ASSUME NEW a \in App, Grow(a)
      PROVE  PcOK'
  <2>1. pc' = [t \in Thread |-> pc'[t]]
    BY <1>9 DEF Grow
  <2>2. \A b \in App : pc'[b] \in AppLabel
    BY <1>9, GrowStarts, ThreadFacts DEF IInv, TypeOK, AppLabel, WorkerLabel
  <2>3. \A w \in Worker : pc'[w] \in WorkerLabel
    BY <1>9, GrowStarts, ThreadFacts DEF IInv, TypeOK, WorkerLabel
  <2>4. \A t \in Thread : pc'[t] \in AppLabel \cup WorkerLabel
    BY <2>2, <2>3 DEF Thread
  <2>5. pc' \in [Thread -> AppLabel \cup WorkerLabel]
    BY <2>1, <2>4
  <2> QED BY <2>2, <2>3, <2>5 DEF PcOK
<1>10. CASE UNCHANGED vars
  BY <1>10 DEF vars, IInv, TypeOK, PcOK
<1> QED BY <1>1, <1>2, <1>3, <1>4, <1>5, <1>6, <1>7, <1>8, <1>9, <1>10, ThreadFacts
        DEF Next, AppCall

LEMMA TypeStep ==
  ASSUME IInv, [Next]_vars
  PROVE  TypeOK'
<1> USE DEF TypeOK, IInv
<1>1. nbr_threads' \in 1 .. MaxThreads
  BY PoolFrame DEF AssignNbrThreads, SetSerialized, SetLabel
<1>2. arr_size' \in 0 .. MaxThreads
  BY PoolFrame DEF Grow
<1>3. exit_flag' \in [Worker -> BOOLEAN]
  BY PoolFrame DEF RequestExit
<1>4. sync_pool' \in 0 .. SemaMax
  BY PoolFrame, SemaAssumption DEF SignalPool, CanRelease, WakeUp, HasToken
<1>5. sync_workers' \in 0 .. SemaMax
  <2>1. CASE UNCHANGED sync_workers
    BY <2>1
  <2>2. ASSUME NEW t \in Thread, SignalWorkers(t)
        PROVE  sync_workers' \in 0 .. SemaMax
    BY <2>2, SemaAssumption DEF SignalWorkers, CanRelease
  <2>3. ASSUME NEW a \in App, SignalExit(a)
        PROVE  sync_workers' \in 0 .. SemaMax
    <3>1. arg[a] < nbr_threads /\ arg[a] \in Nat /\ nbr_threads \in Nat
      BY <2>3, ThreadsAssumption DEF SignalExit, SetSerialized
    <3> QED BY <2>3, <3>1, SemaAssumption DEF SignalExit, CanRelease
  <2>4. ASSUME NEW w \in Worker, WorkerWakeUp(w)
        PROVE  sync_workers' \in 0 .. SemaMax
    BY <2>4, SemaAssumption DEF WorkerWakeUp, HasToken
  <2> QED BY <2>1, <2>2, <2>3, <2>4, PoolFrame
<1>6. task_pool' \in SUBSET Cell
  BY CellFrame DEF InitTask, ReturnCell, HandsMatch
<1>7. task_queue' \in Seq(Cell \cup {Dummy})
  <2>1. ASSUME NEW t \in Thread, LinkTask(t)
        PROVE  task_queue' \in Seq(Cell \cup {Dummy})
    BY <2>1 DEF LinkTask, enqueue, HandsMatch
  <2>2. ASSUME NEW t \in Thread, Dequeue(t)
        PROVE  task_queue' \in Seq(Cell \cup {Dummy})
    BY <2>2, QueueTail DEF Dequeue, CellsInOnePlace
  <2>3. ASSUME NEW t \in Thread, RequeueDummy(t)
        PROVE  task_queue' \in Seq(Cell \cup {Dummy})
    BY <2>3 DEF RequeueDummy, enqueue
  <2> QED BY <2>1, <2>2, <2>3, CellFrame
<1>8. /\ owner' \in [Cell -> Dispatcher \cup {None}]
      /\ task_cnt' \in [Dispatcher -> Nat]
  <2>1. CASE UNCHANGED <<owner, task_cnt>>
    BY <2>1
  <2>2. ASSUME NEW t \in Thread, NEW d \in Dispatcher, InitTask(t, d)
        PROVE  <1>8!1 /\ <1>8!2
    <3>1. owner' \in [Cell -> Dispatcher \cup {None}]
      BY <2>2 DEF InitTask, SetOwner
    <3>2. task_cnt' \in [Dispatcher -> Nat]
      BY <2>2 DEF InitTask, inc
    <3> QED BY <3>1, <3>2
  <2>3. ASSUME NEW t \in Thread, FinishTask(t)
        PROVE  <1>8!1 /\ <1>8!2
    <3>1. owner' \in [Cell -> Dispatcher \cup {None}]
      BY <2>3 DEF FinishTask, ClearOwner
    <3>2. pc[t] = "body" /\ task[t] \in Cell
      BY <2>3 DEF FinishTask, HandsMatch
    <3>3. owner[task[t]] # None
      BY <3>2, DataAssumption DEF OwnedWhileOut, CellsInOnePlace, HeldOnce, PlacesDisjoint, InHand, Tasked
    <3> DEFINE d == owner[task[t]]
    <3>4. d \in Dispatcher /\ task_cnt[d] - 1 \in Nat
      BY <3>2, <3>3, OwnedIsCounted
    <3> HIDE DEF d
    <3>5. task_cnt' = [task_cnt EXCEPT ![d] = task_cnt[d] - 1]
      BY <2>3 DEF FinishTask, dec, d
    <3>6. task_cnt' \in [Dispatcher -> Nat]
      BY <3>4, <3>5
    <3> QED BY <3>1, <3>6
  <2> QED BY <2>1, <2>2, <2>3, CellFrame
<1>9. PcOK'
  BY PcType
<1>10. task' \in [Thread -> Cell \cup {None}]
  <2>1. ASSUME NEW t \in Thread, Dequeue(t)
        PROVE  task' \in [Thread -> Cell \cup {None}]
    BY <2>1, QueueTail DEF Dequeue, CellsInOnePlace
  <2> QED BY <2>1, CellFrame DEF ReturnCell, SignalWorkers, AbortTask
<1>11. new' \in [Thread -> Cell \cup {None}]
  BY CellFrame DEF InitTask, LinkTask
<1>12. /\ disp' \in [App -> Dispatcher \cup {None}]
       /\ ended' \in [App -> {"returned", "threw"}]
  BY PoolFrame DEF CallWait, CheckCounter, SignalWorkers, SignalPool, UnwindWait, endVars
<1>13. arg' \in [App -> 0 .. MaxThreads] /\ resized' \in Nat
  <2>1. ASSUME NEW a \in App, NEW n \in Args, CallSetNbrThreads(a, n)
        PROVE  arg' \in [App -> 0 .. MaxThreads]
    <3>1. (IF n < 1 THEN Detected ELSE n) \in 0 .. MaxThreads
      BY ThreadsAssumption
    <3> QED BY <2>1, <3>1 DEF CallSetNbrThreads
  <2>2. ASSUME NEW a \in App, SignalExit(a) \/ AssignNbrThreads(a) \/ IgnoreCall(a)
        PROVE  arg' \in [App -> 0 .. MaxThreads]
    BY <2>2, ThreadsAssumption DEF SignalExit, AssignNbrThreads, IgnoreCall, EndSet, setVars
  <2>3. resized' \in Nat
    BY PoolFrame DEF CallSetNbrThreads
  <2> QED BY <2>1, <2>2, <2>3, PoolFrame
<1>15. aborted' \in SUBSET Cell
  BY CellFrame DEF SignalWorkers, AbortTask, endVars
<1>16. cut' \in 1 .. MaxThreads
  <2>1. ASSUME NEW a \in App, SignalExit(a)
        PROVE  cut' \in 1 .. MaxThreads
    <3>1. arg[a] \in 1 .. MaxThreads
      BY <2>1, ThreadsAssumption DEF SignalExit, SetSerialized, SetLabel
    <3> QED BY <2>1, <3>1 DEF SignalExit, Lesser
  <2> QED BY <2>1, PoolFrame
<1>14. issued' \in Nat
  BY PoolFrame DEF InitTask
<1> QED BY ONLY <1>1, <1>2, <1>3, <1>4, <1>5, <1>6, <1>7, <1>8, <1>9, <1>10, <1>11,
           <1>12, <1>13, <1>14, <1>15, <1>16 DEF PcOK, TypeOK

-----------------------------------------------------------------------------
(* Where the cells are.                                                    *)

LEMMA HandsStep ==
  ASSUME IInv, [Next]_vars
  PROVE  HandsMatch'
<1> USE ThreadFacts, DataAssumption DEF IInv, TypeOK, HandsMatch, Goto
<1>1. CASE QuietStep
  BY <1>1 DEF QuietStep, NoHandLabel
<1>2. ASSUME NEW t \in Thread, NEW d \in Dispatcher, InitTask(t, d)
      PROVE  HandsMatch'
  <2>1. t \in Worker => pc[t] = "body"
    BY <1>2 DEF InitTask, WorkerLabel
  <2>2. PICK c \in Cell : new' = [new EXCEPT ![t] = c]
    BY <1>2 DEF InitTask
  <2> QED BY <1>2, <2>1, <2>2 DEF InitTask
<1>3. ASSUME NEW t \in Thread, LinkTask(t)
      PROVE  HandsMatch'
  BY <1>3 DEF LinkTask
<1>4. ASSUME NEW t \in Thread, SignalWorkers(t)
      PROVE  HandsMatch'
  <2>1. CASE UNCHANGED task
    BY <1>4, <2>1 DEF SignalWorkers, AbortTask
  <2>2. CASE AbortTask(t) /\ UnwindWait(t)
    <3>1. /\ task' = [task EXCEPT ![t] = None]
          /\ pc' = [pc EXCEPT ![t] = "idle"]
          /\ pc[t] = "signal" /\ UNCHANGED new
      BY <1>4, <2>2 DEF SignalWorkers, AbortTask, UnwindWait
    <3> QED BY <3>1
  <2> QED BY <1>4, <2>1, <2>2 DEF SignalWorkers
<1>5. ASSUME NEW t \in Thread, Dequeue(t)
      PROVE  HandsMatch'
  <2>1. CASE Len(task_queue) = 1
    BY <1>5, <2>1 DEF Dequeue
  <2>2. CASE Head(task_queue) = Dummy
    BY <1>5, <2>2 DEF Dequeue
  <2>3. CASE Len(task_queue) > 1 /\ Head(task_queue) # Dummy
    <3>1. Head(task_queue) # None
      BY <2>3, QueueTail DEF CellsInOnePlace
    <3> QED BY <1>5, <2>3, <3>1 DEF Dequeue
  <2> QED BY <1>5, <2>1, <2>2, <2>3 DEF Dequeue
<1>6. ASSUME NEW t \in Thread, RequeueDummy(t)
      PROVE  HandsMatch'
  BY <1>6 DEF RequeueDummy
<1>7. ASSUME NEW t \in Thread, FinishTask(t)
      PROVE  HandsMatch'
  BY <1>7 DEF FinishTask
<1>8. ASSUME NEW t \in Thread, ReturnCell(t)
      PROVE  HandsMatch'
  BY <1>8 DEF ReturnCell
<1>9. ASSUME NEW t \in Thread, TestMt(t) \/ SignalPool(t)
      PROVE  HandsMatch'
  BY <1>9 DEF TestMt, SignalPool, UnwindWait, LoopOf
<1> QED BY <1>1, <1>2, <1>3, <1>4, <1>5, <1>6, <1>7, <1>8, <1>9, StepKinds
        DEF CellStep, CommonStep

\* A thread takes a cell nobody holds, or lets go of the one it holds.
LEMMA TakeNew ==
  ASSUME TypeOK, HeldOnce, NEW t \in Thread, new[t] = None,
         NEW c \in Cell, c \notin InHand,
         new' = [new EXCEPT ![t] = c], UNCHANGED task
  PROVE  HeldOnce' /\ InHand' = InHand \cup {c}
BY DataAssumption DEF TypeOK, HeldOnce, InHand, Tasked, Linking

LEMMA DropNew ==
  ASSUME TypeOK, HeldOnce, NEW t \in Thread, new[t] # None,
         new' = [new EXCEPT ![t] = None], UNCHANGED task
  PROVE  HeldOnce' /\ InHand' = InHand \ {new[t]} /\ new[t] \in InHand
BY DataAssumption DEF TypeOK, HeldOnce, InHand, Tasked, Linking

LEMMA TakeTask ==
  ASSUME TypeOK, HeldOnce, NEW t \in Thread, task[t] = None,
         NEW c \in Cell, c \notin InHand,
         task' = [task EXCEPT ![t] = c], UNCHANGED new
  PROVE  HeldOnce' /\ InHand' = InHand \cup {c}
BY DataAssumption DEF TypeOK, HeldOnce, InHand, Tasked, Linking

LEMMA DropTask ==
  ASSUME TypeOK, HeldOnce, NEW t \in Thread, task[t] # None,
         task' = [task EXCEPT ![t] = None], UNCHANGED new
  PROVE  HeldOnce' /\ InHand' = InHand \ {task[t]} /\ task[t] \in InHand
BY DataAssumption DEF TypeOK, HeldOnce, InHand, Tasked, Linking

LEMMA PlacesStep ==
  ASSUME IInv, [Next]_vars
  PROVE  CellsInOnePlace'
<1> USE DataAssumption DEF IInv, CellsInOnePlace, PlacesDisjoint
<1>1. CASE UNCHANGED <<task_pool, task_queue, task, new, aborted>>
  BY <1>1 DEF HeldOnce, InHand, InQueue, Tasked, Linking
<1>2. ASSUME NEW t \in Thread, NEW d \in Dispatcher, InitTask(t, d)
      PROVE  CellsInOnePlace'
  <2>1. PICK c \in task_pool : /\ task_pool' = task_pool \ {c}
                               /\ new' = [new EXCEPT ![t] = c]
    BY <1>2 DEF InitTask
  <2>2. /\ UNCHANGED <<task_queue, task, aborted>>
        /\ new[t] = None
        /\ c \in Cell
        /\ c \notin InHand
    BY <1>2, <2>1 DEF InitTask, HandsMatch, TypeOK, endVars
  <2>3. HeldOnce' /\ InHand' = InHand \cup {c} /\ InQueue' = InQueue
    BY <2>1, <2>2, TakeNew DEF InQueue
  <2> QED BY <2>1, <2>2, <2>3
<1>3. ASSUME NEW t \in Thread, LinkTask(t)
      PROVE  CellsInOnePlace'
  <2>1. /\ new[t] # None
        /\ new' = [new EXCEPT ![t] = None]
        /\ UNCHANGED <<task_pool, task, aborted>>
        /\ task_queue' = Append(task_queue, new[t])
    BY <1>3 DEF LinkTask, enqueue, HandsMatch, cellVars, endVars
  <2>2. HeldOnce' /\ InHand' = InHand \ {new[t]} /\ new[t] \in InHand
    BY <2>1, DropNew
  <2>3. new[t] \in Cell /\ task_queue \in Seq(Cell \cup {Dummy})
    BY <2>1 DEF TypeOK
  <2>4. InQueue' = InQueue \cup {new[t]} /\ IsInjective(task_queue')
    BY <2>1, <2>2, <2>3, QueueAppend DEF InQueue
  <2> QED BY <2>1, <2>2, <2>3, <2>4
<1>4. ASSUME NEW t \in Thread, Dequeue(t), Len(task_queue) > 1
      PROVE  CellsInOnePlace'
  <2> DEFINE c == Head(task_queue)
  <2>0. /\ task_queue' = Tail(task_queue)
        /\ c = Dummy => UNCHANGED task
        /\ c # Dummy => task' = [task EXCEPT ![t] = c]
        /\ pc[t] = "deq"
    <3>1. Len(task_queue) # 1
      BY <1>4, QueueTail
    <3> QED BY ONLY <1>4, <3>1 DEF Dequeue
  <2>1. /\ c \in InQueue \cap (Cell \cup {Dummy})
        /\ InQueue' = InQueue \ {c}
        /\ IsInjective(task_queue')
    BY <1>4, <2>0, QueueTail DEF InQueue
  <2>2. UNCHANGED <<task_pool, new, aborted>>
    BY <1>4 DEF Dequeue, cellVars, endVars
  <2>3. CASE c = Dummy
    <3>1. UNCHANGED task
      BY <1>4, <2>3 DEF Dequeue
    <3>2. HeldOnce' /\ InHand' = InHand
      BY <2>2, <3>1 DEF HeldOnce, InHand, Tasked, Linking
    <3> QED BY <2>1, <2>2, <2>3, <3>2
  <2>4. CASE c # Dummy
    <3>1. task' = [task EXCEPT ![t] = c] /\ task[t] = None /\ c \in Cell
      BY <2>0, <2>1, <2>4 DEF HandsMatch
    <3>2. HeldOnce' /\ InHand' = InHand \cup {c}
      BY <2>1, <2>2, <3>1, TakeTask
    <3> QED BY <2>1, <2>2, <3>1, <3>2
  <2> QED BY <2>3, <2>4
<1>5. ASSUME NEW t \in Thread, RequeueDummy(t)
      PROVE  CellsInOnePlace'
  <2>1. /\ Dummy \notin InQueue
        /\ UNCHANGED <<task_pool, task, new, aborted>>
        /\ task_queue' = Append(task_queue, Dummy)
    BY <1>5 DEF RequeueDummy, enqueue, DummyKept, cellVars, endVars
  <2>2. InQueue' = InQueue \cup {Dummy} /\ IsInjective(task_queue')
    BY <2>1, QueueAppend DEF InQueue
  <2>3. HeldOnce' /\ InHand' = InHand
    BY <2>1 DEF HeldOnce, InHand, Tasked, Linking
  <2>4. Dummy \notin InHand /\ Dummy \notin task_pool /\ Dummy \notin aborted
    BY DEF TypeOK, InHand, Tasked, Linking
  <2> QED BY <2>1, <2>2, <2>3, <2>4
<1>6. ASSUME NEW t \in Thread, ReturnCell(t)
      PROVE  CellsInOnePlace'
  <2>1. /\ task[t] # None
        /\ task' = [task EXCEPT ![t] = None]
        /\ task_pool' = task_pool \cup {task[t]}
        /\ UNCHANGED <<task_queue, new, aborted>>
    BY <1>6 DEF ReturnCell, HandsMatch, endVars
  <2>2. /\ HeldOnce' /\ InHand' = InHand \ {task[t]} /\ task[t] \in InHand
        /\ InQueue' = InQueue
    BY <2>1, DropTask DEF InQueue
  <2>3. task[t] \in Cell
    BY <2>1 DEF TypeOK
  <2> QED BY <2>1, <2>2, <2>3
<1>7. ASSUME NEW t \in Thread, Dequeue(t), ~(Len(task_queue) > 1)
      PROVE  CellsInOnePlace'
  BY <1>1, <1>7 DEF Dequeue, cellVars, endVars
<1>8. ASSUME NEW t \in Thread, FinishTask(t) \/ TestMt(t) \/ SignalPool(t)
      PROVE  CellsInOnePlace'
  BY <1>1, <1>8 DEF FinishTask, TestMt, SignalPool, cellVars, endVars
<1>9. ASSUME NEW t \in Thread, SignalWorkers(t)
      PROVE  CellsInOnePlace'
  <2>1. UNCHANGED <<task_pool, task_queue, new>>
    BY <1>9 DEF SignalWorkers, cellVars
  <2>2. CASE UNCHANGED <<task, aborted>>
    BY <1>1, <2>1, <2>2
  <2>3. CASE task[t] # None /\ AbortTask(t)
    <3>1. /\ HeldOnce' /\ InHand' = InHand \ {task[t]} /\ task[t] \in InHand
          /\ InQueue' = InQueue
      BY <2>1, <2>3, DropTask DEF AbortTask, InQueue
    <3>2. aborted' = aborted \cup {task[t]} /\ task[t] \in Cell
      BY <2>3 DEF AbortTask, TypeOK
    <3> QED BY <2>1, <3>1, <3>2
  <2> QED BY <1>9, <2>2, <2>3 DEF SignalWorkers, endVars
<1>10. CASE QuietStep
  BY <1>1, <1>10 DEF QuietStep
<1> QED BY <1>2, <1>3, <1>4, <1>5, <1>6, <1>7, <1>8, <1>9, <1>10, StepKinds
        DEF CellStep, CommonStep

LEMMA DummyStep ==
  ASSUME IInv, [Next]_vars
  PROVE  DummyKept'
<1> USE ThreadFacts, DataAssumption DEF IInv, TypeOK, DummyKept, Goto
<1>1. CASE QuietStep
  BY <1>1 DEF QuietStep, NoHandLabel, InQueue
<1>2. ASSUME NEW t \in Thread, NEW d \in Dispatcher, InitTask(t, d)
      PROVE  DummyKept'
  BY <1>2 DEF InitTask, InQueue
<1>3. ASSUME NEW t \in Thread, LinkTask(t)
      PROVE  DummyKept'
  <2>1. new[t] \in Cell /\ new[t] \notin InQueue
    BY <1>3 DEF LinkTask, HandsMatch, CellsInOnePlace, PlacesDisjoint, InHand, Linking
  <2>2. InQueue' = InQueue \cup {new[t]}
    BY <1>3, <2>1, QueueAppend DEF LinkTask, enqueue, InQueue, CellsInOnePlace
  <2>3. Dummy \in InQueue' <=> Dummy \in InQueue
    BY <2>1, <2>2
  <2>4. \A u \in Thread : pc'[u] = "dummy" <=> pc[u] = "dummy"
    BY <1>3 DEF LinkTask
  <2> QED BY ONLY <2>3, <2>4, DummyKept DEF DummyKept
<1>4. ASSUME NEW t \in Thread, Dequeue(t)
      PROVE  DummyKept'
  <2>1. CASE Len(task_queue) > 1
    <3>1. /\ task_queue' = Tail(task_queue)
          /\ pc[t] = "deq"
          /\ Goto(t, IF Head(task_queue) = Dummy THEN "dummy" ELSE "body")
      <4>1. Len(task_queue) # 1
        BY <2>1, QueueTail DEF CellsInOnePlace
      <4> QED BY ONLY <1>4, <4>1 DEF Dequeue
    <3>2. InQueue' = InQueue \ {Head(task_queue)} /\ Head(task_queue) \in InQueue
      BY <2>1, <3>1, QueueTail DEF InQueue, CellsInOnePlace
    <3>3. CASE Head(task_queue) = Dummy
      BY <3>1, <3>2, <3>3
    <3>4. CASE Head(task_queue) # Dummy
      BY <3>1, <3>2, <3>4
    <3> QED BY <3>3, <3>4
  <2>2. CASE ~(Len(task_queue) > 1)
    BY <1>4, <2>2 DEF Dequeue, InQueue
  <2> QED BY <2>1, <2>2
<1>5. ASSUME NEW t \in Thread, RequeueDummy(t)
      PROVE  DummyKept'
  <2>1. Dummy \in InQueue'
    BY <1>5, QueueAppend DEF RequeueDummy, enqueue, InQueue, CellsInOnePlace
  <2>2. \A u \in Thread : pc'[u] # "dummy"
    BY <1>5 DEF RequeueDummy
  <2> QED BY <2>1, <2>2
<1>6. ASSUME NEW t \in Thread,
             SignalWorkers(t) \/ FinishTask(t) \/ ReturnCell(t) \/ TestMt(t) \/ SignalPool(t)
      PROVE  DummyKept'
  <2>1. /\ UNCHANGED task_queue
        /\ pc[t] # "dummy"
        /\ \E l : l # "dummy" /\ pc' = [pc EXCEPT ![t] = l]
    BY <1>6 DEF SignalWorkers, FinishTask, ReturnCell, TestMt, SignalPool, UnwindWait,
         LoopOf, cellVars
  <2>2. \A u \in Thread : pc'[u] = "dummy" <=> pc[u] = "dummy"
    BY <2>1
  <2> QED BY ONLY <2>1, <2>2, DummyKept DEF DummyKept, InQueue
<1> QED BY <1>1, <1>2, <1>3, <1>4, <1>5, <1>6, StepKinds DEF CellStep, CommonStep

\* The cell of a running task is owned until FinishTask.
LEMMA OwnerStep ==
  ASSUME IInv, [Next]_vars
  PROVE  OwnedWhileOut'
<1> USE ThreadFacts, DataAssumption DEF IInv, TypeOK, OwnedWhileOut, Tasked, Goto
<1>1. CASE QuietStep
  <2>1. UNCHANGED <<task, task_pool, owner>>
    BY <1>1 DEF QuietStep
  <2>2. \A u \in Thread : pc'[u] = "return" <=> pc[u] = "return"
    BY <1>1 DEF QuietStep, NoHandLabel
  <2> QED BY ONLY <2>1, <2>2, OwnedWhileOut DEF OwnedWhileOut, Tasked
<1>2. ASSUME NEW t \in Thread, NEW d \in Dispatcher, InitTask(t, d)
      PROVE  OwnedWhileOut'
  <2>1. PICK c \in task_pool : /\ task_pool' = task_pool \ {c}
                               /\ owner' = [owner EXCEPT ![c] = d]
    BY <1>2 DEF InitTask, SetOwner
  <2>2. \A u \in Tasked : task[u] # c
    BY DEF CellsInOnePlace, PlacesDisjoint, InHand
  <2>3. /\ UNCHANGED task
        /\ \A u \in Thread : pc'[u] = "return" <=> pc[u] = "return"
    BY <1>2 DEF InitTask
  <2>4. owner'[c] = d /\ d # None /\ c \notin task_pool'
    BY <2>1
  <2>5. \A x \in Cell \ {c} :
          owner'[x] = owner[x] /\ (x \in task_pool' <=> x \in task_pool)
    BY <2>1
  <2> QED BY ONLY <2>2, <2>3, <2>4, <2>5, OwnedWhileOut DEF OwnedWhileOut, Tasked
<1>3. ASSUME NEW t \in Thread,
             LinkTask(t) \/ SignalWorkers(t) \/ RequeueDummy(t) \/ TestMt(t) \/ SignalPool(t)
      PROVE  OwnedWhileOut'
  <2>1. /\ UNCHANGED <<task_pool, owner>>
        /\ \A u \in Thread : pc'[u] = "return" <=> pc[u] = "return"
        /\ \A u \in Thread : pc[u] = "return" => task'[u] = task[u]
    BY <1>3 DEF LinkTask, SignalWorkers, RequeueDummy, TestMt, SignalPool, LoopOf,
         AbortTask, UnwindWait, cellVars
  <2> QED BY <2>1
<1>4. ASSUME NEW t \in Thread, Dequeue(t)
      PROVE  OwnedWhileOut'
  <2>1. /\ UNCHANGED <<task_pool, owner>>
        /\ \A u \in Thread : pc'[u] = "return" <=> pc[u] = "return"
        /\ \A u \in Thread : pc[u] = "return" => task'[u] = task[u]
    BY <1>4 DEF Dequeue, cellVars
  <2> QED BY <2>1
<1>5. ASSUME NEW t \in Thread, FinishTask(t)
      PROVE  OwnedWhileOut'
  <2>1. /\ UNCHANGED <<task, task_pool>>
        /\ owner' = [owner EXCEPT ![task[t]] = None]
        /\ pc[t] = "body" /\ pc' = [pc EXCEPT ![t] = "return"]
    BY <1>5 DEF FinishTask, ClearOwner
  <2>2. t \in Tasked /\ task[t] \in Cell
    BY <2>1 DEF HandsMatch
  <2>3. \A c \in Cell \ {task[t]} :
          (owner'[c] = None) <=>
            (c \in task_pool \/ \E u \in Tasked : task[u] = c /\ pc'[u] = "return")
    BY <2>1
  <2>4. owner'[task[t]] = None /\ pc'[t] = "return"
    BY <2>1, <2>2
  <2> QED BY ONLY <2>1, <2>2, <2>3, <2>4 DEF Tasked, OwnedWhileOut
<1>6. ASSUME NEW t \in Thread, ReturnCell(t)
      PROVE  OwnedWhileOut'
  <2>1. /\ UNCHANGED owner
        /\ task_pool' = task_pool \cup {task[t]}
        /\ task' = [task EXCEPT ![t] = None]
        /\ pc[t] = "return" /\ pc' = [pc EXCEPT ![t] = "notify"]
    BY <1>6 DEF ReturnCell
  <2>2. t \in Tasked /\ task[t] \in Cell /\ owner[task[t]] = None
    BY <2>1 DEF HandsMatch
  <2>3. \A u \in Thread \ {t} : task'[u] = task[u] /\ pc'[u] = pc[u]
    BY <2>1
  <2>4. task'[t] = None
    BY <2>1
  <2> QED BY <2>1, <2>2, <2>3, <2>4
<1> QED BY <1>1, <1>2, <1>3, <1>4, <1>5, <1>6, StepKinds DEF CellStep, CommonStep

LEMMA CounterStep ==
  ASSUME IInv, [Next]_vars
  PROVE  CounterCounts'
<1> DEFINE Owned(d) == {c \in Cell : owner[c] = d}
<1> USE DataAssumption DEF IInv, TypeOK, CounterCounts
<1>1. \A d : IsFiniteSet(Owned(d)) /\ Cardinality(Owned(d)) \in Nat
  BY FS_Subset, FS_CardinalityType
<1>2. CASE UNCHANGED <<owner, task_cnt>>
  BY <1>2
<1>3. ASSUME NEW t \in Thread, NEW d \in Dispatcher, InitTask(t, d)
      PROVE  CounterCounts'
  <2>1. PICK c \in task_pool : owner' = [owner EXCEPT ![c] = d]
    BY <1>3 DEF InitTask, SetOwner
  <2>2. owner[c] = None /\ c \in Cell
    BY DEF OwnedWhileOut
  <2>3. Owned(d)' = Owned(d) \cup {c} /\ c \notin Owned(d)
    BY <2>1, <2>2
  <2>4. \A e \in Dispatcher \ {d} : Owned(e)' = Owned(e)
    BY <2>1, <2>2
  <2>5. Cardinality(Owned(d)') = Cardinality(Owned(d)) + 1
    <3> DEFINE S == Owned(d)
    <3>1. IsFiniteSet(S) /\ c \notin S
      BY ONLY S \subseteq Cell, <2>3, FS_Subset, DataAssumption
    <3> HIDE DEF S
    <3>2. Cardinality(S \cup {c}) = Cardinality(S) + 1
      BY ONLY <3>1, FS_AddElement
    <3> QED BY ONLY <3>2, <2>3 DEF S
  <2>6. task_cnt' = [task_cnt EXCEPT ![d] = @ + 1]
    BY <1>3 DEF InitTask, inc
  <2>7. task_cnt'[d] = Cardinality(Owned(d)')
    BY <2>5, <2>6
  <2>8. \A e \in Dispatcher \ {d} : task_cnt'[e] = Cardinality(Owned(e)')
    BY <2>4, <2>6
  <2> QED BY <2>7, <2>8
<1>4. ASSUME NEW t \in Thread, FinishTask(t)
      PROVE  CounterCounts'
  <2>1. pc[t] = "body" /\ task[t] \in Cell /\ t \in Tasked
    BY <1>4 DEF FinishTask, HandsMatch, Tasked
  <2>2. owner[task[t]] # None
    BY <2>1 DEF OwnedWhileOut, CellsInOnePlace, HeldOnce, PlacesDisjoint, InHand
  <2>3. PICK c \in Cell, d \in Dispatcher : task[t] = c /\ owner[c] = d
    BY <2>1, <2>2
  <2>4. owner' = [owner EXCEPT ![c] = None]
    BY <1>4, <2>3 DEF FinishTask, ClearOwner
  <2>5. task_cnt' = [task_cnt EXCEPT ![d] = @ - 1]
    BY <1>4, <2>3 DEF FinishTask, dec
  <2>6. Owned(d)' = Owned(d) \ {c} /\ c \in Owned(d)
    BY <2>3, <2>4
  <2>7. \A e \in Dispatcher \ {d} : Owned(e)' = Owned(e)
    BY <2>3, <2>4
  <2>8. Cardinality(Owned(d)') = Cardinality(Owned(d)) - 1
    <3> DEFINE S == Owned(d)
    <3>1. IsFiniteSet(S) /\ c \in S
      BY ONLY S \subseteq Cell, <2>6, FS_Subset, DataAssumption
    <3> HIDE DEF S
    <3>2. Cardinality(S \ {c}) = Cardinality(S) - 1
      BY ONLY <3>1, FS_RemoveElement
    <3> QED BY ONLY <3>2, <2>6 DEF S
  <2>9. task_cnt'[d] = Cardinality(Owned(d)')
    BY <2>5, <2>8
  <2>10. \A e \in Dispatcher \ {d} : task_cnt'[e] = Cardinality(Owned(e)')
    BY <2>5, <2>7
  <2> QED BY <2>9, <2>10
<1> QED BY <1>2, <1>3, <1>4, CellFrame

-----------------------------------------------------------------------------
(* Calls and the size of the pool.                                         *)

\* Except when Grow starts workers, one thread moves at a time, and never one
\* that has not started.
LEMMA OneMoves ==
  ASSUME IInv, [Next]_vars
  PROVE  \/ UNCHANGED pc
         \/ \E a \in App : Grow(a)
         \/ \E t \in Thread : pc[t] # "none" /\ \E l : pc' = [pc EXCEPT ![t] = l]
<1>1. ASSUME NEW t \in Thread, CommonStep(t)
      PROVE  pc[t] # "none" /\ \E l : pc' = [pc EXCEPT ![t] = l]
  BY <1>1 DEF CommonStep, LinkTask, SignalWorkers, Dequeue, RequeueDummy,
       FinishTask, ReturnCell, TestMt, SignalPool, UnwindWait, Goto
<1>2. ASSUME NEW a \in App, WaitStep(a)
      PROVE  pc[a] # "none" /\ \E l : pc' = [pc EXCEPT ![a] = l]
  BY <1>2 DEF WaitStep, CheckCounter, FoundEmpty, Recheck, WakeUp, TimeOut, Goto
<1>3. ASSUME NEW w \in Worker, WorkerStep(w)
      PROVE  pc[w] # "none" /\ \E l : pc' = [pc EXCEPT ![w] = l]
  BY <1>3 DEF WorkerStep, WorkerTop, WorkerCheck, WorkerWakeUp, WorkerTimeOut, Goto
<1>4. ASSUME NEW a \in App, SetStep(a), ~Grow(a)
      PROVE  pc[a] # "none" /\ \E l : pc' = [pc EXCEPT ![a] = l]
  BY <1>4 DEF SetStep, RequestExit, SignalExit, AssignNbrThreads, IgnoreCall, EndSet, Goto
<1>5. ASSUME AppCall
      PROVE  \E t \in Thread : pc[t] # "none" /\ \E l : pc' = [pc EXCEPT ![t] = l]
  BY <1>5, ThreadFacts DEF AppCall, InitTask, CallWait, CallSetNbrThreads, Goto
<1>6. CASE UNCHANGED vars
  BY <1>6 DEF vars
<1> QED BY <1>1, <1>2, <1>3, <1>4, <1>5, <1>6, ThreadFacts DEF Next

\* A thread has a dispatcher to wait for from the call to the return.
LEMMA CallStep ==
  ASSUME IInv, [Next]_vars
  PROVE  CallMatches'
<1> USE ThreadFacts, DataAssumption DEF IInv, TypeOK, CallMatches, Goto, SetLabel
<1>1. ASSUME NEW a \in App, WaitStep(a)
      PROVE  CallMatches'
  BY <1>1 DEF WaitStep, CheckCounter, FoundEmpty, Recheck, WakeUp, TimeOut
<1>2. ASSUME NEW w \in Worker, WorkerStep(w)
      PROVE  CallMatches'
  BY <1>2 DEF WorkerStep, WorkerTop, WorkerCheck, WorkerWakeUp, WorkerTimeOut
<1>3. ASSUME NEW a \in App, NEW d \in Dispatcher, CallWait(a, d)
      PROVE  CallMatches'
  BY <1>3 DEF CallWait
<1>4. ASSUME NEW a \in App, NEW n \in Args, CallSetNbrThreads(a, n)
      PROVE  CallMatches'
  BY <1>4 DEF CallSetNbrThreads
<1>5. ASSUME NEW a \in App, Grow(a)
      PROVE  CallMatches'
  <2>1. pc[a] = "set" /\ UNCHANGED <<task, disp>>
    BY <1>5 DEF Grow
  <2>2. \A b \in App : pc'[b] = pc[b] \/ (b = a /\ pc'[b] = "grown")
    BY ONLY <1>5, IInv, GrowStarts, ThreadFacts DEF IInv, TypeOK, AppLabel
  <2> QED BY <2>1, <2>2
<1>6. ASSUME NEW a \in App, SetStep(a), ~Grow(a)
      PROVE  CallMatches'
  BY <1>6 DEF SetStep, RequestExit, SignalExit, AssignNbrThreads, IgnoreCall, EndSet
<1>7. ASSUME NEW t \in Thread, NEW d \in Dispatcher, InitTask(t, d)
      PROVE  CallMatches'
  BY <1>7 DEF InitTask, HandsMatch
<1>8. ASSUME NEW t \in Thread, LinkTask(t)
      PROVE  CallMatches'
  BY <1>8 DEF LinkTask, HandsMatch
<1>13. ASSUME NEW t \in Thread, SignalWorkers(t)
      PROVE  CallMatches'
  <2>1. CASE UNCHANGED <<task, disp>>
    BY <1>13, <2>1 DEF SignalWorkers, HandsMatch, AbortTask
  <2>2. CASE t \in App /\ AbortTask(t) /\ UnwindWait(t)
    <3>1. /\ task' = [task EXCEPT ![t] = None]
          /\ disp' = [disp EXCEPT ![t] = None]
          /\ pc' = [pc EXCEPT ![t] = "idle"]
      BY <2>2 DEF AbortTask, UnwindWait
    <3> QED BY <2>2, <3>1
  <2> QED BY <1>13, <2>1, <2>2 DEF SignalWorkers
<1>9. ASSUME NEW t \in Thread, Dequeue(t)
      PROVE  CallMatches'
  BY <1>9 DEF Dequeue, HandsMatch
<1>10. ASSUME NEW t \in Thread, RequeueDummy(t) \/ FinishTask(t)
      PROVE  CallMatches'
  BY <1>10 DEF RequeueDummy, FinishTask
<1>11. ASSUME NEW t \in Thread, ReturnCell(t) \/ TestMt(t) \/ SignalPool(t)
      PROVE  CallMatches'
  BY <1>11 DEF ReturnCell, TestMt, SignalPool, UnwindWait, LoopOf
<1>12. CASE UNCHANGED vars
  BY <1>12 DEF vars
<1> QED BY <1>1, <1>2, <1>3, <1>4, <1>5, <1>6, <1>7, <1>8, <1>9, <1>10, <1>11, <1>12, <1>13
        DEF Next, AppCall, CommonStep

\* mutex_set: while a thread changes the number of threads, nothing else does.
LEMMA SerializedStep ==
  ASSUME IInv, [Next]_vars
  PROVE  SetSerialized'
<1> USE ThreadFacts DEF IInv, TypeOK, SetSerialized, SetLabel
<1>1. ASSUME NEW t \in Thread, NEW l, l \notin SetLabel,
             pc' = [pc EXCEPT ![t] = l],
             UNCHANGED <<arg, nbr_threads, arr_size>>
      PROVE  SetSerialized'
  BY <1>1
<1>2. ASSUME NEW t \in Thread, CommonStep(t)
      PROVE  SetSerialized'
  <2>1. /\ UNCHANGED <<arg, nbr_threads, arr_size>>
        /\ \E l : l \notin SetLabel /\ pc' = [pc EXCEPT ![t] = l]
    BY <1>2 DEF CommonStep, LinkTask, SignalWorkers, Dequeue, RequeueDummy,
         FinishTask, ReturnCell, TestMt, SignalPool, UnwindWait, LoopOf, Goto,
         poolVars, setVars
  <2> QED BY ONLY <1>1, <2>1
<1>3. ASSUME NEW a \in App, WaitStep(a)
      PROVE  SetSerialized'
  <2>1. /\ UNCHANGED <<arg, nbr_threads, arr_size>>
        /\ \E l : l \notin SetLabel /\ pc' = [pc EXCEPT ![a] = l]
    BY <1>3 DEF WaitStep, CheckCounter, FoundEmpty, Recheck, WakeUp, TimeOut,
         Goto, poolVars, setVars
  <2> QED BY ONLY <1>1, <2>1, ThreadFacts
<1>4. ASSUME NEW w \in Worker, WorkerStep(w)
      PROVE  SetSerialized'
  <2>1. /\ UNCHANGED <<arg, nbr_threads, arr_size>>
        /\ \E l : l \notin SetLabel /\ pc' = [pc EXCEPT ![w] = l]
    BY <1>4 DEF WorkerStep, WorkerTop, WorkerCheck, WorkerWakeUp, WorkerTimeOut,
         Goto, poolVars, setVars
  <2> QED BY ONLY <1>1, <2>1, ThreadFacts
<1>5. ASSUME NEW t \in Thread, NEW d \in Dispatcher, InitTask(t, d)
      PROVE  SetSerialized'
  <2>1. /\ UNCHANGED <<arg, nbr_threads, arr_size>>
        /\ pc' = [pc EXCEPT ![t] = "link"]
    BY <1>5 DEF InitTask, Goto, poolVars, setVars
  <2> QED BY <1>1, <2>1
<1>6. ASSUME NEW a \in App, NEW d \in Dispatcher, CallWait(a, d)
      PROVE  SetSerialized'
  <2>1. /\ UNCHANGED <<arg, nbr_threads, arr_size>>
        /\ pc' = [pc EXCEPT ![a] = "check"]
    BY <1>6 DEF CallWait, Goto, poolVars, setVars
  <2> QED BY <1>1, <2>1
<1>7. ASSUME NEW a \in App, NEW n \in Args, CallSetNbrThreads(a, n)
      PROVE  SetSerialized'
  <2> DEFINE m == IF n < 1 THEN Detected ELSE n
  <2>1. /\ \A b \in App : pc[b] \notin SetLabel
        /\ arg' = [arg EXCEPT ![a] = m]
        /\ pc' = [pc EXCEPT ![a] = "set"]
    BY <1>7 DEF CallSetNbrThreads, InSet, Goto
  <2>2. m >= 1
    BY ThreadsAssumption
  <2> HIDE DEF m
  <2> QED BY <2>1, <2>2
<1>8. ASSUME NEW a \in App, RequestExit(a) \/ SignalExit(a), pc'[a] # "idle"
      PROVE  SetSerialized'
  <2>1. /\ UNCHANGED <<arg, nbr_threads, arr_size>>
        /\ pc[a] \in {"set", "shrink"} /\ arg[a] < nbr_threads
    BY <1>8 DEF RequestExit, SignalExit, EndSet, Goto, setVars, poolVars
  <2>2. \E l \in {"shrink", "shrunk"} : pc' = [pc EXCEPT ![a] = l]
    BY <1>8 DEF RequestExit, SignalExit, EndSet, Goto
  <2>3. \A b \in App \ {a} : pc'[b] = pc[b] /\ pc[b] \notin SetLabel
    BY <2>1, <2>2
  <2>4. pc'[a] \in {"shrink", "shrunk"}
    BY <2>2
  <2> QED BY ONLY IInv, <2>1, <2>3, <2>4 DEF IInv, SetSerialized, SetLabel
<1>9. ASSUME NEW a \in App, Grow(a)
      PROVE  SetSerialized'
  <2>1. pc[a] = "set" /\ arr_size' = arg[a] /\ UNCHANGED <<arg, nbr_threads>>
    BY <1>9 DEF Grow, setVars
  <2>2. pc'[a] = "grown" /\ \A b \in App \ {a} : pc'[b] = pc[b]
    BY <1>9, GrowStarts DEF AppLabel
  <2>3. \A b \in App \ {a} : pc'[b] \notin SetLabel
    BY <2>1, <2>2
  <2>4. arg[a] \in Int /\ arg[a] >= 1 /\ arg'[a] = arg[a] /\ arr_size' = arg[a]
    BY <2>1
  <2> QED BY ONLY <2>2, <2>3, <2>4 DEF SetSerialized, SetLabel
<1>10. ASSUME NEW a \in App,
              \/ AssignNbrThreads(a) \/ IgnoreCall(a)
              \/ SignalExit(a) /\ pc'[a] = "idle"
      PROVE  SetSerialized'
  <2>1. pc[a] \in SetLabel /\ pc' = [pc EXCEPT ![a] = "idle"]
    BY <1>10 DEF AssignNbrThreads, IgnoreCall, SignalExit, EndSet, Goto
  <2>2. \A b \in App : pc'[b] \notin SetLabel
    BY <2>1
  <2> QED BY ONLY <2>2 DEF SetSerialized, SetLabel
<1>11. CASE UNCHANGED vars
  BY <1>11 DEF vars
<1>12. ASSUME NEW a \in App, RequestExit(a)
       PROVE  pc'[a] # "idle"
  BY <1>12 DEF RequestExit, Goto
<1> QED BY <1>2, <1>3, <1>4, <1>5, <1>6, <1>7, <1>8, <1>9, <1>10, <1>11, <1>12
        DEF Next, AppCall, SetStep

LEMMA ArrayStep ==
  ASSUME IInv, [Next]_vars
  PROVE  ArrayMatches'
<1> USE ThreadFacts DEF IInv, TypeOK, ArrayMatches
<1>1. ASSUME NEW a \in App, Grow(a)
      PROVE  ArrayMatches'
  BY <1>1 DEF Grow
<1>2. ASSUME NEW a \in App, AssignNbrThreads(a)
      PROVE  ArrayMatches'
  <2>1. /\ nbr_threads' = arg[a]
        /\ arr_size' = arr_size
        /\ arg[a] \in Nat /\ arg[a] >= 1
        /\ arg[a] < nbr_threads \/ arg[a] <= arr_size
    BY <1>2 DEF AssignNbrThreads, SetSerialized, SetLabel
  <2> QED BY <2>1
<1>3. ASSUME UNCHANGED <<nbr_threads, arr_size>>, ~\E a \in App : Grow(a)
      PROVE  ArrayMatches'
  <2>1. ASSUME NEW w \in Worker, pc[w] = "none"
        PROVE  pc'[w] = "none"
    BY <1>3, <2>1, OneMoves
  <2> QED BY <1>3, <2>1
<1> QED BY <1>1, <1>2, <1>3, PoolFrame

\* A step of one thread that neither changes the pool, nor is one of a change
\* of the number of threads, nor the end of a worker that is not asked to.
LEMMA ExitFrame ==
  ASSUME IInv, NEW t \in Thread, NEW l,
         pc' = [pc EXCEPT ![t] = l],
         UNCHANGED <<nbr_threads, arr_size, exit_flag, cut>>,
         pc[t] \notin ChangeLabel \cup {"none", "dead"},
         l \notin ChangeLabel \cup {"none"},
         l = "dead" => exit_flag[t] /\ t \in Worker,
         (\E a \in App : pc[a] \in ChangeLabel) => UNCHANGED arg
  PROVE  ExitMatches'
<1> USE ThreadFacts
<1>1. /\ ExitMatches
      /\ pc'[t] = l
      /\ \A u \in Thread \ {t} : pc'[u] = pc[u]
  BY DEF IInv, TypeOK
<1>2. \A w \in Worker : Active(w)' <=> Active(w)
  BY <1>1 DEF Active, ExitMatches
<1>3. \A n : FirstActive(n) => \A w \in Worker : Active(w)' <=> w < n - 1
  BY <1>2 DEF FirstActive
<1>4. \A a \in App : pc'[a] \in ChangeLabel <=> pc[a] \in ChangeLabel
  BY <1>1
<1>5. ASSUME NEW a \in App, pc'[a] \in ChangeLabel
      PROVE  FirstActive(Lesser(arg[a], cut))'
  <2>1. pc[a] \in ChangeLabel /\ UNCHANGED arg
    BY <1>4, <1>5
  <2>2. FirstActive(Lesser(arg[a], cut))
    BY <1>1, <2>1 DEF ExitMatches
  <2> QED BY <1>3, <2>1, <2>2 DEF FirstActive, Lesser
<1>6. ASSUME \A a \in App : pc'[a] \notin ChangeLabel
      PROVE  FirstActive(Lesser(nbr_threads, cut))'
  <2>1. FirstActive(Lesser(nbr_threads, cut))
    BY <1>1, <1>4, <1>6 DEF ExitMatches
  <2> QED BY <1>3, <2>1 DEF FirstActive, Lesser
<1>7. /\ \A w \in Worker : pc'[w] = "dead" => exit_flag'[w]
      /\ arr_size' = 0 => (\A w \in Worker : ~exit_flag'[w]) /\ cut' = MaxThreads
  BY <1>1 DEF ExitMatches
<1> QED BY <1>5, <1>6, <1>7 DEF ExitMatches

\* The workers that run and are not asked to exit stay those of the number of
\* threads, or of the one that is being set.
LEMMA ExitStep ==
  ASSUME IInv, [Next]_vars
  PROVE  ExitMatches'
<1> USE ThreadFacts
<1>1. ASSUME NEW t \in Thread, CommonStep(t)
      PROVE  ExitMatches'
  <2>1. /\ UNCHANGED <<nbr_threads, arr_size, exit_flag, arg, cut>>
        /\ pc[t] \notin ChangeLabel \cup {"none", "dead"}
        /\ \E l : /\ l \notin ChangeLabel \cup {"none", "dead"}
                  /\ pc' = [pc EXCEPT ![t] = l]
    BY <1>1 DEF CommonStep, LinkTask, SignalWorkers, Dequeue, RequeueDummy,
         FinishTask, ReturnCell, TestMt, SignalPool, UnwindWait, LoopOf, Goto,
         poolVars, setVars, ChangeLabel
  <2> QED BY <2>1, ExitFrame
<1>2. ASSUME NEW a \in App, WaitStep(a)
      PROVE  ExitMatches'
  <2>1. /\ UNCHANGED <<nbr_threads, arr_size, exit_flag, arg, cut>>
        /\ pc[a] \notin ChangeLabel \cup {"none", "dead"}
        /\ \E l : /\ l \notin ChangeLabel \cup {"none", "dead"}
                  /\ pc' = [pc EXCEPT ![a] = l]
    BY <1>2 DEF WaitStep, CheckCounter, FoundEmpty, Recheck, WakeUp, TimeOut,
         Goto, poolVars, setVars, ChangeLabel
  <2> QED BY <2>1, ExitFrame
<1>3. ASSUME NEW w \in Worker, WorkerStep(w)
      PROVE  ExitMatches'
  <2>1. /\ UNCHANGED <<nbr_threads, arr_size, exit_flag, arg, cut>>
        /\ pc[w] \notin ChangeLabel \cup {"none", "dead"}
        /\ \E l : /\ l \notin ChangeLabel \cup {"none"}
                  /\ l = "dead" => exit_flag[w]
                  /\ pc' = [pc EXCEPT ![w] = l]
    BY <1>3 DEF WorkerStep, WorkerTop, WorkerCheck, WorkerWakeUp,
         WorkerTimeOut, ExitRequested, Goto, poolVars, setVars, ChangeLabel
  <2> QED BY <2>1, ExitFrame
<1>4. ASSUME AppCall
      PROVE  ExitMatches'
  <2>1. PICK t \in Thread, l \in {"link", "check", "set"} :
          /\ UNCHANGED <<nbr_threads, arr_size, exit_flag, cut>>
          /\ pc[t] \notin ChangeLabel \cup {"none", "dead"}
          /\ pc' = [pc EXCEPT ![t] = l]
          /\ (\E a \in App : pc[a] \in ChangeLabel) => UNCHANGED arg
    BY <1>4 DEF AppCall, InitTask, CallWait, CallSetNbrThreads, InSet, Goto,
         poolVars, setVars, ChangeLabel
  <2> QED BY <2>1, ExitFrame DEF ChangeLabel
<1>5. ASSUME NEW a \in App, IgnoreCall(a)
      PROVE  ExitMatches'
  <2>1. /\ UNCHANGED <<nbr_threads, arr_size, exit_flag, cut>>
        /\ pc[a] = "set"
        /\ pc' = [pc EXCEPT ![a] = "idle"]
    BY <1>5 DEF IgnoreCall, EndSet, Goto, poolVars
  <2>2. \A b \in App : pc[b] \notin ChangeLabel
    BY <2>1 DEF IInv, SetSerialized, SetLabel, ChangeLabel
  <2> QED BY <2>1, <2>2, ExitFrame DEF ChangeLabel
<1>6. ASSUME NEW a \in App, pc[a] \in SetLabel
      PROVE  /\ \A b \in App \ {a} : pc[b] \notin SetLabel
             /\ arg[a] \in 1 .. MaxThreads
             /\ nbr_threads \in Nat /\ arr_size \in Nat /\ cut \in Nat
             /\ MaxThreads \in Nat
             /\ ExitMatches
  BY <1>6, ThreadsAssumption DEF IInv, TypeOK, SetSerialized
<1>7. ASSUME NEW a \in App, RequestExit(a)
      PROVE  ExitMatches'
  <2>1. /\ UNCHANGED <<nbr_threads, arr_size, arg, cut>>
        /\ pc[a] = "set" /\ arg[a] < nbr_threads
        /\ exit_flag' = [w \in Worker |-> exit_flag[w] \/ InExcess(a, w)]
        /\ pc' = [pc EXCEPT ![a] = "shrink"]
    BY <1>7 DEF RequestExit, Goto, setVars
  <2>2. /\ pc'[a] = "shrink"
        /\ \A u \in Thread \ {a} : pc'[u] = pc[u]
        /\ \A b \in App \ {a} : pc[b] \notin SetLabel
        /\ arg[a] \in Nat /\ arg[a] >= 1 /\ nbr_threads \in Nat /\ cut \in Nat
    BY <1>6, <2>1 DEF IInv, TypeOK, SetLabel
  <2>3. arr_size # 0
    BY <2>1, <2>2 DEF IInv, ArrayMatches, TypeOK
  <2>4. FirstActive(Lesser(arg[a], cut))'
    <3>1. FirstActive(Lesser(nbr_threads, cut))
      BY <2>1, <2>2 DEF IInv, ExitMatches, SetLabel, ChangeLabel
    <3>2. ASSUME NEW w \in Worker
          PROVE  Active(w)' <=> w < Lesser(arg[a], cut) - 1
      <4>1. Active(w) <=> w < Lesser(nbr_threads, cut) - 1
        BY <3>1 DEF FirstActive
      <4>2. Active(w)' <=> Active(w) /\ ~InExcess(a, w)
        BY <2>1, <2>2 DEF Active
      <4> QED BY <2>1, <2>2, <4>1, <4>2 DEF InExcess, Lesser
    <3> QED BY <2>1, <3>2 DEF FirstActive, Lesser
  <2>5. \A w \in Worker : pc'[w] = "dead" => exit_flag'[w]
    BY <2>1, <2>2 DEF IInv, ExitMatches
  <2> QED BY ONLY <2>1, <2>2, <2>3, <2>4, <2>5 DEF ExitMatches, ChangeLabel, SetLabel
<1>8. ASSUME NEW a \in App, SignalExit(a)
      PROVE  ExitMatches'
  <2>1. /\ UNCHANGED <<nbr_threads, arr_size, exit_flag>>
        /\ pc[a] = "shrink"
        /\ \/ pc' = [pc EXCEPT ![a] = "shrunk"] /\ UNCHANGED <<arg, cut>>
           \/ pc' = [pc EXCEPT ![a] = "idle"] /\ cut' = Lesser(cut, arg[a])
    BY <1>8 DEF SignalExit, EndSet, Goto, poolVars
  <2>2. /\ \/ pc'[a] = "shrunk" /\ UNCHANGED <<arg, cut>>
           \/ pc'[a] = "idle" /\ cut' = Lesser(cut, arg[a])
        /\ \A u \in Thread \ {a} : pc'[u] = pc[u]
        /\ \A b \in App \ {a} : pc[b] \notin SetLabel
        /\ arg[a] \in Nat /\ nbr_threads \in Nat /\ cut \in Nat
    BY <1>6, <2>1 DEF IInv, TypeOK, SetLabel
  <2>3. \A w \in Worker : Active(w)' <=> Active(w)
    BY <2>1, <2>2 DEF Active
  <2>4. FirstActive(Lesser(arg[a], cut))
    BY <2>1, <2>2 DEF IInv, ExitMatches, ChangeLabel
  <2>5. arg[a] >= 1 /\ arg[a] < nbr_threads /\ arr_size # 0
    BY <2>1 DEF IInv, SetSerialized, SetLabel, ArrayMatches, TypeOK
  <2>6. /\ \A w \in Worker : pc'[w] = "dead" => exit_flag'[w]
        /\ arr_size' # 0
    BY <2>1, <2>2, <2>5 DEF IInv, ExitMatches
  <2>7. CASE pc'[a] = "shrunk"
    <3>1. FirstActive(Lesser(arg[a], cut))'
      BY <2>1, <2>2, <2>3, <2>4, <2>7 DEF FirstActive, Lesser
    <3> QED BY ONLY <2>2, <2>6, <2>7, <3>1, ThreadFacts DEF ExitMatches, ChangeLabel, SetLabel
  <2>8. CASE pc'[a] = "idle"
    <3>1. cut' = Lesser(cut, arg[a])
      BY <2>1, <2>2, <2>8
    <3>2. Lesser(nbr_threads', cut') = Lesser(arg[a], cut)
      BY <2>1, <2>2, <2>5, <3>1 DEF Lesser
    <3>3. FirstActive(Lesser(nbr_threads, cut))'
      BY <2>3, <2>4, <3>2 DEF FirstActive
    <3> QED BY ONLY <2>2, <2>6, <2>8, <3>3, ThreadFacts DEF ExitMatches, ChangeLabel, SetLabel
  <2> QED BY <2>2, <2>7, <2>8
<1>9. ASSUME NEW a \in App, Grow(a)
      PROVE  ExitMatches'
  <2>1. /\ UNCHANGED <<exit_flag, arg, cut>>
        /\ pc[a] = "set" /\ arg[a] > nbr_threads
        /\ arr_size' = arg[a]
    BY <1>9 DEF Grow, setVars
  <2>2. nbr_threads = 1 /\ arr_size = 0 /\ \A w \in Worker : pc[w] = "none"
    BY <1>9 DEF Grow, CanGrow, IInv, ArrayMatches, TypeOK
  <2>3. /\ arg[a] \in Nat /\ arg[a] > 1
        /\ \A b \in App \ {a} : pc[b] \notin SetLabel
        /\ \A w \in Worker : ~exit_flag[w]
        /\ Lesser(arg[a], cut) = arg[a]
    BY <1>6, <2>1, <2>2 DEF SetLabel, ExitMatches, Lesser
  <2>4. /\ pc'[a] = "grown"
        /\ \A b \in App \ {a} : pc'[b] = pc[b]
        /\ \A w \in Worker : pc'[w] = IF w < arg[a] - 1 THEN "top" ELSE "none"
    <3>1. \A b \in App : b \notin nbr_threads - 1 .. arg[a] - 2
      BY ThreadsAssumption, <2>2, <2>3
    <3>2. \A t \in Thread :
            /\ t = a => pc'[t] = "grown"
            /\ t # a /\ t \in nbr_threads - 1 .. arg[a] - 2 => pc'[t] = "top"
            /\ t # a /\ t \notin nbr_threads - 1 .. arg[a] - 2 => pc'[t] = pc[t]
      <4>1. pc' = [t \in Thread |->
                     CASE t = a -> "grown"
                       [] t \in nbr_threads - 1 .. arg[a] - 2 -> "top"
                       [] OTHER -> pc[t]]
        BY <1>9 DEF Grow
      <4> QED BY <4>1, <3>1, Zenon
    <3>3. \A w \in Worker : w # a /\ w >= 0 /\ w \in Int
      BY DEF Worker
    <3> QED BY <2>2, <2>3, <3>1, <3>2, <3>3
  <2>5. FirstActive(Lesser(arg[a], cut))'
    BY <2>1, <2>3, <2>4 DEF FirstActive, Active, Lesser
  <2> QED BY ONLY <2>1, <2>3, <2>4, <2>5, ThreadFacts DEF ExitMatches, ChangeLabel, SetLabel
<1>10. ASSUME NEW a \in App, AssignNbrThreads(a)
      PROVE  ExitMatches'
  <2>1. /\ UNCHANGED <<arr_size, exit_flag, cut>>
        /\ nbr_threads' = arg[a]
        /\ pc[a] \in {"shrunk", "grown"}
        /\ pc' = [pc EXCEPT ![a] = "idle"]
    BY <1>10 DEF AssignNbrThreads, EndSet, Goto
  <2>2. /\ pc'[a] = "idle"
        /\ \A u \in Thread \ {a} : pc'[u] = pc[u]
        /\ \A b \in App \ {a} : pc[b] \notin SetLabel
    BY <1>6, <2>1 DEF IInv, TypeOK, SetLabel
  <2>3. \A w \in Worker : Active(w)' <=> Active(w)
    BY <2>1, <2>2 DEF Active
  <2>4. FirstActive(Lesser(nbr_threads, cut))'
    <3>1. FirstActive(Lesser(arg[a], cut))
      BY <2>1, <2>2 DEF IInv, ExitMatches, ChangeLabel
    <3> QED BY <2>1, <2>3, <3>1 DEF FirstActive, Lesser
  <2>5. /\ \A w \in Worker : pc'[w] = "dead" => exit_flag'[w]
        /\ arr_size' = 0 => (\A w \in Worker : ~exit_flag'[w]) /\ cut' = MaxThreads
    BY <2>1, <2>2 DEF IInv, ExitMatches
  <2> QED BY ONLY <2>1, <2>2, <2>4, <2>5 DEF ExitMatches, ChangeLabel, SetLabel
<1>11. CASE UNCHANGED vars
  BY <1>11 DEF vars, IInv, ExitMatches, FirstActive, Active, Lesser
<1> QED BY <1>1, <1>2, <1>3, <1>4, <1>5, <1>7, <1>8, <1>9, <1>10, <1>11
        DEF Next, SetStep

-----------------------------------------------------------------------------
(* The theorems.                                                           *)

LEMMA InvInit == Init => IInv
<1> SUFFICES ASSUME Init PROVE IInv
  OBVIOUS
<1> USE ThreadFacts, DataAssumption
<1>1. TypeOK
  BY TypeInit
<1>2. /\ \A a \in App : pc[a] = "idle" /\ disp[a] = None
      /\ \A w \in Worker : pc[w] \in {"top", "none"}
      /\ \A t \in Thread : task[t] = None /\ new[t] = None
  BY DEF Init
<1>3. HandsMatch /\ CallMatches /\ SetSerialized
  BY <1>2 DEF HandsMatch, CallMatches, SetSerialized, SetLabel
<1>4. ArrayMatches
  <2>1. PICK n \in InitThreads :
          /\ nbr_threads = n
          /\ arr_size = IF n = 1 THEN 0 ELSE n
          /\ pc = [t \in Thread |-> IF t \in App THEN "idle"
                                    ELSE IF t < n - 1 THEN "top" ELSE "none"]
    BY DEF Init
  <2>2. n \in Nat
    BY ThreadsAssumption
  <2>3. CASE n = 1
    BY <2>1, <2>3 DEF Worker, ArrayMatches
  <2>4. CASE n # 1
    BY <2>1, <2>2, <2>4 DEF ArrayMatches
  <2> QED BY <2>3, <2>4
<1>11. ExitMatches
  <2>1. PICK n \in InitThreads :
          /\ nbr_threads = n
          /\ \A w \in Worker : pc[w] = IF w < n - 1 THEN "top" ELSE "none"
    BY DEF Init
  <2>2. n \in 1 .. MaxThreads /\ MaxThreads \in Nat /\ cut = MaxThreads
    BY ThreadsAssumption DEF Init
  <2> QED BY <1>2, <2>1, <2>2
          DEF Init, ExitMatches, ChangeLabel, FirstActive, Active, Lesser
<1>5. InHand = {} /\ Tasked = {} /\ Linking = {}
  BY <1>2 DEF InHand, Tasked, Linking
<1>6. task_queue = <<Dummy>> /\ InQueue = {Dummy} /\ IsInjective(task_queue)
  BY DEF Init, InQueue, ToSet, IsInjective
<1>7. CellsInOnePlace
  BY <1>5, <1>6 DEF Init, CellsInOnePlace, HeldOnce, PlacesDisjoint
<1>8. DummyKept
  BY <1>2, <1>6 DEF DummyKept
<1>9. OwnedWhileOut
  BY DEF Init, OwnedWhileOut
<1>10. CounterCounts
  <2>1. \A d \in Dispatcher : {c \in Cell : owner[c] = d} = {}
    BY DEF Init
  <2> QED BY <2>1, FS_EmptySet DEF Init, CounterCounts
<1> QED BY <1>1, <1>3, <1>4, <1>7, <1>8, <1>9, <1>10, <1>11 DEF IInv

LEMMA InvStep == IInv /\ [Next]_vars => IInv'
BY TypeStep, HandsStep, CallStep, SerializedStep, ArrayStep, ExitStep,
   PlacesStep, DummyStep, OwnerStep, CounterStep DEF IInv

\* The invariant holds in every reachable state, whatever the number of
\* threads, dispatchers and tasks, however the calls of avstp_set_threads
\* interleave with them, and whichever calls the exception of signal ends
\* (ThreadPool.cpp:108-286, ThreadSync.cpp:87).
THEOREM Invariance == Spec => []IInv
BY InvInit, InvStep, PTL DEF Spec

\* Every variable keeps the type the code declares; in particular no counter
\* of tasks ever goes below zero (TaskDispatcher.cpp:84-105).
THEOREM TypeCorrect == Spec => []TypeOK
<1>1. IInv => TypeOK
  BY DEF IInv
<1> QED BY <1>1, Invariance, PTL

\* A cell is in the pool, in the queue or in the hands of one thread, or its
\* task has been ended by an exception: a task is never executed twice, nor
\* lost before it runs, a cell never returned twice
\* (ThreadPool.cpp:163-215, 265-286).
THEOREM CellsSafe == Spec => []CellsInOnePlace
<1>1. IInv => CellsInOnePlace
  BY DEF IInv
<1> QED BY <1>1, Invariance, PTL

\* The dummy is never lost nor duplicated (LockFreeQueue.hpp:99-168).
THEOREM DummySafe == Spec => []DummyKept
<1>1. IInv => DummyKept
  BY DEF IInv
<1> QED BY <1>1, Invariance, PTL

\* The counter avstp_wait_completion polls is the number of tasks of the
\* dispatcher that are not over (TaskData.cpp:43-76).
THEOREM CounterExact == Spec => []CounterCounts
<1>1. IInv => CounterCounts
  BY DEF IInv
<1> QED BY <1>1, Invariance, PTL

\* The workers that run and stay are those of the number of threads, or of the
\* least argument of the changes that an exception has ended, after any
\* sequence of changes (ThreadPool.cpp:108-152).
THEOREM WorkersCorrect == Spec => []WorkersMatch
<1>1. IInv => WorkersMatch
  BY DEF IInv, ExitMatches, WorkersMatch, InSet, ChangeLabel, FirstActive, Active
<1> QED BY <1>1, Invariance, PTL

-----------------------------------------------------------------------------
(* ThreadPool implements TaskGroup.                                        *)

Running(c) == \E t \in Tasked : task[t] = c

\* A cell in the queue is owned and nobody holds it.
LEMMA QueuedIsScheduled ==
  ASSUME IInv, NEW c \in Cell, c \in InQueue
  PROVE  owner[c] # None /\ ~Running(c)
BY DEF IInv, OwnedWhileOut, CellsInOnePlace, PlacesDisjoint, InHand, Running

LEMMA PooledIsFree ==
  ASSUME IInv, NEW c \in task_pool
  PROVE  c \in Cell /\ owner[c] = None /\ ~Running(c)
BY DEF IInv, TypeOK, OwnedWhileOut, CellsInOnePlace, PlacesDisjoint, InHand, Running

LEMMA RefineInit == Init => TG!Init
BY DEF Init, TG!Init, Stage

\* The steps that change neither a cell's owner nor the running tasks.
LEMMA StageFrame ==
  ASSUME UNCHANGED <<owner, task, aborted>>
  PROVE  Stage' = Stage
BY DEF Stage, Tasked

LEMMA RefineStep ==
  ASSUME IInv, [Next]_vars
  PROVE  [TG!Next]_(TG!vars)
<1> USE ThreadFacts, DataAssumption DEF TG!vars
<1>1. CASE UNCHANGED <<owner, task, aborted, disp, ended>>
  BY <1>1, StageFrame
<1>2. ASSUME NEW t \in Thread, NEW d \in Dispatcher, InitTask(t, d)
      PROVE  TG!Next
  <2>1. PICK c \in task_pool : owner' = [owner EXCEPT ![c] = d]
    BY <1>2 DEF InitTask, SetOwner
  <2>2. UNCHANGED <<task, disp, ended, aborted>> /\ d # None /\ c \notin aborted
    BY <1>2 DEF InitTask, IInv, CellsInOnePlace, PlacesDisjoint, endVars
  <2>3. c \in Cell /\ owner[c] = None /\ ~Running(c)
    BY PooledIsFree
  <2>6. /\ owner'[c] = d
        /\ \A x \in Cell \ {c} : owner'[x] = owner[x]
        /\ \A x \in Cell : Running(x)' <=> Running(x)
    BY <2>1, <2>2, <2>3 DEF Tasked, Running, IInv, TypeOK
  <2>4. Stage' = [Stage EXCEPT ![c] = "scheduled"] /\ Stage[c] = "free"
    <3>1. Stage[c] = "free" /\ Stage'[c] = "scheduled"
      BY <2>2, <2>3, <2>6 DEF Stage, Running
    <3>2. \A x \in Cell \ {c} : Stage'[x] = Stage[x]
      BY <2>2, <2>6 DEF Stage, Running
    <3>3. Stage = [x \in Cell |-> Stage[x]] /\ Stage' = [x \in Cell |-> Stage'[x]]
      BY DEF Stage
    <3> QED BY ONLY <2>3, <3>1, <3>2, <3>3
  <2>5. TG!Schedule(c, d)
    BY <2>1, <2>2, <2>4 DEF TG!Schedule
  <2> QED BY <2>3, <2>5 DEF TG!Next
<1>3. ASSUME NEW t \in Thread, Dequeue(t)
      PROVE  [TG!Next]_(TG!vars)
  <2>1. CASE UNCHANGED task
    BY <1>1, <1>3, <2>1 DEF Dequeue, cellVars, endVars
  <2>2. CASE ~UNCHANGED task
    <3>1. /\ Len(task_queue) > 1
          /\ Head(task_queue) # Dummy
          /\ task' = [task EXCEPT ![t] = Head(task_queue)]
          /\ pc[t] = "deq"
          /\ UNCHANGED <<owner, disp, ended, aborted>>
      BY <1>3, <2>2 DEF Dequeue, cellVars, endVars
    <3>2. PICK c \in Cell : c = Head(task_queue) /\ c \in InQueue
      BY <3>1, QueueTail DEF IInv, CellsInOnePlace
    <3>3. owner[c] # None /\ ~Running(c) /\ c \notin aborted
      BY <3>2, QueuedIsScheduled DEF IInv, CellsInOnePlace, PlacesDisjoint
    <3>4. task[t] = None /\ c # None
      BY <3>1 DEF IInv, HandsMatch
    <3>5. \A x \in Cell : Running(x)' <=> (x = c \/ Running(x))
      BY <3>1, <3>2, <3>4 DEF Running, Tasked, IInv, TypeOK
    <3>6. Stage' = [Stage EXCEPT ![c] = "running"] /\ Stage[c] = "scheduled"
      BY <3>1, <3>2, <3>3, <3>5 DEF Stage, Running
    <3>7. TG!Start(c)
      BY <3>1, <3>6 DEF TG!Start
    <3> QED BY <3>7 DEF TG!Next
  <2> QED BY <2>1, <2>2
<1>4. ASSUME NEW t \in Thread, FinishTask(t)
      PROVE  TG!Next
  <2>1. /\ owner' = [owner EXCEPT ![task[t]] = None]
        /\ UNCHANGED <<task, disp, ended, aborted>>
        /\ pc[t] = "body"
    BY <1>4 DEF FinishTask, ClearOwner, endVars
  <2>2. PICK c \in Cell : c = task[t] /\ t \in Tasked
    BY <2>1 DEF IInv, HandsMatch, Tasked, TypeOK
  <2>3. owner[c] # None /\ c \notin aborted
    BY <2>1, <2>2 DEF IInv, OwnedWhileOut, CellsInOnePlace, HeldOnce, PlacesDisjoint, InHand
  <2>4. Stage' = [Stage EXCEPT ![c] = "free"] /\ Stage[c] = "running"
    BY <2>1, <2>2, <2>3 DEF Stage, Tasked, IInv, TypeOK
  <2>5. TG!Complete(c)
    BY <2>1, <2>2, <2>4 DEF TG!Complete
  <2> QED BY <2>5 DEF TG!Next
<1>5. ASSUME NEW t \in Thread, ReturnCell(t)
      PROVE  [TG!Next]_(TG!vars)
  <2>1. /\ UNCHANGED <<owner, disp, ended, aborted>>
        /\ task' = [task EXCEPT ![t] = None]
        /\ pc[t] = "return"
    BY <1>5 DEF ReturnCell, endVars
  <2>2. PICK c \in Cell : c = task[t] /\ t \in Tasked
    BY <2>1 DEF IInv, HandsMatch, Tasked, TypeOK
  <2>3. owner[c] = None
    BY <2>1, <2>2 DEF IInv, OwnedWhileOut
  <2>4. \A x \in Cell \ {c} : Running(x)' <=> Running(x)
    BY <2>1, <2>2 DEF Running, Tasked, IInv, TypeOK
  <2>5. Stage' = Stage
    BY <2>1, <2>3, <2>4 DEF Stage, Running
  <2> QED BY <2>1, <2>5
<1>6. ASSUME NEW a \in App, NEW d \in Dispatcher, CallWait(a, d)
      PROVE  TG!Next
  <2>1. /\ UNCHANGED <<owner, task, aborted, ended>>
        /\ disp' = [disp EXCEPT ![a] = d] /\ pc[a] = "idle"
    BY <1>6 DEF CallWait, cellVars, endVars
  <2>2. disp[a] = None
    BY <2>1 DEF IInv, CallMatches
  <2>3. TG!CallWait(a, d)
    BY <2>1, <2>2, StageFrame DEF TG!CallWait
  <2> QED BY <2>3 DEF TG!Next
<1>7. ASSUME NEW a \in App, CheckCounter(a), ~UNCHANGED <<disp, ended>>
      PROVE  TG!Next
  <2>1. /\ UNCHANGED <<owner, task, aborted>>
        /\ disp' = [disp EXCEPT ![a] = None]
        /\ ended' = [ended EXCEPT ![a] = "returned"]
        /\ pc[a] = "check" /\ ~Pending(disp[a])
    BY <1>7 DEF CheckCounter, cellVars
  <2>2. PICK d \in Dispatcher : disp[a] = d /\ d # None
    BY <2>1 DEF IInv, CallMatches, TypeOK
  <2>3. \A c \in Cell : owner[c] # d
    <3> SUFFICES ASSUME NEW c \in Cell, owner[c] = d PROVE FALSE
      OBVIOUS
    <3>1. task_cnt[d] \in Nat \ {0}
      BY <2>2, OwnedIsCounted DEF IInv
    <3> QED BY <2>1, <2>2, <3>1 DEF Pending
  <2>4. TG!ReturnFromWait(a)
    BY <2>1, <2>2, <2>3, StageFrame DEF TG!ReturnFromWait
  <2> QED BY <2>4 DEF TG!Next
<1>8. ASSUME NEW t \in Thread, SignalWorkers(t)
      PROVE  [TG!Next]_(TG!vars)
  <2>1. UNCHANGED owner
    BY <1>8 DEF SignalWorkers, cellVars
  <2>2. CASE UNCHANGED <<endVars, task, disp>>
    BY <1>1, <2>1, <2>2 DEF endVars
  <2>3. CASE t \in App /\ task[t] # None /\ AbortTask(t) /\ UnwindWait(t)
    <3>1. /\ task' = [task EXCEPT ![t] = None]
          /\ aborted' = aborted \cup {task[t]}
          /\ disp' = [disp EXCEPT ![t] = None]
          /\ ended' = [ended EXCEPT ![t] = "threw"]
          /\ pc[t] = "signal"
      BY <1>8, <2>3 DEF SignalWorkers, AbortTask, UnwindWait
    <3>2. PICK c \in Cell : c = task[t] /\ t \in Tasked
      BY <2>3 DEF IInv, Tasked, TypeOK
    <3>3. owner[c] # None /\ c \notin aborted
      BY <3>1, <3>2 DEF IInv, OwnedWhileOut, CellsInOnePlace, HeldOnce, PlacesDisjoint, InHand
    <3>4. \A x \in Cell \ {c} : Running(x)' <=> Running(x)
      BY <3>1, <3>2 DEF Running, Tasked, IInv, TypeOK
    <3>5. Stage' = [Stage EXCEPT ![c] = "aborted"] /\ Stage[c] = "running"
      BY <2>1, <3>1, <3>2, <3>3, <3>4 DEF Stage, Running
    <3>6. disp[t] # None
      BY <2>3, <3>1 DEF IInv, CallMatches
    <3>7. TG!ThrowFromWait(t)
      BY <2>1, <3>1, <3>2, <3>5, <3>6 DEF TG!ThrowFromWait
    <3> QED BY <2>3, <3>7 DEF TG!Next
  <2> QED BY <1>8, <2>2, <2>3 DEF SignalWorkers
<1>9. ASSUME NEW t \in Thread, SignalPool(t)
      PROVE  [TG!Next]_(TG!vars)
  <2>1. UNCHANGED <<owner, task, aborted>>
    BY <1>9 DEF SignalPool, cellVars
  <2>2. CASE UNCHANGED <<disp, ended>>
    BY <1>1, <2>1, <2>2
  <2>3. CASE t \in App /\ UnwindWait(t)
    <3>1. disp[t] # None
      BY <1>9, <2>3 DEF SignalPool, IInv, CallMatches
    <3>2. TG!ThrowFromWait(t)
      BY <2>1, <2>3, <3>1, StageFrame DEF TG!ThrowFromWait, UnwindWait
    <3> QED BY <2>3, <3>2 DEF TG!Next
  <2> QED BY <1>9, <2>2, <2>3 DEF SignalPool
<1>10. CASE ~\E t \in Thread : SignalWorkers(t) \/ SignalPool(t)
  <2>1. \/ UNCHANGED <<disp, ended>>
        \/ \E a \in App, d \in Dispatcher : CallWait(a, d)
        \/ \E a \in App : CheckCounter(a)
    BY <1>10, PoolFrame
  <2>2. \/ UNCHANGED owner
        \/ \E t \in Thread, d \in Dispatcher : InitTask(t, d)
        \/ \E t \in Thread : FinishTask(t)
    BY CellFrame
  <2>3. \/ UNCHANGED task
        \/ \E t \in Thread : Dequeue(t) \/ ReturnCell(t)
    BY <1>10, CellFrame
  <2>4. UNCHANGED aborted
    BY <1>10, CellFrame
  <2>5. ASSUME NEW a \in App, CheckCounter(a)
        PROVE  [TG!Next]_(TG!vars)
    <3>1. CASE UNCHANGED <<disp, ended>>
      BY <1>1, <2>4, <2>5, <3>1 DEF CheckCounter, cellVars
    <3>2. CASE ~UNCHANGED <<disp, ended>>
      BY <1>7, <2>5, <3>2
    <3> QED BY <3>1, <3>2
  <2> QED BY <1>1, <1>2, <1>3, <1>4, <1>5, <1>6, <2>1, <2>2, <2>3, <2>4, <2>5
<1> QED BY <1>8, <1>9, <1>10

\* Whatever the interleaving of plug-in threads, workers and changes of the
\* number of threads, each task is executed once and wait_completion returns
\* only when its dispatcher has no task left, or throws, and the calls that
\* follow an exception keep the same promise (TaskDispatcher.cpp:62-105,
\* ThreadPool.cpp:163-215).
THEOREM Refinement == Spec => ImplementsTaskGroup
<1>1. IInv /\ [Next]_vars => [TG!Next]_(TG!vars)
  BY RefineStep
<1> QED BY <1>1, RefineInit, Invariance, PTL DEF Spec, ImplementsTaskGroup, TG!Spec
=============================================================================
