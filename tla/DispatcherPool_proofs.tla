------------------------ MODULE DispatcherPool_proofs ------------------------
(***************************************************************************)
(* Proofs about DispatcherPool, for any number of threads and of           *)
(* dispatchers.  The invariant says what each line of the code may rely    *)
(* on: what has been constructed, whose the dispatcher in hand is, and how *)
(* many cells are out.                                                     *)
(***************************************************************************)
EXTENDS DispatcherPool, FiniteSetTheorems, SequenceTheorems, TLAPS

\* The lines of use_instance.
Guarded == {"recheck", "construct", "publish"}
Getting == Guarded \cup {"check", "lock"}

\* What thread t is doing, and what has been constructed by then.
Doing(t) ==
  /\ call[t] = "destroy" => pc[t] \in {"idle", "check", "return", "pushfree"}
  /\ pc[t] = "check" /\ call[t] = "destroy" => single[t] = "disp_pool"
  /\ pc[t] \in {"return", "pushfree"} => call[t] = "destroy"
  /\ pc[t] \in {"pop", "recycle"} => call[t] = "create" /\ single[t] = "disp_pool"
  /\ pc[t] \in {"new", "cell", "remember"} =>
       call[t] = "create" /\ single[t] = "thread_pool"
  /\ pc[t] \in ObjectLabel \cup {"pop"} => init_flag["disp_pool"]
  /\ pc[t] \in Getting /\ call[t] = "create" /\ single[t] = "thread_pool" =>
       init_flag["disp_pool"]
  /\ pc[t] = "new" => init_flag["thread_pool"]

\* The mutex of a singleton covers its construction.
Locked(t) ==
  /\ \A s \in Singleton :
       mutex_new[s] = t <=> pc[t] \in Guarded /\ single[t] = s
  /\ pc[t] \in {"construct", "publish"} => ~init_flag[single[t]]
  /\ pc[t] = "publish" => instances[single[t]] = 1

Built ==
  /\ out # {} => init_flag["disp_pool"]
  /\ \A s \in Singleton :
       /\ init_flag[s] => instances[s] = 1
       /\ ~init_flag[s] /\ (mutex_new[s] # None => pc[mutex_new[s]] # "publish") =>
            instances[s] = 0

\* The calls that have a dispatcher in hand, and whose dispatcher it is.
Making == {"cell", "remember"}
Using == {"recycle", "return", "pushfree"}
Hands(t) ==
  /\ obj_ptr[t] # None <=>
       \/ pc[t] \in Making \cup Using
       \/ pc[t] = "check" /\ call[t] = "destroy"
  /\ pc[t] \in Making => obj_ptr[t] \in alive \ stack_all
  /\ pc[t] \notin Making /\ obj_ptr[t] # None => obj_ptr[t] \in stack_all
  /\ obj_ptr[t] # None =>
       /\ obj_ptr[t] \notin ToSet(stack_free) \cup out
       /\ init_flag["disp_pool"]
       /\ \A u \in Thread \ {t} : obj_ptr[u] # obj_ptr[t]

\* The dispatchers that no call has in hand.
Known ==
  /\ IsInjective(stack_free)
  /\ ToSet(stack_free) \cap out = {}
  /\ ToSet(stack_free) \cup out \subseteq stack_all
  /\ stack_all \subseteq alive
  /\ \A d \in alive \ stack_all : \E t \in Thread : pc[t] \in Making /\ obj_ptr[t] = d

\* The calls that have a cell in hand.
Celled == {t \in Thread : pc[t] \in {"recycle", "remember", "pushfree"}}

Balanced ==
  /\ IsFiniteSet(stack_all) /\ IsFiniteSet(Celled)
  /\ used_cells = Len(stack_free) + Cardinality(stack_all) + Cardinality(Celled)

Over ==
  closed =>
    /\ Quiescent /\ alive = {} /\ used_cells = 0

IInv ==
  /\ TypeOK
  /\ \A t \in Thread : Doing(t) /\ Locked(t) /\ Hands(t)
  /\ Built /\ Known /\ Balanced /\ Over
-----------------------------------------------------------------------------
(* The free stack, as a sequence, and the calls that have a cell.          *)

LEMMA PushFacts ==
  ASSUME NEW S, NEW s \in Seq(S), NEW d \in S, IsInjective(s), d \notin ToSet(s)
  PROVE  LET p == <<d>> \o s IN
         /\ p \in Seq(S) /\ Len(p) = Len(s) + 1
         /\ ToSet(p) = ToSet(s) \cup {d} /\ IsInjective(p)
<1> DEFINE p == <<d>> \o s
<1>1. p \in Seq(S) /\ Len(p) = Len(s) + 1 /\ Len(s) \in Nat
  OBVIOUS
<1>2. p[1] = d /\ \A i \in 1 .. Len(s) : p[i + 1] = s[i]
  OBVIOUS
<1>3. DOMAIN p = 1 .. Len(s) + 1 /\ DOMAIN s = 1 .. Len(s)
  BY <1>1
<1>4. \A i \in 1 .. Len(s) + 1 : i = 1 \/ (i - 1 \in 1 .. Len(s) /\ p[i] = s[i - 1])
  <2> TAKE i \in 1 .. Len(s) + 1
  <2>1. i # 1 => i - 1 \in 1 .. Len(s) /\ (i - 1) + 1 = i
    BY <1>1
  <2> HIDE DEF p
  <2> QED BY <1>2, <2>1
<1> HIDE DEF p
<1>5. ToSet(p) = ToSet(s) \cup {d}
  <2>1. ToSet(p) \subseteq ToSet(s) \cup {d}
    BY <1>2, <1>3, <1>4 DEF ToSet
  <2>2. ToSet(s) \subseteq ToSet(p)
    <3>1. \A i \in 1 .. Len(s) : i + 1 \in 1 .. Len(s) + 1
      BY <1>1
    <3> QED BY <1>2, <1>3, <3>1 DEF ToSet
  <2>3. d \in ToSet(p)
    BY <1>1, <1>2, <1>3 DEF ToSet
  <2> QED BY <2>1, <2>2, <2>3
<1>6. IsInjective(p)
  <2> SUFFICES ASSUME NEW i \in 1 .. Len(s) + 1, NEW j \in 1 .. Len(s) + 1, p[i] = p[j]
               PROVE  i = j
    BY <1>3 DEF IsInjective
  <2>1. \A k \in 1 .. Len(s) : s[k] # d
    BY <1>3 DEF ToSet
  <2>2. CASE i = 1 \/ j = 1
    BY <1>2, <1>4, <2>1, <2>2
  <2>3. CASE i # 1 /\ j # 1
    <3>1. i - 1 = j - 1
      BY <1>3, <1>4, <2>3 DEF IsInjective
    <3> QED BY <1>1, <3>1
  <2> QED BY <2>2, <2>3
<1> QED BY <1>1, <1>5, <1>6 DEF p

LEMMA PopFacts ==
  ASSUME NEW S, NEW s \in Seq(S), s # << >>, IsInjective(s)
  PROVE  /\ Tail(s) \in Seq(S) /\ Len(Tail(s)) = Len(s) - 1 /\ Len(s) \in Nat \ {0}
         /\ Head(s) \in S /\ Head(s) \notin ToSet(Tail(s))
         /\ ToSet(s) = ToSet(Tail(s)) \cup {Head(s)}
         /\ IsInjective(Tail(s))
<1> DEFINE p == Tail(s)
<1>1. /\ p \in Seq(S) /\ Len(p) = Len(s) - 1 /\ Len(s) \in Nat \ {0}
      /\ Head(s) = s[1] /\ s[1] \in S
  OBVIOUS
<1>2. \A i \in 1 .. Len(s) - 1 : p[i] = s[i + 1]
  OBVIOUS
<1>3. DOMAIN p = 1 .. Len(s) - 1 /\ DOMAIN s = 1 .. Len(s)
  BY <1>1
<1> HIDE DEF p
<1>4. \A i \in 1 .. Len(s) - 1 : i + 1 \in 1 .. Len(s) /\ i + 1 # 1
  BY <1>1
<1>5. s[1] \notin ToSet(p)
  BY <1>1, <1>2, <1>3, <1>4 DEF ToSet, IsInjective
<1>6. ToSet(s) = ToSet(p) \cup {s[1]}
  <2>1. \A i \in 1 .. Len(s) : i = 1 \/ (i - 1 \in 1 .. Len(s) - 1 /\ (i - 1) + 1 = i)
    BY <1>1
  <2>2. ToSet(s) \subseteq ToSet(p) \cup {s[1]}
    <3> SUFFICES ASSUME NEW i \in 1 .. Len(s) PROVE s[i] \in ToSet(p) \cup {s[1]}
      BY <1>3 DEF ToSet
    <3>1. CASE i # 1
      <4>1. i - 1 \in 1 .. Len(s) - 1 /\ p[i - 1] = s[i]
        BY <1>2, <2>1, <3>1
      <4> QED BY <1>3, <4>1 DEF ToSet
    <3> QED BY <3>1
  <2>3. ToSet(p) \subseteq ToSet(s)
    BY <1>2, <1>3, <1>4 DEF ToSet
  <2>4. s[1] \in ToSet(s)
    BY <1>1, <1>3 DEF ToSet
  <2> QED BY <2>2, <2>3, <2>4
<1>7. IsInjective(p)
  <2> SUFFICES ASSUME NEW i \in 1 .. Len(s) - 1, NEW j \in 1 .. Len(s) - 1, p[i] = p[j]
               PROVE  i = j
    BY <1>3 DEF IsInjective
  <2>1. i + 1 = j + 1
    BY <1>2, <1>3, <1>4 DEF IsInjective
  <2> QED BY <1>1, <2>1
<1> QED BY <1>1, <1>5, <1>6, <1>7 DEF p

CellLabel == {"recycle", "remember", "pushfree"}

LEMMA CelledSame ==
  ASSUME TypeOK, NEW t \in Thread, NEW l, Goto(t, l), pc[t] \in CellLabel <=> l \in CellLabel
  PROVE  Celled' = Celled
BY DEF TypeOK, Goto, Celled, CellLabel

LEMMA CelledMore ==
  ASSUME TypeOK, IsFiniteSet(Celled), NEW t \in Thread, NEW l \in CellLabel, Goto(t, l),
         pc[t] \notin CellLabel
  PROVE  /\ IsFiniteSet(Celled') /\ Cardinality(Celled') = Cardinality(Celled) + 1
         /\ Cardinality(Celled) \in Nat
<1>1. Celled' = Celled \cup {t} /\ t \notin Celled
  BY DEF TypeOK, Goto, Celled, CellLabel
<1> QED BY <1>1, FS_AddElement, FS_CardinalityType

LEMMA CelledLess ==
  ASSUME TypeOK, IsFiniteSet(Celled), NEW t \in Thread, NEW l, Goto(t, l),
         pc[t] \in CellLabel, l \notin CellLabel
  PROVE  /\ IsFiniteSet(Celled') /\ Cardinality(Celled') = Cardinality(Celled) - 1
         /\ Cardinality(Celled) \in Nat \ {0}
<1>1. Celled' = Celled \ {t} /\ t \in Celled
  BY DEF TypeOK, Goto, Celled, CellLabel
<1>2. Cardinality(Celled) \in Nat /\ Cardinality(Celled) # 0
  BY <1>1, FS_CardinalityType, FS_EmptySet
<1> QED BY <1>1, <1>2, FS_RemoveElement

\* Where use_instance returns to.
LEMMA AfterCases ==
  ASSUME NEW t \in Thread, call[t] \in {"create", "destroy", "get_nbr_threads"},
         single[t] \in Singleton
  PROVE  /\ call[t] = "destroy" => AfterInstance(t) = "return"
         /\ call[t] = "get_nbr_threads" => AfterInstance(t) = "idle"
         /\ call[t] = "create" /\ single[t] = "disp_pool" => AfterInstance(t) = "pop"
         /\ call[t] = "create" /\ single[t] = "thread_pool" => AfterInstance(t) = "new"
BY Zenon DEF AfterInstance, Singleton
-----------------------------------------------------------------------------
(* A step of one thread, and what the others rely on.                      *)

LEMMA ThreadFacts ==
  /\ None \notin Thread /\ None \notin Obj
  /\ "disp_pool" \in Singleton /\ "thread_pool" \in Singleton
BY DispatcherAssumption DEF Singleton

\* What is constructed stays, and is constructed under the mutex.
LEMMA ControlFrame ==
  ASSUME IInv, NEW t \in Thread, NEW l, Goto(t, l),
         \A u \in Thread \ {t} : call'[u] = call[u] /\ single'[u] = single[u],
         \A s \in Singleton : init_flag[s] => init_flag'[s],
         \A u \in Thread \ {t}, s \in Singleton : mutex_new'[s] = u <=> mutex_new[s] = u,
         \A s \in Singleton :
           (init_flag'[s] = init_flag[s] /\ instances'[s] = instances[s])
             \/ mutex_new[s] = t,
         NEW u \in Thread \ {t}
  PROVE  Doing(u)' /\ Locked(u)'
<1>1. Doing(u) /\ Locked(u) /\ TypeOK
  BY DEF IInv
<1>2. pc'[u] = pc[u] /\ call'[u] = call[u] /\ single'[u] = single[u]
      /\ single[u] \in Singleton
  BY <1>1 DEF Goto, TypeOK
<1>3. Doing(u)'
  BY <1>1, <1>2, ThreadFacts DEF Doing
<1>4. Locked(u)'
  BY <1>1, <1>2, ThreadFacts DEF Locked, Guarded
<1> QED BY <1>3, <1>4

\* In use_instance the dispatchers are left alone.
LEMMA InstanceFrame ==
  ASSUME IInv, NEW t \in Thread, NEW l, Goto(t, l), UNCHANGED <<objects, obj_ptr>>,
         pc[t] \in Getting \cup {"idle"}, l \notin Making \cup CellLabel, ~closed,
         \A u \in Thread \ {t} : call'[u] = call[u],
         init_flag["disp_pool"] => init_flag'["disp_pool"],
         obj_ptr[t] # None <=> l = "return" \/ (l = "check" /\ call'[t] = "destroy")
  PROVE  (\A u \in Thread : Hands(u)') /\ Known' /\ Balanced' /\ Over'
<1>1. TypeOK /\ Known /\ Balanced /\ \A u \in Thread : Hands(u)
  BY DEF IInv
<1>2. \A u \in Thread : Hands(u)'
  BY <1>1 DEF Hands, Goto, objects, Making, Using, CellLabel, Getting, Guarded, TypeOK
<1>3. Known'
  BY <1>1 DEF Known, Goto, objects, Making, Getting, Guarded, TypeOK
<1>4. Celled' = Celled
  BY <1>1, CelledSame DEF CellLabel, Getting, Guarded
<1>5. Balanced' /\ Over'
  BY <1>1, <1>4 DEF Balanced, Over, objects
<1> QED BY <1>2, <1>3, <1>5

-----------------------------------------------------------------------------
(* The steps of use_instance.                                              *)

LEMMA CallInv ==
  ASSUME IInv, NEW t \in Thread, CallCreate(t) \/ CallGetNbrThreads(t)
  PROVE  IInv'
<1> USE ThreadFacts DEF CallCreate, CallGetNbrThreads, Call, singletons, objects
<1>0. TypeOK /\ Doing(t) /\ Locked(t) /\ Hands(t) /\ Built /\ Goto(t, "check") /\ ~closed
      /\ pc[t] = "idle"
  BY DEF IInv
<1>1. TypeOK'
  BY <1>0 DEF TypeOK, Goto
<1>2. \A u \in Thread \ {t} : call'[u] = call[u] /\ single'[u] = single[u]
  BY <1>0 DEF TypeOK
<1>3. \A u \in Thread \ {t} : Doing(u)' /\ Locked(u)'
  BY <1>0, <1>2, ControlFrame
<1>4. call'[t] \in {"create", "get_nbr_threads"}
      /\ (call'[t] = "create" => single'[t] = "disp_pool")
  BY <1>0 DEF TypeOK
<1>5. Doing(t)' /\ Locked(t)' /\ Built'
  BY <1>0, <1>4 DEF Doing, Locked, Built, Goto, TypeOK, ObjectLabel, Getting, Guarded
<1>6. (\A u \in Thread : Hands(u)') /\ Known' /\ Balanced' /\ Over'
  <2>1. obj_ptr[t] = None
    BY <1>0 DEF Hands, Making, Using
  <2> QED BY <1>0, <1>2, <1>4, <2>1, InstanceFrame DEF Making, CellLabel
<1> QED BY <1>1, <1>3, <1>5, <1>6 DEF IInv

LEMMA CheckInv == ASSUME IInv, NEW t \in Thread, Check(t) PROVE IInv'
<1>0. TypeOK /\ Doing(t) /\ Locked(t) /\ Hands(t) /\ Built /\ Over /\ pc[t] = "check"
      /\ single[t] \in Singleton /\ call[t] \in {"create", "destroy", "get_nbr_threads"}
  BY DEF IInv, Check, TypeOK
<1>a. ~closed
  BY <1>0 DEF Over, Quiescent
<1> DEFINE l == IF init_flag[single[t]] THEN AfterInstance(t) ELSE "lock"
<1>b. Goto(t, l) /\ UNCHANGED <<singletons, objects, call, single, obj_ptr>>
  BY DEF Check
<1>c. \/ l = "lock" /\ ~init_flag[single[t]] /\ call[t] # "destroy"
      \/ l = "return" /\ call[t] = "destroy" /\ init_flag["disp_pool"]
      \/ l = "idle" /\ call[t] = "get_nbr_threads"
      \/ l = "pop" /\ call[t] = "create" /\ single[t] = "disp_pool" /\ init_flag["disp_pool"]
      \/ l = "new" /\ call[t] = "create" /\ single[t] = "thread_pool"
         /\ init_flag["disp_pool"] /\ init_flag["thread_pool"]
  BY <1>0, AfterCases DEF Singleton, Doing, Getting, Hands
<1> HIDE DEF l
<1> USE ThreadFacts DEF singletons, objects
<1>1. TypeOK'
  BY <1>0, <1>b, <1>c DEF TypeOK, Goto, ObjectLabel
<1>3. \A u \in Thread \ {t} : Doing(u)' /\ Locked(u)'
  BY <1>0, <1>b, ControlFrame
<1>5. Doing(t)' /\ Locked(t)' /\ Built'
  BY <1>0, <1>b, <1>c DEF Doing, Locked, Built, Goto, TypeOK, ObjectLabel, Getting, Guarded
<1>6. (\A u \in Thread : Hands(u)') /\ Known' /\ Balanced' /\ Over'
  <2>1. obj_ptr[t] # None <=> l = "return" \/ (l = "check" /\ call'[t] = "destroy")
    BY <1>0, <1>b, <1>c DEF Hands, Making, Using
  <2> QED BY <1>0, <1>a, <1>b, <1>c, <2>1, InstanceFrame DEF Making, CellLabel, Getting
<1> QED BY <1>1, <1>3, <1>5, <1>6 DEF IInv

LEMMA LockInv == ASSUME IInv, NEW t \in Thread, Lock(t) PROVE IInv'
<1> USE ThreadFacts DEF Lock, objects
<1>0. TypeOK /\ Doing(t) /\ Locked(t) /\ Hands(t) /\ Built /\ Over /\ pc[t] = "lock"
      /\ single[t] \in Singleton
  BY DEF IInv, TypeOK
<1>a. ~closed
  BY <1>0 DEF Over, Quiescent
<1>1. TypeOK'
  BY <1>0 DEF TypeOK, Goto
<1>3. \A u \in Thread \ {t} : Doing(u)' /\ Locked(u)'
  <2>1. \A u \in Thread \ {t}, s \in Singleton : mutex_new'[s] = u <=> mutex_new[s] = u
    BY <1>0 DEF TypeOK
  <2> QED BY <1>0, <2>1, ControlFrame
<1>5. Doing(t)' /\ Locked(t)' /\ Built'
  BY <1>0 DEF Doing, Locked, Built, Goto, TypeOK, ObjectLabel, Getting, Guarded
<1>6. (\A u \in Thread : Hands(u)') /\ Known' /\ Balanced' /\ Over'
  <2>1. obj_ptr[t] = None
    BY <1>0 DEF Hands, Making, Using
  <2> QED BY <1>0, <1>a, <2>1, InstanceFrame DEF Making, CellLabel, Getting
<1> QED BY <1>1, <1>3, <1>5, <1>6 DEF IInv

LEMMA RecheckInv == ASSUME IInv, NEW t \in Thread, Recheck(t) PROVE IInv'
<1>0. TypeOK /\ Doing(t) /\ Locked(t) /\ Hands(t) /\ Built /\ Over /\ pc[t] = "recheck"
      /\ single[t] \in Singleton /\ call[t] \in {"create", "destroy", "get_nbr_threads"}
  BY DEF IInv, Recheck, TypeOK
<1>a. ~closed /\ call[t] # "destroy" /\ mutex_new[single[t]] = t
  BY <1>0 DEF Over, Quiescent, Doing, Locked, Guarded
<1> DEFINE l == pc'[t]
<1>b. Goto(t, l) /\ UNCHANGED <<instances, init_flag, objects, call, single, obj_ptr>>
  BY <1>0 DEF Recheck, Goto, TypeOK
<1>c. \/ l = "construct" /\ ~init_flag[single[t]] /\ mutex_new' = mutex_new
      \/ /\ mutex_new' = [mutex_new EXCEPT ![single[t]] = None]
         /\ \/ l = "idle" /\ call[t] = "get_nbr_threads"
            \/ l = "pop" /\ call[t] = "create" /\ single[t] = "disp_pool"
               /\ init_flag["disp_pool"]
            \/ l = "new" /\ call[t] = "create" /\ single[t] = "thread_pool"
               /\ init_flag["disp_pool"] /\ init_flag["thread_pool"]
  BY <1>0, <1>a, AfterCases DEF Recheck, MustConstruct, Release, Goto, TypeOK, Singleton,
     Doing, Getting, Guarded
<1> HIDE DEF l
<1> USE ThreadFacts DEF objects
<1>1. TypeOK'
  BY <1>0, <1>b, <1>c DEF TypeOK, Goto, ObjectLabel
<1>3. \A u \in Thread \ {t} : Doing(u)' /\ Locked(u)'
  <2>1. \A u \in Thread \ {t}, s \in Singleton : mutex_new'[s] = u <=> mutex_new[s] = u
    BY <1>0, <1>a, <1>c DEF TypeOK
  <2> QED BY <1>b, <2>1, ControlFrame
<1>5. Doing(t)' /\ Locked(t)' /\ Built'
  BY <1>0, <1>a, <1>b, <1>c DEF Doing, Locked, Built, Goto, TypeOK, ObjectLabel, Getting,
     Guarded
<1>6. (\A u \in Thread : Hands(u)') /\ Known' /\ Balanced' /\ Over'
  <2>1. obj_ptr[t] = None /\ l \notin {"return", "check"}
    BY <1>0, <1>c DEF Hands, Making, Using
  <2> QED BY <1>0, <1>a, <1>b, <1>c, <2>1, InstanceFrame DEF Making, CellLabel, Getting,
          Guarded
<1> QED BY <1>1, <1>3, <1>5, <1>6 DEF IInv

LEMMA ConstructInv == ASSUME IInv, NEW t \in Thread, Construct(t) PROVE IInv'
<1>0. TypeOK /\ Doing(t) /\ Locked(t) /\ Hands(t) /\ Built /\ Over /\ pc[t] = "construct"
      /\ single[t] \in Singleton
  BY DEF IInv, Construct, TypeOK
<1>a. ~closed /\ call[t] # "destroy" /\ mutex_new[single[t]] = t /\ ~init_flag[single[t]]
      /\ instances[single[t]] = 0
  BY <1>0, ThreadFacts DEF Over, Quiescent, Doing, Locked, Guarded, Built
<1> DEFINE l == pc'[t]
<1>b. Goto(t, l) /\ UNCHANGED <<init_flag, objects, call, single, obj_ptr>>
  BY <1>0 DEF Construct, Goto, TypeOK
<1>c. \/ l = "publish" /\ mutex_new' = mutex_new
         /\ instances' = [instances EXCEPT ![single[t]] = 1]
      \/ l = "idle" /\ mutex_new' = [mutex_new EXCEPT ![single[t]] = None]
         /\ instances' = instances
  BY <1>0, <1>a DEF Construct, Release, Goto, TypeOK
<1> HIDE DEF l
<1> USE ThreadFacts DEF objects
<1>1. TypeOK'
  BY <1>0, <1>b, <1>c DEF TypeOK, Goto, ObjectLabel
<1>3. \A u \in Thread \ {t} : Doing(u)' /\ Locked(u)'
  <2>1. \A u \in Thread \ {t}, s \in Singleton : mutex_new'[s] = u <=> mutex_new[s] = u
    BY <1>0, <1>a, <1>c DEF TypeOK
  <2>2. \A s \in Singleton : instances'[s] = instances[s] \/ mutex_new[s] = t
    BY <1>0, <1>a, <1>c DEF TypeOK
  <2> QED BY <1>b, <2>1, <2>2, ControlFrame
<1>5. Doing(t)' /\ Locked(t)' /\ Built'
  <2>1. Doing(t)'
    BY <1>0, <1>a, <1>b, <1>c DEF Doing, Goto, TypeOK, ObjectLabel, Getting, Guarded
  <2>2. Locked(t)'
    BY <1>0, <1>a, <1>b, <1>c DEF Locked, Goto, TypeOK, Guarded
  <2>3. Built'
    BY <1>0, <1>a, <1>b, <1>c DEF Built, Goto, TypeOK
  <2> QED BY <2>1, <2>2, <2>3
<1>6. (\A u \in Thread : Hands(u)') /\ Known' /\ Balanced' /\ Over'
  <2>1. obj_ptr[t] = None /\ l \notin {"return", "check"}
    BY <1>0, <1>c DEF Hands, Making, Using
  <2> QED BY <1>0, <1>a, <1>b, <1>c, <2>1, InstanceFrame DEF Making, CellLabel, Getting,
          Guarded
<1> QED BY <1>1, <1>3, <1>5, <1>6 DEF IInv

LEMMA PublishInv == ASSUME IInv, NEW t \in Thread, Publish(t) PROVE IInv'
<1>0. TypeOK /\ Doing(t) /\ Locked(t) /\ Hands(t) /\ Built /\ Over /\ pc[t] = "publish"
      /\ single[t] \in Singleton /\ call[t] \in {"create", "destroy", "get_nbr_threads"}
  BY DEF IInv, Publish, TypeOK
<1>a. ~closed /\ call[t] # "destroy" /\ mutex_new[single[t]] = t
      /\ instances[single[t]] = 1
  BY <1>0 DEF Over, Quiescent, Doing, Locked, Guarded
<1> DEFINE l == AfterInstance(t)
<1>b. Goto(t, l) /\ UNCHANGED <<instances, objects, call, single, obj_ptr>>
      /\ mutex_new' = [mutex_new EXCEPT ![single[t]] = None]
      /\ init_flag' = [init_flag EXCEPT ![single[t]] = TRUE]
  BY DEF Publish, Release
<1>c. \/ l = "idle" /\ call[t] = "get_nbr_threads"
      \/ l = "pop" /\ call[t] = "create" /\ single[t] = "disp_pool"
      \/ l = "new" /\ call[t] = "create" /\ single[t] = "thread_pool"
         /\ init_flag["disp_pool"]
  BY <1>0, <1>a, AfterCases DEF Singleton, Doing, Getting, Guarded
<1> HIDE DEF l
<1> USE ThreadFacts DEF objects
<1>d. \A s \in Singleton : init_flag'[s] = (s = single[t] \/ init_flag[s])
  BY <1>0, <1>b DEF TypeOK
<1>1. TypeOK'
  <2>1. init_flag' \in [Singleton -> BOOLEAN]
    BY <1>0, <1>b DEF TypeOK
  <2> QED BY <1>0, <1>b, <1>c, <2>1 DEF TypeOK, Goto, ObjectLabel
<1>3. \A u \in Thread \ {t} : Doing(u)' /\ Locked(u)'
  <2>1. \A u \in Thread \ {t}, s \in Singleton : mutex_new'[s] = u <=> mutex_new[s] = u
    BY <1>0, <1>a, <1>b DEF TypeOK
  <2>2. \A s \in Singleton : init_flag'[s] = init_flag[s] \/ mutex_new[s] = t
    BY <1>a, <1>b, <1>0 DEF TypeOK
  <2>3. \A s \in Singleton : init_flag[s] => init_flag'[s]
    BY <1>d
  <2>4. \A u \in Thread \ {t} : call'[u] = call[u] /\ single'[u] = single[u]
    BY <1>b
  <2>5. \A s \in Singleton :
          (init_flag'[s] = init_flag[s] /\ instances'[s] = instances[s]) \/ mutex_new[s] = t
    BY <1>b, <2>2
  <2> QED BY <1>b, <2>1, <2>3, <2>4, <2>5, ControlFrame
<1>5. Doing(t)' /\ Locked(t)' /\ Built'
  <2>1. Doing(t)'
    BY <1>0, <1>b, <1>c, <1>d DEF Doing, Goto, TypeOK, ObjectLabel, Getting, Guarded
  <2>2. Locked(t)'
    BY <1>0, <1>a, <1>b, <1>c DEF Locked, Goto, TypeOK, Guarded
  <2>3. Built'
    <3>1. out' # {} => init_flag'["disp_pool"]
      BY <1>0, <1>b, <1>d DEF Built
    <3>2. ASSUME NEW s \in Singleton
          PROVE  /\ init_flag'[s] => instances'[s] = 1
                 /\ ~init_flag'[s] /\ (mutex_new'[s] # None => pc'[mutex_new'[s]] # "publish")
                      => instances'[s] = 0
      <4>1. CASE s = single[t]
        BY <1>a, <1>b, <1>d, <4>1
      <4>2. CASE s # single[t]
        <5>1. init_flag'[s] = init_flag[s] /\ mutex_new'[s] = mutex_new[s]
              /\ mutex_new[s] # t
          BY <1>0, <1>b, <4>2 DEF Locked, TypeOK
        <5>2. mutex_new[s] # None => mutex_new[s] \in Thread \ {t}
          BY <1>0, <5>1 DEF TypeOK
        <5>3. mutex_new[s] # None => pc'[mutex_new[s]] = pc[mutex_new[s]]
          BY <1>0, <1>b, <5>2 DEF Goto, TypeOK
        <5> QED BY <1>0, <1>b, <5>1, <5>3 DEF Built
      <4> QED BY <4>1, <4>2
    <3> QED BY <3>1, <3>2 DEF Built
  <2> QED BY <2>1, <2>2, <2>3
<1>6. (\A u \in Thread : Hands(u)') /\ Known' /\ Balanced' /\ Over'
  <2>1. obj_ptr[t] = None /\ l \notin {"return", "check"}
    BY <1>0, <1>c DEF Hands, Making, Using
  <2>2. init_flag["disp_pool"] => init_flag'["disp_pool"]
    BY <1>d
  <2> QED BY <1>0, <1>a, <1>b, <1>c, <2>1, <2>2, InstanceFrame DEF Making, CellLabel,
          Getting, Guarded
<1> QED BY <1>1, <1>3, <1>5, <1>6 DEF IInv
-----------------------------------------------------------------------------
(* The steps of ObjPool.                                                   *)

\* What is constructed does not change.
LEMMA ObjectFrame ==
  ASSUME IInv, NEW t \in Thread, NEW l, Goto(t, l), UNCHANGED <<singletons, call>>,
         \A u \in Thread \ {t} : single'[u] = single[u],
         pc[t] \notin Guarded, l \notin Guarded,
         out' # {} => init_flag["disp_pool"]
  PROVE  (\A u \in Thread \ {t} : Doing(u)' /\ Locked(u)') /\ Locked(t)' /\ Built'
<1>0. TypeOK /\ Locked(t) /\ Built
  BY DEF IInv
<1>1. \A u \in Thread \ {t} : Doing(u)' /\ Locked(u)'
  BY ControlFrame DEF singletons
<1>2. Locked(t)'
  BY <1>0 DEF Locked, Goto, TypeOK, Guarded, singletons
<1>3. Built'
  BY <1>0 DEF Built, Goto, TypeOK, Guarded, singletons
<1> QED BY <1>1, <1>2, <1>3

\* A thread may move its own dispatcher, or take one that nobody has in hand.
LEMMA HandsFrame ==
  ASSUME IInv, NEW t \in Thread, NEW l, Goto(t, l), NEW x \in Obj \cup {None},
         obj_ptr' = [obj_ptr EXCEPT ![t] = x], UNCHANGED <<call, init_flag>>,
         \A u \in Thread \ {t} : x # None => obj_ptr[u] # x,
         \A d \in Obj : d # x /\ d # obj_ptr[t] =>
           /\ d \in ToSet(stack_free)' <=> d \in ToSet(stack_free)
           /\ d \in out' <=> d \in out
           /\ d \in alive' <=> d \in alive
           /\ d \in stack_all' <=> d \in stack_all,
         NEW u \in Thread \ {t}
  PROVE  Hands(u)'
<1>1. Hands(u) /\ TypeOK
  BY DEF IInv
<1>2. pc'[u] = pc[u] /\ call'[u] = call[u] /\ obj_ptr'[u] = obj_ptr[u]
  BY <1>1 DEF TypeOK, Goto
<1>3. \A v \in Thread \ {u} : obj_ptr[u] # None => obj_ptr'[v] # obj_ptr[u]
  BY <1>1 DEF Hands, TypeOK
<1>4. obj_ptr[u] # None => /\ obj_ptr[u] \in Obj
                           /\ obj_ptr[u] # x /\ obj_ptr[u] # obj_ptr[t]
  BY <1>1 DEF Hands, TypeOK
<1> QED BY <1>1, <1>2, <1>3, <1>4 DEF Hands, Making, Using

LEMMA CallDestroyInv ==
  ASSUME IInv, NEW t \in Thread, NEW d \in Obj, CallDestroy(t, d)
  PROVE  IInv'
<1> USE ThreadFacts DEF CallDestroy, Call, Carry
<1>0. TypeOK /\ Doing(t) /\ Locked(t) /\ Hands(t) /\ Built /\ Known /\ Balanced
      /\ pc[t] = "idle" /\ Goto(t, "check") /\ ~closed /\ d \in out
  BY DEF IInv
<1>1. TypeOK'
  BY <1>0 DEF TypeOK, Goto, singletons
<1>2. init_flag["disp_pool"] /\ obj_ptr[t] = None
  BY <1>0 DEF Built, Hands, Making, Using
<1>3. \A u \in Thread \ {t} : Doing(u)' /\ Locked(u)'
  <2>1. \A u \in Thread \ {t} : call'[u] = call[u] /\ single'[u] = single[u]
    BY <1>0 DEF TypeOK
  <2> QED BY <1>0, <2>1, ControlFrame DEF singletons
<1>4. Doing(t)' /\ Locked(t)' /\ Built'
  BY <1>0, <1>2 DEF Doing, Locked, Built, Goto, TypeOK, ObjectLabel, Getting, Guarded,
     singletons
<1>5. Hands(t)'
  <2>1. \A u \in Thread : obj_ptr[u] # d
    BY <1>0 DEF IInv, Hands
  <2> QED BY <1>0, <1>2, <2>1 DEF Hands, Known, Making, Using, Goto, TypeOK, singletons
<1>6. ASSUME NEW u \in Thread \ {t} PROVE Hands(u)'
  <2>1. Hands(u) /\ obj_ptr[u] # d
    BY <1>0 DEF IInv, Hands
  <2>2. pc'[u] = pc[u] /\ call'[u] = call[u] /\ obj_ptr'[u] = obj_ptr[u]
    BY <1>0 DEF TypeOK, Goto
  <2>3. \A v \in Thread \ {u} : obj_ptr[u] # None => obj_ptr'[v] # obj_ptr[u]
    BY <1>0, <2>1 DEF Hands, TypeOK
  <2> QED BY <1>0, <2>1, <2>2, <2>3 DEF Hands, Making, Using, singletons
<1>7. Known'
  <2>1. \A e \in alive \ stack_all :
          \E u \in Thread : pc'[u] \in Making /\ obj_ptr'[u] = e
    BY <1>0 DEF Known, Making, Goto, TypeOK
  <2> QED BY <1>0, <2>1 DEF Known
<1>8. Balanced' /\ Over'
  <2>1. Celled' = Celled
    BY <1>0, CelledSame DEF CellLabel
  <2> QED BY <1>0, <2>1 DEF Balanced, Over
<1> QED BY <1>1, <1>3, <1>4, <1>5, <1>6, <1>7, <1>8 DEF IInv

LEMMA PopFreeInv == ASSUME IInv, NEW t \in Thread, PopFree(t) PROVE IInv'
<1> USE ThreadFacts DEF Carry
<1>0. TypeOK /\ Doing(t) /\ Hands(t) /\ Built /\ Known /\ Balanced /\ Over
      /\ pc[t] = "pop" /\ single[t] = "disp_pool" /\ call[t] = "create"
      /\ init_flag["disp_pool"]
  BY DEF IInv, PopFree, Doing
<1>a. ~closed /\ obj_ptr[t] = None
  BY <1>0 DEF Over, Quiescent, Hands, Making, Using
<1>b. UNCHANGED <<singletons, stack_all, used_cells, alive, out, closed, call>>
  BY DEF PopFree
<1>1. CASE /\ stack_free # << >>
           /\ stack_free' = Tail(stack_free)
           /\ Carry(t, Head(stack_free))
           /\ Goto(t, "recycle")
           /\ UNCHANGED single
  <2> DEFINE d == Head(stack_free)
             rest == Tail(stack_free)
  <2>1. /\ rest \in Seq(Obj) /\ Len(rest) = Len(stack_free) - 1
        /\ Len(stack_free) \in Nat \ {0}
        /\ d \in Obj /\ d \notin ToSet(rest) /\ ToSet(stack_free) = ToSet(rest) \cup {d}
        /\ IsInjective(rest)
    BY <1>0, <1>1, PopFacts DEF TypeOK, Known
  <2>2. stack_free' = rest /\ obj_ptr' = [obj_ptr EXCEPT ![t] = d] /\ Goto(t, "recycle")
        /\ single' = single
    BY <1>1
  <2> HIDE DEF d, rest
  <2>3. TypeOK'
    BY <1>0, <1>b, <2>1, <2>2 DEF TypeOK, Goto, ObjectLabel, singletons
  <2>4. (\A u \in Thread \ {t} : Doing(u)' /\ Locked(u)') /\ Locked(t)' /\ Built'
    BY <1>0, <1>b, <2>2, ObjectFrame DEF Guarded
  <2>5. Doing(t)'
    BY <1>0, <1>b, <2>2 DEF Doing, Goto, TypeOK, Getting, Guarded, singletons
  <2>6. \A u \in Thread : obj_ptr[u] # d
    BY <1>0, <2>1 DEF IInv, Hands
  <2>7. Hands(t)'
    BY <1>0, <1>a, <1>b, <2>1, <2>2, <2>6 DEF Hands, Known, Making, Using, Goto, TypeOK,
       singletons
  <2>8. ASSUME NEW u \in Thread \ {t} PROVE Hands(u)'
    <3>1. Hands(u) /\ obj_ptr[u] # d
      BY <2>6 DEF IInv
    <3>2. pc'[u] = pc[u] /\ call'[u] = call[u] /\ obj_ptr'[u] = obj_ptr[u]
      BY <1>0, <1>b, <2>2 DEF TypeOK, Goto
    <3>3. \A v \in Thread \ {u} : obj_ptr[u] # None => obj_ptr'[v] # obj_ptr[u]
      BY <1>0, <2>2, <3>1 DEF Hands, TypeOK
    <3> QED BY <1>b, <2>1, <2>2, <3>1, <3>2, <3>3 DEF Hands, Making, Using, singletons
  <2>9. Known'
    <3>1. \A e \in alive \ stack_all :
            \E u \in Thread : pc'[u] \in Making /\ obj_ptr'[u] = e
      BY <1>0, <2>2 DEF Known, Making, Goto, TypeOK
    <3> QED BY <1>0, <1>b, <2>1, <2>2, <3>1 DEF Known
  <2>10. Balanced' /\ Over'
    <3>1. /\ IsFiniteSet(Celled') /\ Cardinality(Celled') = Cardinality(Celled) + 1
          /\ Cardinality(Celled) \in Nat
      BY <1>0, <2>2, CelledMore DEF Balanced, CellLabel
    <3>2. Cardinality(stack_all) \in Nat
      BY <1>0, FS_CardinalityType DEF Balanced
    <3>3. used_cells = Len(rest) + Cardinality(stack_all) + Cardinality(Celled')
      <4>1. used_cells = Len(stack_free) + Cardinality(stack_all) + Cardinality(Celled)
        BY <1>0 DEF Balanced
      <4> QED BY <2>1, <3>1, <3>2, <4>1
    <3>4. Balanced'
      BY <1>0, <1>b, <2>2, <3>1, <3>3 DEF Balanced
    <3> QED BY <1>a, <1>b, <3>4 DEF Over
  <2> QED BY <2>3, <2>4, <2>5, <2>7, <2>8, <2>9, <2>10 DEF IInv
<1>2. CASE /\ stack_free = << >>
           /\ single' = [single EXCEPT ![t] = "thread_pool"]
           /\ Goto(t, "check")
           /\ UNCHANGED <<stack_free, obj_ptr>>
  <2>3. TypeOK'
    BY <1>0, <1>b, <1>2 DEF TypeOK, Goto, ObjectLabel, singletons
  <2>4. (\A u \in Thread \ {t} : Doing(u)' /\ Locked(u)') /\ Locked(t)' /\ Built'
    <3>1. \A u \in Thread \ {t} : single'[u] = single[u]
      BY <1>0, <1>2 DEF TypeOK
    <3> QED BY <1>0, <1>b, <1>2, <3>1, ObjectFrame DEF Guarded
  <2>5. Doing(t)'
    BY <1>0, <1>b, <1>2 DEF Doing, Goto, TypeOK, Getting, Guarded, singletons, ObjectLabel
  <2>6. \A u \in Thread : Hands(u)'
    BY <1>0, <1>b, <1>2 DEF IInv, Hands, Goto, TypeOK, Making, Using, singletons
  <2>7. Known'
    <3>1. \A e \in alive \ stack_all :
            \E u \in Thread : pc'[u] \in Making /\ obj_ptr'[u] = e
      BY <1>0, <1>2 DEF Known, Making, Goto, TypeOK
    <3> QED BY <1>0, <1>b, <1>2, <3>1 DEF Known
  <2>8. Balanced' /\ Over'
    <3>1. Celled' = Celled
      BY <1>0, <1>2, CelledSame DEF CellLabel
    <3> QED BY <1>0, <1>a, <1>b, <1>2, <3>1 DEF Balanced, Over
  <2> QED BY <2>3, <2>4, <2>5, <2>6, <2>7, <2>8 DEF IInv
<1> QED BY <1>1, <1>2 DEF PopFree

LEMMA RecycleInv == ASSUME IInv, NEW t \in Thread, Recycle(t) PROVE IInv'
<1> USE ThreadFacts DEF Recycle, Carry, return_cell
<1>0. TypeOK /\ Doing(t) /\ Hands(t) /\ Built /\ Known /\ Balanced /\ Over
      /\ pc[t] = "recycle" /\ init_flag["disp_pool"] /\ Goto(t, "idle")
  BY DEF IInv, Doing, ObjectLabel
<1>a. ~closed /\ obj_ptr[t] \in stack_all /\ obj_ptr[t] \in Obj
      /\ obj_ptr[t] \notin ToSet(stack_free) \cup out
  BY <1>0 DEF Over, Quiescent, Hands, Making, Using, TypeOK
<1>b. Balanced' /\ Over' /\ used_cells' \in Nat
  <2>1. /\ IsFiniteSet(Celled') /\ Cardinality(Celled') = Cardinality(Celled) - 1
        /\ Cardinality(Celled) \in Nat \ {0}
    BY <1>0, CelledLess DEF Balanced, CellLabel
  <2>2. Cardinality(stack_all) \in Nat /\ Len(stack_free) \in Nat
    BY <1>0, FS_CardinalityType DEF Balanced, TypeOK
  <2> QED BY <1>0, <1>a, <2>1, <2>2 DEF Balanced, Over
<1>1. TypeOK'
  BY <1>0, <1>a, <1>b DEF TypeOK, Goto, singletons
<1>2. (\A u \in Thread \ {t} : Doing(u)' /\ Locked(u)') /\ Locked(t)' /\ Built'
  BY <1>0, ObjectFrame DEF Guarded
<1>3. Doing(t)'
  BY <1>0 DEF Doing, Goto, TypeOK, Getting, Guarded, singletons, ObjectLabel
<1>4. Hands(t)'
  BY <1>0 DEF Hands, Making, Using, Goto, TypeOK, singletons
<1>5. \A u \in Thread \ {t} : Hands(u)'
  BY <1>0, HandsFrame DEF singletons
<1>6. Known'
  <2>1. \A e \in alive \ stack_all :
          \E u \in Thread : pc'[u] \in Making /\ obj_ptr'[u] = e
    BY <1>0 DEF Known, Making, Goto, TypeOK
  <2> QED BY <1>0, <1>a, <2>1 DEF Known
<1> QED BY <1>b, <1>1, <1>2, <1>3, <1>4, <1>5, <1>6 DEF IInv

LEMMA NewInv == ASSUME IInv, NEW t \in Thread, New(t) PROVE IInv'
<1> USE ThreadFacts DEF Carry
<1>0. TypeOK /\ Doing(t) /\ Hands(t) /\ Built /\ Known /\ Balanced /\ Over
      /\ pc[t] = "new" /\ init_flag["disp_pool"]
      /\ UNCHANGED <<singletons, stack_free, stack_all, used_cells, out, closed, call, single>>
  BY DEF IInv, Doing, ObjectLabel, New
<1>a. ~closed /\ obj_ptr[t] = None
  BY <1>0 DEF Over, Quiescent, Hands, Making, Using
<1>b. \A l \in {"cell", "idle"} : Goto(t, l) => Balanced' /\ Over'
  BY <1>0, <1>a, CelledSame DEF Balanced, Over, CellLabel
<1>1. ASSUME NEW d \in Obj \ alive, alive' = alive \cup {d}, Carry(t, d), Goto(t, "cell")
      PROVE  IInv'
  <2>1. TypeOK'
    BY <1>0, <1>1 DEF TypeOK, Goto, singletons, ObjectLabel
  <2>2. (\A u \in Thread \ {t} : Doing(u)' /\ Locked(u)') /\ Locked(t)' /\ Built'
    BY <1>0, <1>1, ObjectFrame DEF Guarded
  <2>3. Doing(t)'
    BY <1>0, <1>1 DEF Doing, Goto, TypeOK, Getting, Guarded, singletons, ObjectLabel
  <2>4. \A u \in Thread : obj_ptr[u] # d
    BY <1>0, <1>1 DEF IInv, Hands, Known
  <2>5. Hands(t)'
    BY <1>0, <1>1, <2>4 DEF Hands, Known, Making, Using, Goto, TypeOK, singletons
  <2>6. \A u \in Thread \ {t} : Hands(u)'
    BY <1>0, <1>1, <2>4, HandsFrame DEF singletons
  <2>7. Known'
    <3>1. \A e \in alive' \ stack_all :
            \E u \in Thread : pc'[u] \in Making /\ obj_ptr'[u] = e
      <4> TAKE e \in alive' \ stack_all
      <4>1. CASE e = d
        BY <1>0, <1>1, <4>1 DEF Making, Goto, TypeOK
      <4>2. CASE e # d
        <5>1. PICK u \in Thread : pc[u] \in Making /\ obj_ptr[u] = e
          BY <1>0, <1>1, <4>2 DEF Known
        <5> QED BY <1>0, <1>1, <5>1 DEF Making, Goto, TypeOK
      <4> QED BY <4>1, <4>2
    <3> QED BY <1>0, <1>1, <3>1 DEF Known
  <2> QED BY <1>b, <1>1, <2>1, <2>2, <2>3, <2>5, <2>6, <2>7 DEF IInv
<1>2. CASE Goto(t, "idle") /\ UNCHANGED <<alive, obj_ptr>>
  <2>1. TypeOK'
    BY <1>0, <1>2 DEF TypeOK, Goto, singletons
  <2>2. (\A u \in Thread \ {t} : Doing(u)' /\ Locked(u)') /\ Locked(t)' /\ Built'
    BY <1>0, <1>2, ObjectFrame DEF Guarded
  <2>3. Doing(t)'
    BY <1>0, <1>2 DEF Doing, Goto, TypeOK, Getting, Guarded, singletons, ObjectLabel
  <2>4. Hands(t)'
    BY <1>0, <1>a, <1>2 DEF Hands, Making, Using, Goto, TypeOK
  <2>5. \A u \in Thread \ {t} : Hands(u)'
    BY <1>0, <1>2 DEF IInv, Hands, Making, Using, Goto, TypeOK, singletons
  <2>6. Known'
    <3>1. \A e \in alive \ stack_all :
            \E u \in Thread : pc'[u] \in Making /\ obj_ptr'[u] = e
      BY <1>0, <1>2 DEF Known, Making, Goto, TypeOK
    <3> QED BY <1>0, <1>2, <3>1 DEF Known
  <2> QED BY <1>b, <1>2, <2>1, <2>2, <2>3, <2>4, <2>5, <2>6 DEF IInv
<1> QED BY <1>1, <1>2 DEF New

LEMMA TakeCellForAllInv == ASSUME IInv, NEW t \in Thread, TakeCellForAll(t) PROVE IInv'
<1> USE ThreadFacts DEF Carry
<1>0. TypeOK /\ Doing(t) /\ Hands(t) /\ Built /\ Known /\ Balanced /\ Over
      /\ pc[t] = "cell" /\ init_flag["disp_pool"]
      /\ UNCHANGED <<singletons, stack_free, stack_all, out, closed, call, single>>
  BY DEF IInv, Doing, ObjectLabel, TakeCellForAll
<1>a. ~closed /\ obj_ptr[t] \in alive \ stack_all /\ obj_ptr[t] \in Obj
      /\ obj_ptr[t] \notin ToSet(stack_free) \cup out
  BY <1>0 DEF Over, Quiescent, Hands, Making, Using, TypeOK
<1>1. CASE used_cells' = used_cells + 1 /\ Goto(t, "remember") /\ UNCHANGED <<alive, obj_ptr>>
  <2>1. TypeOK'
    BY <1>0, <1>1 DEF TypeOK, Goto, singletons, ObjectLabel
  <2>2. (\A u \in Thread \ {t} : Doing(u)' /\ Locked(u)') /\ Locked(t)' /\ Built'
    BY <1>0, <1>1, ObjectFrame DEF Guarded
  <2>3. Doing(t)'
    BY <1>0, <1>1 DEF Doing, Goto, TypeOK, Getting, Guarded, singletons, ObjectLabel
  <2>4. Hands(t)'
    BY <1>0, <1>a, <1>1 DEF Hands, Making, Using, Goto, TypeOK, singletons
  <2>5. \A u \in Thread \ {t} : Hands(u)'
    BY <1>0, <1>1 DEF IInv, Hands, Making, Using, Goto, TypeOK, singletons
  <2>6. Known'
    <3>1. \A e \in alive \ stack_all :
            \E u \in Thread : pc'[u] \in Making /\ obj_ptr'[u] = e
      BY <1>0, <1>1 DEF Known, Making, Goto, TypeOK
    <3> QED BY <1>0, <1>1, <3>1 DEF Known
  <2>7. Balanced' /\ Over'
    <3>1. /\ IsFiniteSet(Celled') /\ Cardinality(Celled') = Cardinality(Celled) + 1
          /\ Cardinality(Celled) \in Nat
      BY <1>0, <1>1, CelledMore DEF Balanced, CellLabel
    <3>2. Cardinality(stack_all) \in Nat /\ Len(stack_free) \in Nat
      BY <1>0, FS_CardinalityType DEF Balanced, TypeOK
    <3> QED BY <1>0, <1>a, <1>1, <3>1, <3>2 DEF Balanced, Over
  <2> QED BY <2>1, <2>2, <2>3, <2>4, <2>5, <2>6, <2>7 DEF IInv
<1>2. CASE /\ Delete(obj_ptr[t])
           /\ Carry(t, None)
           /\ Goto(t, "idle")
           /\ UNCHANGED used_cells
  <2>1. TypeOK'
    BY <1>0, <1>2 DEF TypeOK, Goto, singletons, Delete
  <2>2. (\A u \in Thread \ {t} : Doing(u)' /\ Locked(u)') /\ Locked(t)' /\ Built'
    BY <1>0, <1>2, ObjectFrame DEF Guarded
  <2>3. Doing(t)'
    BY <1>0, <1>2 DEF Doing, Goto, TypeOK, Getting, Guarded, singletons, ObjectLabel
  <2>4. Hands(t)'
    BY <1>0, <1>2 DEF Hands, Making, Using, Goto, TypeOK
  <2>5. \A u \in Thread \ {t} : Hands(u)'
    BY <1>0, <1>2, HandsFrame DEF singletons, Delete
  <2>6. Known'
    <3>1. \A e \in alive' \ stack_all :
            \E u \in Thread : pc'[u] \in Making /\ obj_ptr'[u] = e
      <4> TAKE e \in alive' \ stack_all
      <4>1. PICK u \in Thread : pc[u] \in Making /\ obj_ptr[u] = e
        BY <1>0, <1>2 DEF Known, Delete
      <4>2. u # t
        BY <1>2, <4>1 DEF Delete
      <4> QED BY <1>0, <1>2, <4>1, <4>2 DEF Making, Goto, TypeOK
    <3> QED BY <1>0, <1>a, <1>2, <3>1 DEF Known, Delete
  <2>7. Balanced' /\ Over'
    BY <1>0, <1>a, <1>2, CelledSame DEF Balanced, Over, CellLabel
  <2> QED BY <2>1, <2>2, <2>3, <2>4, <2>5, <2>6, <2>7 DEF IInv
<1> QED BY <1>1, <1>2 DEF TakeCellForAll

LEMMA PushAllInv == ASSUME IInv, NEW t \in Thread, PushAll(t) PROVE IInv'
<1> USE ThreadFacts DEF PushAll, Carry
<1>0. TypeOK /\ Doing(t) /\ Hands(t) /\ Built /\ Known /\ Balanced /\ Over
      /\ pc[t] = "remember" /\ init_flag["disp_pool"] /\ Goto(t, "idle")
  BY DEF IInv, Doing, ObjectLabel
<1>a. ~closed /\ obj_ptr[t] \in alive \ stack_all /\ obj_ptr[t] \in Obj
      /\ obj_ptr[t] \notin ToSet(stack_free) \cup out
  BY <1>0 DEF Over, Quiescent, Hands, Making, Using, TypeOK
<1>1. TypeOK'
  BY <1>0, <1>a DEF TypeOK, Goto, singletons
<1>2. (\A u \in Thread \ {t} : Doing(u)' /\ Locked(u)') /\ Locked(t)' /\ Built'
  BY <1>0, ObjectFrame DEF Guarded
<1>3. Doing(t)'
  BY <1>0 DEF Doing, Goto, TypeOK, Getting, Guarded, singletons, ObjectLabel
<1>4. Hands(t)'
  BY <1>0 DEF Hands, Making, Using, Goto, TypeOK
<1>5. \A u \in Thread \ {t} : Hands(u)'
  BY <1>0, HandsFrame DEF singletons
<1>6. Known'
  <2>1. \A e \in alive \ stack_all' :
          \E u \in Thread : pc'[u] \in Making /\ obj_ptr'[u] = e
    <3> TAKE e \in alive \ stack_all'
    <3>1. PICK u \in Thread : pc[u] \in Making /\ obj_ptr[u] = e
      BY <1>0 DEF Known
    <3>2. u # t
      BY <3>1
    <3> QED BY <1>0, <3>1, <3>2 DEF Making, Goto, TypeOK
  <2> QED BY <1>0, <1>a, <2>1 DEF Known
<1>7. Balanced' /\ Over'
  <2>1. /\ IsFiniteSet(Celled') /\ Cardinality(Celled') = Cardinality(Celled) - 1
        /\ Cardinality(Celled) \in Nat \ {0}
    BY <1>0, CelledLess DEF Balanced, CellLabel
  <2>2. Cardinality(stack_all) \in Nat /\ Len(stack_free) \in Nat
    BY <1>0, FS_CardinalityType DEF Balanced, TypeOK
  <2>3. IsFiniteSet(stack_all') /\ Cardinality(stack_all') = Cardinality(stack_all) + 1
    BY <1>0, <1>a, FS_AddElement DEF Balanced
  <2> QED BY <1>0, <1>a, <2>1, <2>2, <2>3 DEF Balanced, Over
<1> QED BY <1>1, <1>2, <1>3, <1>4, <1>5, <1>6, <1>7 DEF IInv

LEMMA TakeCellForFreeInv ==
  ASSUME IInv, NEW t \in Thread, TakeCellForFree(t)
  PROVE  IInv'
<1> USE ThreadFacts DEF Carry
<1>0. TypeOK /\ Doing(t) /\ Hands(t) /\ Built /\ Known /\ Balanced /\ Over
      /\ pc[t] = "return" /\ init_flag["disp_pool"]
      /\ UNCHANGED <<singletons, stack_free, stack_all, alive, out, closed, call, single>>
  BY DEF IInv, Doing, ObjectLabel, TakeCellForFree
<1>a. ~closed /\ obj_ptr[t] \in stack_all /\ obj_ptr[t] \in Obj
      /\ obj_ptr[t] \notin ToSet(stack_free) \cup out
  BY <1>0 DEF Over, Quiescent, Hands, Making, Using, TypeOK
<1>b. ASSUME NEW l \in {"pushfree", "idle"}, Goto(t, l),
             obj_ptr' = obj_ptr \/ Carry(t, None)
      PROVE  Known'
  <2>1. \A e \in alive \ stack_all :
          \E u \in Thread : pc'[u] \in Making /\ obj_ptr'[u] = e
    <3> TAKE e \in alive \ stack_all
    <3>1. PICK u \in Thread : pc[u] \in Making /\ obj_ptr[u] = e
      BY <1>0 DEF Known
    <3> QED BY <1>0, <1>b, <3>1 DEF Making, Goto, TypeOK
  <2> QED BY <1>0, <2>1 DEF Known
<1>1. CASE used_cells' = used_cells + 1 /\ Goto(t, "pushfree") /\ UNCHANGED obj_ptr
  <2>1. TypeOK'
    BY <1>0, <1>1 DEF TypeOK, Goto, singletons, ObjectLabel
  <2>2. (\A u \in Thread \ {t} : Doing(u)' /\ Locked(u)') /\ Locked(t)' /\ Built'
    BY <1>0, <1>1, ObjectFrame DEF Guarded, Built
  <2>3. Doing(t)'
    BY <1>0, <1>1 DEF Doing, Goto, TypeOK, Getting, Guarded, singletons, ObjectLabel
  <2>4. Hands(t)'
    BY <1>0, <1>a, <1>1 DEF Hands, Making, Using, Goto, TypeOK, singletons
  <2>5. \A u \in Thread \ {t} : Hands(u)'
    BY <1>0, <1>1 DEF IInv, Hands, Making, Using, Goto, TypeOK, singletons
  <2>6. Balanced' /\ Over'
    <3>1. /\ IsFiniteSet(Celled') /\ Cardinality(Celled') = Cardinality(Celled) + 1
          /\ Cardinality(Celled) \in Nat
      BY <1>0, <1>1, CelledMore DEF Balanced, CellLabel
    <3>2. Cardinality(stack_all) \in Nat /\ Len(stack_free) \in Nat
      BY <1>0, FS_CardinalityType DEF Balanced, TypeOK
    <3> QED BY <1>0, <1>a, <1>1, <3>1, <3>2 DEF Balanced, Over
  <2> QED BY <1>b, <1>1, <2>1, <2>2, <2>3, <2>4, <2>5, <2>6 DEF IInv
<1>2. CASE Carry(t, None) /\ Goto(t, "idle") /\ UNCHANGED used_cells
  <2>1. TypeOK'
    BY <1>0, <1>2 DEF TypeOK, Goto, singletons
  <2>2. (\A u \in Thread \ {t} : Doing(u)' /\ Locked(u)') /\ Locked(t)' /\ Built'
    BY <1>0, <1>2, ObjectFrame DEF Guarded, Built
  <2>3. Doing(t)'
    BY <1>0, <1>2 DEF Doing, Goto, TypeOK, Getting, Guarded, singletons, ObjectLabel
  <2>4. Hands(t)'
    BY <1>0, <1>2 DEF Hands, Making, Using, Goto, TypeOK
  <2>5. \A u \in Thread \ {t} : Hands(u)'
    BY <1>0, <1>2, HandsFrame DEF singletons
  <2>6. Balanced' /\ Over'
    BY <1>0, <1>a, <1>2, CelledSame DEF Balanced, Over, CellLabel
  <2> QED BY <1>b, <1>2, <2>1, <2>2, <2>3, <2>4, <2>5, <2>6 DEF IInv
<1> QED BY <1>1, <1>2 DEF TakeCellForFree

LEMMA PushFreeInv == ASSUME IInv, NEW t \in Thread, PushFree(t) PROVE IInv'
<1> USE ThreadFacts DEF PushFree, Carry, push_free
<1>0. TypeOK /\ Doing(t) /\ Hands(t) /\ Built /\ Known /\ Balanced /\ Over
      /\ pc[t] = "pushfree" /\ init_flag["disp_pool"] /\ Goto(t, "idle")
  BY DEF IInv, Doing, ObjectLabel
<1>a. ~closed /\ obj_ptr[t] \in stack_all /\ obj_ptr[t] \in Obj
      /\ obj_ptr[t] \notin ToSet(stack_free) \cup out
  BY <1>0 DEF Over, Quiescent, Hands, Making, Using, TypeOK
<1> DEFINE d == obj_ptr[t]
           more == <<d>> \o stack_free
<1>b. /\ more \in Seq(Obj) /\ Len(more) = Len(stack_free) + 1
      /\ ToSet(more) = ToSet(stack_free) \cup {d} /\ IsInjective(more)
  BY <1>0, <1>a, PushFacts DEF TypeOK, Known
<1>c. stack_free' = more
  OBVIOUS
<1> HIDE DEF more, push_free, PushFree
<1>d. obj_ptr' = [obj_ptr EXCEPT ![t] = None]
      /\ UNCHANGED <<singletons, stack_all, used_cells, alive, out, closed, call, single>>
  BY DEF PushFree
<1>1. TypeOK'
  BY <1>0, <1>b, <1>c, <1>d DEF TypeOK, Goto, singletons
<1>2. (\A u \in Thread \ {t} : Doing(u)' /\ Locked(u)') /\ Locked(t)' /\ Built'
  BY <1>0, <1>d, ObjectFrame DEF Guarded
<1>3. Doing(t)'
  BY <1>0, <1>d DEF Doing, Goto, TypeOK, Getting, Guarded, singletons, ObjectLabel
<1>4. Hands(t)'
  BY <1>0, <1>d DEF Hands, Making, Using, Goto, TypeOK
<1>5. \A u \in Thread \ {t} : Hands(u)'
  BY <1>0, <1>b, <1>c, <1>d, HandsFrame DEF singletons
<1>6. Known'
  <2>1. \A e \in alive \ stack_all :
          \E u \in Thread : pc'[u] \in Making /\ obj_ptr'[u] = e
    <3> TAKE e \in alive \ stack_all
    <3>1. PICK u \in Thread : pc[u] \in Making /\ obj_ptr[u] = e
      BY <1>0 DEF Known
    <3> QED BY <1>0, <1>d, <3>1 DEF Making, Goto, TypeOK
  <2> QED BY <1>0, <1>a, <1>b, <1>c, <1>d, <2>1 DEF Known
<1>7. Balanced' /\ Over'
  <2>1. /\ IsFiniteSet(Celled') /\ Cardinality(Celled') = Cardinality(Celled) - 1
        /\ Cardinality(Celled) \in Nat \ {0}
    BY <1>0, CelledLess DEF Balanced, CellLabel
  <2>2. Cardinality(stack_all) \in Nat /\ Len(stack_free) \in Nat
    BY <1>0, FS_CardinalityType DEF Balanced, TypeOK
  <2> QED BY <1>0, <1>a, <1>b, <1>c, <1>d, <2>1, <2>2 DEF Balanced, Over
<1> QED BY <1>1, <1>2, <1>3, <1>4, <1>5, <1>6, <1>7 DEF IInv

\* At the cleanup nobody has a dispatcher or a cell in hand.
LEMMA CleanupInv == ASSUME IInv, Cleanup PROVE IInv'
<1> USE ThreadFacts DEF Cleanup, Deleted, Quiescent
<1>0. TypeOK /\ Built /\ Known /\ Balanced
  BY DEF IInv
<1>1. alive = stack_all /\ Celled = {}
  BY <1>0 DEF Known, Celled, Making
<1>2. used_cells = Len(stack_free) + Cardinality(stack_all)
      /\ Len(stack_free) \in Nat /\ Cardinality(stack_all) \in Nat
  BY <1>0, <1>1, FS_EmptySet, FS_CardinalityType DEF Balanced, TypeOK
<1>3. used_cells' = 0 /\ alive' = {} /\ stack_free' = << >> /\ stack_all' = {}
  BY <1>1, <1>2
<1>4. Celled' = {} /\ Cardinality(Celled') = 0 /\ Cardinality(stack_all') = 0
      /\ IsFiniteSet(Celled') /\ IsFiniteSet(stack_all')
  BY <1>1, <1>3, FS_EmptySet DEF Celled
<1>5. ToSet(stack_free') = {} /\ IsInjective(stack_free') /\ Len(stack_free') = 0
  BY <1>3 DEF ToSet, IsInjective
<1>6. TypeOK'
  BY <1>0, <1>3 DEF TypeOK, singletons
<1>7. \A t \in Thread : Doing(t)' /\ Locked(t)' /\ Hands(t)'
  <2>1. \A t \in Thread : obj_ptr[t] = None
    BY DEF IInv, Hands, Making, Using
  <2> QED BY <1>0, <2>1 DEF IInv, Doing, Locked, Hands, singletons, Making, Using, Guarded,
          Getting, ObjectLabel
<1>8. Built' /\ Known' /\ Over'
  BY <1>0, <1>3, <1>5 DEF Built, Known, Over, singletons
<1>9. Balanced'
  BY <1>3, <1>4, <1>5 DEF Balanced
<1> QED BY <1>6, <1>7, <1>8, <1>9 DEF IInv
-----------------------------------------------------------------------------
(* The invariant, and what it says.                                        *)

LEMMA InitInv == Init => IInv
<1> SUFFICES ASSUME Init PROVE IInv
  OBVIOUS
<1> USE ThreadFacts DEF Init
<1>1. TypeOK
  <2>1. init_flag \in [Singleton -> BOOLEAN] /\ closed \in BOOLEAN
    BY Zenon
  <2>2. instances \in [Singleton -> 0 .. 1] /\ mutex_new \in [Singleton -> Thread \cup {None}]
        /\ single \in [Thread -> Singleton]
    OBVIOUS
  <2>3. stack_free \in Seq(Obj) /\ used_cells \in Nat
    OBVIOUS
  <2> QED BY <2>1, <2>2, <2>3 DEF TypeOK
<1>2. Celled = {} /\ IsFiniteSet(Celled) /\ Cardinality(Celled) = 0
      /\ IsFiniteSet(stack_all) /\ Cardinality(stack_all) = 0
  BY FS_EmptySet DEF Celled
<1>3. ToSet(stack_free) = {} /\ IsInjective(stack_free) /\ Len(stack_free) = 0
  BY DEF ToSet, IsInjective
<1>4. \A t \in Thread : Doing(t) /\ Locked(t) /\ Hands(t)
  BY DEF Doing, Locked, Hands, Making, Using, Guarded, Getting, ObjectLabel
<1>5. Built /\ Known /\ Over /\ Balanced
  BY <1>2, <1>3 DEF Built, Known, Over, Balanced
<1> QED BY <1>1, <1>4, <1>5 DEF IInv

LEMMA Invariance == Spec => []IInv
<1>1. Init => IInv
  BY InitInv
<1>2. IInv /\ [Next]_vars => IInv'
  <2> SUFFICES ASSUME IInv, [Next]_vars PROVE IInv'
    OBVIOUS
  <2>1. ASSUME NEW t \in Thread, InstanceStep(t) PROVE IInv'
    BY <2>1, CheckInv, LockInv, RecheckInv, ConstructInv, PublishInv DEF InstanceStep
  <2>2. ASSUME NEW t \in Thread, ObjectStep(t) PROVE IInv'
    BY <2>2, PopFreeInv, RecycleInv, NewInv, TakeCellForAllInv, PushAllInv,
       TakeCellForFreeInv, PushFreeInv DEF ObjectStep
  <2>3. CASE UNCHANGED vars
    BY <2>3 DEF IInv, TypeOK, Doing, Locked, Hands, Built, Known, Balanced, Celled, Over,
       Quiescent, vars
  <2> QED BY <2>1, <2>2, <2>3, CallInv, CallDestroyInv, CleanupInv DEF Next
<1> QED BY <1>1, <1>2, PTL DEF Spec

\* However many threads make the first call together, each singleton is
\* constructed once, before it is used (TaskDispPool.cpp:52-73,
\* ThreadPool.cpp:79-102).
THEOREM ConstructedOnce == Spec => []OneInstance
<1>1. IInv => OneInstance
  BY DEF IInv, Built, Doing, OneInstance
<1> QED BY <1>1, Invariance, PTL

\* A dispatcher has one user at a time, whatever the order in which the calls
\* of any number of threads pop and push it (ObjPool.hpp:121-204).
THEOREM OneUser == Spec => []GivenOnce
<1>1. IInv => GivenOnce
  BY DEF IInv, Known, Hands, GivenOnce, Carried
<1> QED BY <1>1, Invariance, PTL

\* _stack_all remembers every dispatcher but the ones that are being created,
\* also when a cell has been lacking (ObjPool.hpp:132-155).
THEOREM NoneForgotten == Spec => []AllKnown
<1>1. IInv => AllKnown
  <2> SUFFICES ASSUME IInv PROVE AllKnown
    OBVIOUS
  <2>1. \A t \in Thread : pc[t] \in {"cell", "remember"} => obj_ptr[t] \in alive \ stack_all
    BY DEF IInv, Hands, Making
  <2>2. \A d \in alive \ stack_all :
          \E t \in Thread : pc[t] \in {"cell", "remember"} /\ obj_ptr[t] = d
    BY DEF IInv, Known, Making
  <2>3. alive \ stack_all =
          {obj_ptr[t] : t \in {u \in Thread : pc[u] \in {"cell", "remember"}}}
    BY <2>1, <2>2
  <2> QED BY <2>3 DEF IInv, Known, AllKnown
<1> QED BY <1>1, Invariance, PTL

\* No cell leaks, on any path of take_obj and return_obj (ObjPool.hpp:160, 201).
THEOREM NoCellLeaks == Spec => []CellsBalanced
<1>1. IInv => CellsBalanced
  BY DEF IInv, Balanced, Celled, CellsBalanced
<1> QED BY <1>1, Invariance, PTL

\* The cleanup leaves no dispatcher and no cell behind, whatever has failed
\* before (ObjPool.hpp:221-270).
THEOREM NothingLeft == Spec => []CleanedUp
<1>1. IInv => CleanedUp
  BY DEF IInv, Over, CleanedUp
<1> QED BY <1>1, Invariance, PTL
=============================================================================
