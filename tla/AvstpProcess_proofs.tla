------------------------ MODULE AvstpProcess_proofs ------------------------
(***************************************************************************)
(* Proofs about AvstpProcess, for any number of plug-ins, of threads of    *)
(* the host, of copies of the library, of workers and of loads.  The       *)
(* invariant of the finder says which lock a plug-in holds at each line,   *)
(* and that the published path does not change any more once a plug-in has *)
(* got the mutex; that of the pools, that a pool which is not destroyed is *)
(* one of a copy that is still mapped.                                     *)
(***************************************************************************)
EXTENDS AvstpProcess, FiniteSetTheorems, TLAPS

Publishing == {"map", "copy", "unlock"}
Attaching == Publishing \cup {"create", "attached"}
Finding == {"wait", "read", "load", "release", "search", "own"}

\* Where each actor is in the code, and what it then refers to.
Places(p) ==
  /\ p \in Host => pc[p] \in Attaching \cup {"idle", "loaded", "free", "detach"}
  /\ pc[p] \in Attaching \cup {"loaded", "free"} => hnd[p] # None
  /\ pc[p] \in Finding \cup {"idle", "fallback", "detach"} => hnd[p] = None
  /\ fnc[p] = "normal" => pc[p] = "ready" /\ hnd[p] # None
  /\ pc[p] \in Attaching \cup {"detach"} <=> loader = p
  /\ pc[p] = "detach" => path[p] # None

\* The references to a copy are counted.
Counted == \A l \in Lib : refs[l] = Cardinality({p \in Actor : hnd[p] = l})

\* The lines at which the mutex is held.
Mutexed(p) ==
  /\ pc[p] \in Publishing \cup {"read", "load", "release"} => mutex = p
  /\ mutex = p => pc[p] \in Attaching \cup {"read", "load", "release", "loaded"}
  /\ mutex = p /\ p \in Host => pc[p] \in Publishing

\* What is published, read and loaded are copies that exist.
Exist ==
  /\ file = "blank" => \E p \in Actor : pc[p] = "copy"
  /\ file \in Lib => file \in copies
  /\ file # None => mutex # "absent"
  /\ \A p \in Actor : hnd[p] # None => hnd[p] \in copies
  /\ \A p \in Actor : pc[p] = "load" => path[p] \in copies

\* The path is published, or never will be.
Settled == mutex # "absent" /\ \A q \in Actor : pc[q] \notin Publishing

\* A plug-in that has met the mutex finds the path, or there is none.
Found(p) ==
  met[p] =>
    /\ p \in Plugin /\ mutex # "absent"
    /\ pc[p] \in Finding \cup {"create", "attached", "loaded", "fallback"}
    /\ pc[p] # "wait" => Settled
    /\ pc[p] = "load" => path[p] = file
    /\ pc[p] \in {"release", "search", "own", "fallback"} => file = None
    /\ pc[p] \in {"create", "attached", "loaded"} => file = None \/ hnd[p] = file

\* If there is a standard copy, which the standard search loads, and the host
\* loads none, it is the only one.
OnlyStd ==
  Std \in copies /\ (\A h \in Host : loads[h] = 0) /\ ~unnamed =>
    /\ \A h \in Host : pc[h] = "idle"
    /\ \A p \in Actor : hnd[p] \in {None, Std} /\ pc[p] # "own"
    /\ \A p \in Actor : pc[p] = "load" => path[p] = Std
    /\ file \in {None, "blank", Std}

FInv ==
  /\ FinderTypeOK
  /\ \A p \in Actor : Places(p) /\ Mutexed(p) /\ Found(p)
  /\ Counted /\ Exist /\ OnlyStd

Alive == {"up", "join", "test", "kill"}
Running == {"top", "work", "over"}

\* A pool lives in a copy that is mapped, and a worker runs in a pool that
\* lives, from the setting of its flag until its end or its death.
PInv ==
  /\ PoolTypeOK
  /\ \A l \in Lib : pool[l] \in Alive => Mapped(l)
  /\ \A l \in Lib, w \in Worker :
       wpc[l][w] \in Running =>
         /\ pool[l] \in Alive /\ run_flag[l][w]
         /\ w >= cnt[l]
  /\ \A l \in Lib : pool[l] \in {"test", "kill"} => cnt[l] \in Worker
  /\ \A l \in Lib, w \in Worker : pool[l] = "none" => wpc[l][w] = "none"

IInv == FInv /\ PInv
-----------------------------------------------------------------------------
(* References.                                                             *)

LEMMA ActorFacts ==
  /\ IsFiniteSet(Actor) /\ Cardinality(Actor) \in Nat
  /\ Plugin \subseteq Actor /\ Host \subseteq Actor /\ Plugin \cap Host = {}
  /\ None \notin Actor /\ "absent" \notin Actor
  /\ None \notin Lib /\ "blank" \notin Lib
  /\ None \notin {"blank", "absent", "normal", "fallback"}
  /\ Std \in Lib
<1>1. IsFiniteSet(Actor)
  BY ActorAssumption
<1>2. Cardinality(Actor) \in Nat
  BY <1>1, FS_CardinalityType
<1>3. None \notin Actor \cup Lib \cup {"blank", "absent", "normal", "fallback"}
      /\ "absent" \notin Actor
  BY ActorAssumption
<1> QED BY <1>1, <1>2, <1>3, ActorAssumption DEF Actor

\* The users of a copy.
Users(l) == {p \in Actor : hnd[p] = l}

LEMMA UsersFinite ==
  ASSUME NEW l
  PROVE  /\ IsFiniteSet(Users(l)) /\ Cardinality(Users(l)) \in 0 .. Cardinality(Actor)
         /\ Cardinality(Users(l)) = 0 <=> \A p \in Actor : hnd[p] # l
<1>1. Users(l) \subseteq Actor
  BY DEF Users
<1>2. IsFiniteSet(Users(l)) /\ Cardinality(Users(l)) <= Cardinality(Actor)
  BY <1>1, ActorFacts, FS_Subset
<1>3. Cardinality(Users(l)) \in Nat
  BY <1>2, FS_CardinalityType
<1>4. Cardinality(Users(l)) = 0 <=> Users(l) = {}
  BY <1>2, FS_EmptySet
<1> QED BY <1>2, <1>3, <1>4, ActorFacts DEF Users

\* A copy is referred to if and only if an actor has it.
LEMMA Referred ==
  ASSUME FInv, NEW l \in Lib
  PROVE  /\ refs[l] \in Nat
         /\ refs[l] > 0 <=> \E p \in Actor : hnd[p] = l
<1>1. refs[l] = Cardinality(Users(l))
  BY DEF FInv, Counted, Users
<1> QED BY <1>1, UsersFinite, ActorFacts

CountType == refs \in [Lib -> 0 .. Cardinality(Actor)] /\ Counted

LEMMA CountOne ==
  ASSUME FInv, NEW p \in Actor, NEW l \in Lib, hnd[p] = None,
         refs' = [refs EXCEPT ![l] = @ + 1], hnd' = [hnd EXCEPT ![p] = l]
  PROVE  CountType'
<1>1. \A k \in Lib : refs[k] = Cardinality(Users(k))
  BY DEF FInv, Counted, Users
<1>2. \A k \in Lib : k # l => Users(k)' = Users(k)
  BY ActorFacts DEF Users, FInv, FinderTypeOK
<1>3. Users(l)' = Users(l) \cup {p} /\ p \notin Users(l)
  BY ActorFacts DEF Users, FInv, FinderTypeOK
<1>4. Cardinality(Users(l) \cup {p}) = Cardinality(Users(l)) + 1
  BY <1>3, UsersFinite, FS_AddElement
<1>5. \A k \in Lib : refs'[k] = Cardinality(Users(k)')
  BY <1>1, <1>2, <1>3, <1>4 DEF FInv, FinderTypeOK
<1>6. \A k \in Lib : Cardinality(Users(k)') \in 0 .. Cardinality(Actor)
  <2> SUFFICES ASSUME NEW k \in Lib
               PROVE  Cardinality(Users(k)') \in 0 .. Cardinality(Actor)
    OBVIOUS
  <2>1. Users(k)' \subseteq Actor
    BY DEF Users
  <2>2. IsFiniteSet(Users(k)') /\ Cardinality(Users(k)') <= Cardinality(Actor)
    BY <2>1, ActorFacts, FS_Subset
  <2> QED BY <2>2, FS_CardinalityType, ActorFacts
<1> QED BY <1>5, <1>6 DEF CountType, Counted, Users, FInv, FinderTypeOK

LEMMA CountLess ==
  ASSUME FInv, NEW p \in Actor, NEW l \in Lib, hnd[p] = l,
         refs' = [refs EXCEPT ![l] = @ - 1], hnd' = [hnd EXCEPT ![p] = None]
  PROVE  CountType'
<1>1. \A k \in Lib : refs[k] = Cardinality(Users(k))
  BY DEF FInv, Counted, Users
<1>2. \A k \in Lib : k # l => Users(k)' = Users(k)
  BY ActorFacts DEF Users, FInv, FinderTypeOK
<1>3. Users(l)' = Users(l) \ {p} /\ p \in Users(l)
  BY ActorFacts DEF Users, FInv, FinderTypeOK
<1>4. Cardinality(Users(l) \ {p}) = Cardinality(Users(l)) - 1
  BY <1>3, UsersFinite, FS_RemoveElement
<1>5. \A k \in Lib : refs'[k] = Cardinality(Users(k)')
  BY <1>1, <1>2, <1>3, <1>4 DEF FInv, FinderTypeOK
<1>6. \A k \in Lib : Cardinality(Users(k)') \in 0 .. Cardinality(Actor)
  <2> SUFFICES ASSUME NEW k \in Lib
               PROVE  Cardinality(Users(k)') \in 0 .. Cardinality(Actor)
    OBVIOUS
  <2>1. Users(k)' \subseteq Actor
    BY DEF Users
  <2>2. IsFiniteSet(Users(k)') /\ Cardinality(Users(k)') <= Cardinality(Actor)
    BY <2>1, ActorFacts, FS_Subset
  <2> QED BY <2>2, FS_CardinalityType, ActorFacts
<1> QED BY <1>5, <1>6 DEF CountType, Counted, Users, FInv, FinderTypeOK

LEMMA CountSame ==
  ASSUME FInv, UNCHANGED <<refs, hnd>>
  PROVE  CountType'
BY DEF FInv, FinderTypeOK, CountType, Counted
-----------------------------------------------------------------------------
(* A step of one actor.                                                    *)

\* Actor p changes what is its own, and takes or releases a lock.
Frame(p) ==
  /\ copies' = copies /\ (unnamed => unnamed')
  /\ \A u \in Actor \ {p} :
       /\ pc'[u] = pc[u] /\ path'[u] = path[u] /\ hnd'[u] = hnd[u]
       /\ fnc'[u] = fnc[u] /\ met'[u] = met[u] /\ loads'[u] = loads[u]
       /\ loader' = u <=> loader = u
       /\ mutex' = u <=> mutex = u

\* It may publish a path if no plug-in relies on what it has found.
Publishes(p) ==
  \/ file' = file /\ (pc'[p] \in Publishing => pc[p] \in Publishing)
  \/ pc[p] \in Publishing
  \/ mutex = "absent"

\* What the others know is not affected.
LEMMA Others ==
  ASSUME FInv, NEW p \in Actor, Frame(p), Publishes(p),
         mutex' = "absent" => mutex = "absent",
         NEW u \in Actor \ {p}
  PROVE  Places(u)' /\ Mutexed(u)' /\ Found(u)'
<1>1. Places(u) /\ Mutexed(u) /\ Found(u)
  BY DEF FInv
<1>2. Places(u)'
  BY <1>1 DEF Frame, Places
<1>3. Mutexed(u)'
  BY <1>1 DEF Frame, Mutexed
<1>4. Settled => Settled' /\ file' = file
  BY DEF Settled, Publishes, Frame
<1>5. Found(u)'
  <2> SUFFICES ASSUME met[u] PROVE Found(u)'
    BY DEF Frame, Found
  <2>1. mutex' # "absent"
    BY <1>1 DEF Found
  <2>2. CASE pc[u] = "wait"
    BY <1>1, <2>1, <2>2 DEF Found, Frame
  <2>3. CASE pc[u] # "wait"
    BY <1>1, <1>4, <2>1, <2>3 DEF Found, Frame
  <2> QED BY <2>2, <2>3
<1> QED BY <1>2, <1>3, <1>5

\* The file stays, and so do the copies.
LEMMA ExistKept ==
  ASSUME FInv, NEW p \in Actor, Frame(p), file' = file, pc[p] # "copy",
         mutex' = "absent" => mutex = "absent",
         hnd'[p] # None => hnd'[p] \in copies,
         pc'[p] = "load" => path'[p] \in copies
  PROVE  Exist'
<1>1. file' = "blank" => \E q \in Actor : pc'[q] = "copy"
  BY DEF FInv, Exist, Frame
<1> QED BY <1>1 DEF FInv, Exist, Frame

LEMMA StdKept ==
  ASSUME FInv, NEW p \in Actor, Frame(p),
         Std \in copies /\ (\A h \in Host : loads'[h] = 0) /\ ~unnamed' =>
           /\ loads[p] = 0 \/ p \notin Host
           /\ p \in Host => pc'[p] = "idle"
           /\ hnd'[p] \in {None, Std} /\ pc'[p] # "own"
           /\ pc'[p] = "load" => path'[p] = Std
           /\ file' \in {None, "blank", Std}
  PROVE  OnlyStd'
<1> SUFFICES ASSUME Std \in copies', \A h \in Host : loads'[h] = 0, ~unnamed'
             PROVE  /\ \A h \in Host : pc'[h] = "idle"
                    /\ \A q \in Actor : hnd'[q] \in {None, Std} /\ pc'[q] # "own"
                    /\ \A q \in Actor : pc'[q] = "load" => path'[q] = Std
                    /\ file' \in {None, "blank", Std}
  BY DEF OnlyStd
<1>1. Std \in copies /\ (\A h \in Host : loads[h] = 0) /\ ~unnamed
  BY ActorFacts DEF Frame
<1> QED BY <1>1, ActorFacts DEF FInv, OnlyStd, Frame

LEMMA StepInv ==
  ASSUME FInv, NEW p \in Actor, Frame(p), Publishes(p),
         mutex' = "absent" => mutex = "absent",
         FinderTypeOK', CountType', Exist', OnlyStd',
         Places(p)', Mutexed(p)', Found(p)'
  PROVE  FInv'
<1>1. \A u \in Actor : Places(u)' /\ Mutexed(u)' /\ Found(u)'
  BY Others
<1> QED BY <1>1 DEF FInv, CountType
-----------------------------------------------------------------------------
(* The steps of the finder.                                                *)

\* The lines of publish_lib, under the lock of the loader.
LEMMA PublishInv ==
  ASSUME FInv, NEW p \in Actor,
         CreateMutex(p) \/ MapFile(p) \/ CopyPath(p)
         \/ ReleaseNew(p) \/ EndAttach(p)
  PROVE  FInv'
<1>0. FinderTypeOK /\ Places(p) /\ Mutexed(p) /\ Found(p) /\ Exist /\ OnlyStd
  BY DEF FInv
<1> USE <1>0, ActorFacts
    DEF CreateMutex, Absent, NewOwner, MapFile, CopyPath, ReleaseNew, EndAttach,
        Goto, FinderTypeOK
<1>1. Frame(p)
  BY DEF Frame, Places, Mutexed, Attaching, Publishing
<1>2. FinderTypeOK'
  OBVIOUS
<1>3. CountType'
  BY CountSame
<1>4. Publishes(p) /\ (mutex' = "absent" => mutex = "absent")
  BY DEF Publishes, Publishing
<1>5. Places(p)'
  BY DEF Places, Attaching, Publishing, Finding
<1>6. Mutexed(p)'
  BY DEF Mutexed, Attaching, Publishing, Places
<1>7. Found(p)'
  BY DEF Found, Finding, Settled, Publishing, Mutexed, Places, Attaching
<1>8. Exist'
  BY <1>1, ExistKept DEF Exist, Places, Attaching, Publishing, Finding, Mutexed
<1>9. OnlyStd'
  BY <1>1, StdKept DEF OnlyStd, Places, Finding, Attaching, Publishing
<1> QED BY <1>1, <1>2, <1>3, <1>4, <1>5, <1>6, <1>7, <1>8, <1>9, StepInv

LEMMA OpenMutexInv == ASSUME FInv, NEW p \in Actor, OpenMutex(p) PROVE FInv'
<1>0. FinderTypeOK /\ Places(p) /\ Mutexed(p) /\ Found(p) /\ Exist /\ OnlyStd
  BY DEF FInv
<1> USE <1>0, ActorFacts DEF OpenMutex, sharedVars, Goto, FinderTypeOK
<1>1. Frame(p)
  BY DEF Frame, Places, Mutexed, Attaching, Publishing
<1>2. FinderTypeOK'
  <2>1. loads' \in [Actor -> 0 .. MaxLoads] /\ UNCHANGED unnamed
    BY ActorAssumption
  <2>2. met' \in [Actor -> BOOLEAN]
    OBVIOUS
  <2> QED BY <2>1, <2>2
<1>3. CountType'
  BY CountSame
<1>4. Publishes(p) /\ (mutex' = "absent" => mutex = "absent")
  BY DEF Publishes, Publishing
<1>5. Places(p)'
  BY DEF Places, Attaching, Publishing, Finding
<1>6. Mutexed(p)'
  BY DEF Mutexed, Attaching, Publishing, Places
<1>7. Found(p)'
  BY DEF Found, Finding, Settled, Publishing, Mutexed, Places, Attaching
<1>8. Exist'
  BY <1>1, ExistKept DEF Exist, Places, Attaching, Publishing, Finding, Mutexed
<1>9. OnlyStd'
  BY <1>1, StdKept DEF OnlyStd, Places, Finding, Attaching, Publishing
<1> QED BY <1>1, <1>2, <1>3, <1>4, <1>5, <1>6, <1>7, <1>8, <1>9, StepInv

LEMMA AcquireMutexInv == ASSUME FInv, NEW p \in Actor, AcquireMutex(p) PROVE FInv'
<1>0. FinderTypeOK /\ Places(p) /\ Mutexed(p) /\ Found(p) /\ Exist /\ OnlyStd
  BY DEF FInv
<1> USE <1>0, ActorFacts DEF AcquireMutex, Goto, FinderTypeOK
<1>1. Frame(p)
  BY DEF Frame, Places, Mutexed, Attaching, Publishing
<1>2. FinderTypeOK'
  OBVIOUS
<1>3. CountType'
  BY CountSame
<1>4. Publishes(p) /\ (mutex' = "absent" => mutex = "absent")
  BY DEF Publishes, Publishing
<1>5. Places(p)'
  BY DEF Places, Attaching, Publishing, Finding
<1>6. Mutexed(p)'
  BY DEF Mutexed, Attaching, Publishing, Places
<1>7. Found(p)'
  <2>1. \A q \in Actor : pc'[q] \notin Publishing
    BY DEF FInv, Mutexed, Publishing
  <2> QED BY <2>1 DEF Found, Finding, Settled
<1>8. Exist'
  BY <1>1, ExistKept DEF Exist, Places, Attaching, Publishing, Finding, Mutexed
<1>9. OnlyStd'
  BY <1>1, StdKept DEF OnlyStd, Places, Finding, Attaching, Publishing
<1> QED BY <1>1, <1>2, <1>3, <1>4, <1>5, <1>6, <1>7, <1>8, <1>9, StepInv

LEMMA WaitFailsInv == ASSUME FInv, NEW p \in Actor, WaitFails(p) PROVE FInv'
<1>0. FinderTypeOK /\ Places(p) /\ Mutexed(p) /\ Found(p) /\ Exist /\ OnlyStd
  BY DEF FInv
<1> USE <1>0, ActorFacts DEF WaitFails, Fails, sharedVars, Goto, FinderTypeOK
<1>1. Frame(p)
  BY DEF Frame, Places, Mutexed, Attaching, Publishing
<1>2. FinderTypeOK'
  OBVIOUS
<1>3. CountType'
  BY CountSame
<1>4. Publishes(p) /\ (mutex' = "absent" => mutex = "absent")
  BY DEF Publishes, Publishing
<1>5. Places(p)'
  BY DEF Places, Attaching, Publishing, Finding
<1>6. Mutexed(p)'
  BY DEF Mutexed, Attaching, Publishing, Places
<1>7. Found(p)'
  BY DEF Found
<1>8. Exist'
  BY <1>1, ExistKept DEF Exist, Places, Attaching, Publishing, Finding, Mutexed
<1>9. OnlyStd'
  BY <1>1, StdKept DEF OnlyStd, Places, Finding, Attaching, Publishing
<1> QED BY <1>1, <1>2, <1>3, <1>4, <1>5, <1>6, <1>7, <1>8, <1>9, StepInv

LEMMA ReadPathInv == ASSUME FInv, NEW p \in Actor, ReadPath(p) PROVE FInv'
<1>0. FinderTypeOK /\ Places(p) /\ Mutexed(p) /\ Found(p) /\ Exist /\ OnlyStd
  BY DEF FInv
<1> USE <1>0, ActorFacts DEF ReadPath, Fails, sharedVars, Goto, FinderTypeOK
<1>1. Frame(p)
  BY DEF Frame, Places, Mutexed, Attaching, Publishing
<1>10. file # "blank"
  BY DEF FInv, Exist, Mutexed, Publishing
<1>2. FinderTypeOK'
  <2>1. met' \in [Actor -> BOOLEAN]
    OBVIOUS
  <2>2. path' \in [Actor -> Lib \cup {None}]
    BY <1>10
  <2>3. UNCHANGED <<unnamed, copies, refs, loader, mutex, file, hnd, fnc, loads>>
    OBVIOUS
  <2>4. pc' = [pc EXCEPT ![p] = "load"] \/ pc' = [pc EXCEPT ![p] = "release"]
    OBVIOUS
  <2> QED BY <2>1, <2>2, <2>3, <2>4
<1>3. CountType'
  BY CountSame
<1>4. Publishes(p) /\ (mutex' = "absent" => mutex = "absent")
  BY DEF Publishes, Publishing
<1>5. Places(p)'
  BY DEF Places, Attaching, Publishing, Finding
<1>6. Mutexed(p)'
  BY DEF Mutexed, Attaching, Publishing, Places
<1>7. Found(p)'
  BY DEF Found, Finding, Settled, Publishing, Mutexed, Places, Attaching
<1>8. Exist'
  BY <1>1, <1>10, ExistKept DEF Exist, Places, Finding
<1>9. OnlyStd'
  BY <1>1, <1>10, StdKept DEF OnlyStd, Places, Finding, Attaching, Publishing
<1> QED BY <1>1, <1>2, <1>3, <1>4, <1>5, <1>6, <1>7, <1>8, <1>9, StepInv

LEMMA ReleaseMutexInv == ASSUME FInv, NEW p \in Actor, ReleaseMutex(p) PROVE FInv'
<1>0. FinderTypeOK /\ Places(p) /\ Mutexed(p) /\ Found(p) /\ Exist /\ OnlyStd
  BY DEF FInv
<1> USE <1>0, ActorFacts DEF ReleaseMutex, Holds, Goto, FinderTypeOK
<1>1. Frame(p)
  BY DEF Frame, Places, Mutexed, Attaching, Publishing
<1>2. FinderTypeOK'
  OBVIOUS
<1>3. CountType'
  BY CountSame
<1>4. Publishes(p) /\ (mutex' = "absent" => mutex = "absent")
  BY DEF Publishes, Publishing
<1>5. Places(p)'
  BY DEF Places, Attaching, Publishing, Finding
<1>6. Mutexed(p)'
  BY DEF Mutexed, Attaching, Publishing, Places
<1>7. Found(p)'
  BY DEF Found, Finding, Settled, Publishing, Mutexed, Places, Attaching
<1>8. Exist'
  BY <1>1, ExistKept DEF Exist, Places, Attaching, Publishing, Finding, Mutexed
<1>9. OnlyStd'
  BY <1>1, StdKept DEF OnlyStd, Places, Finding, Attaching, Publishing
<1> QED BY <1>1, <1>2, <1>3, <1>4, <1>5, <1>6, <1>7, <1>8, <1>9, StepInv

\* What the wrapper and the host do with what is loaded.
LEMMA WrapperInv ==
  ASSUME FInv, NEW p \in Actor,
         AssignNormal(p) \/ AssignFallback(p) \/ Destroy(p)
         \/ HostFree(p) \/ EndDetach(p)
  PROVE  FInv'
<1>0. FinderTypeOK /\ Places(p) /\ Mutexed(p) /\ Found(p) /\ Exist /\ OnlyStd
  BY DEF FInv
<1> USE <1>0, ActorFacts
    DEF AssignNormal, GiveUp, Holds, AssignFallback, Destroy, HostFree, EndDetach,
        Goto, FinderTypeOK, sharedVars
<1>1. Frame(p)
  BY DEF Frame, Places, Mutexed, Attaching, Publishing
<1>2. FinderTypeOK'
  <2>1. CASE AssignNormal(p)
    BY <2>1
  <2>2. CASE AssignFallback(p)
    BY <2>2
  <2>3. CASE Destroy(p)
    BY <2>3
  <2>4. CASE HostFree(p) \/ EndDetach(p)
    BY <2>4
  <2> QED BY <2>1, <2>2, <2>3, <2>4
<1>3. CountType'
  BY CountSame
<1>4. Publishes(p) /\ (mutex' = "absent" => mutex = "absent")
  BY DEF Publishes, Publishing
<1>5. Places(p)'
  BY DEF Places, Attaching, Publishing, Finding
<1>6. Mutexed(p)'
  BY DEF Mutexed, Attaching, Publishing, Places
<1>7. Found(p)'
  BY DEF Found, Finding, Settled, Publishing, Mutexed, Places, Attaching
<1>8. Exist'
  BY <1>1, ExistKept DEF Exist, Places, Attaching, Publishing, Finding, Mutexed
<1>9. OnlyStd'
  BY <1>1, StdKept DEF OnlyStd, Places, Finding, Attaching, Publishing
<1> QED BY <1>1, <1>2, <1>3, <1>4, <1>5, <1>6, <1>7, <1>8, <1>9, StepInv

\* An actor that has no copy gets a reference to l.
LEMMA LoadInv ==
  ASSUME FInv, NEW p \in Actor, NEW l \in copies, Load(p, l),
         UNCHANGED <<copies, unnamed, mutex, file, fnc, met>>,
         pc[p] \in {"load", "search", "own"} \/ (p \in Host /\ pc[p] = "idle"),
         path' \in [Actor -> Lib \cup {None}],
         loads' \in [Actor -> 0 .. MaxLoads],
         \A u \in Actor \ {p} : path'[u] = path[u] /\ loads'[u] = loads[u],
         met[p] => file = None \/ l = file,
         Std \in copies /\ (\A h \in Host : loads'[h] = 0) /\ ~unnamed =>
           p \notin Host /\ l = Std
  PROVE  FInv'
<1>0. FinderTypeOK /\ Places(p) /\ Mutexed(p) /\ Found(p) /\ Exist /\ OnlyStd
  BY DEF FInv
<1> USE <1>0, ActorFacts DEF Load, LoaderFree, Goto, FinderTypeOK
<1>a. l \in Lib /\ hnd[p] = None
  BY DEF Places, Finding
<1>1. Frame(p)
  BY DEF Frame, Places, Mutexed, Attaching, Publishing
<1>3. CountType'
  BY <1>a, CountOne
<1>2. FinderTypeOK'
  BY <1>a, <1>3 DEF CountType
<1>4. Publishes(p) /\ (mutex' = "absent" => mutex = "absent")
  BY DEF Publishes, Publishing
<1>5. Places(p)'
  BY <1>a DEF Places, Attaching, Publishing, Finding
<1>6. Mutexed(p)'
  BY DEF Mutexed, Attaching, Publishing, Places
<1>7. Found(p)'
  BY <1>a DEF Found, Finding, Settled, Publishing, Mutexed, Places, Attaching
<1>8. Exist'
  BY <1>a, <1>1, ExistKept DEF Exist
<1>9. OnlyStd'
  BY <1>a, <1>1, StdKept DEF OnlyStd
<1> QED BY <1>1, <1>2, <1>3, <1>4, <1>5, <1>6, <1>7, <1>8, <1>9, StepInv

\* A copy that is loaded exists; without the host it is the standard one.
LEMMA LoadedFacts ==
  ASSUME FInv, NEW l \in Loaded
  PROVE  /\ l \in copies /\ l \in Lib
         /\ Std \in copies /\ (\A h \in Host : loads[h] = 0) /\ ~unnamed => l = Std
<1>1. l \in Lib /\ refs[l] > 0
  BY DEF Loaded
<1>2. PICK p \in Actor : hnd[p] = l
  BY <1>1, Referred
<1> QED BY <1>1, <1>2, ActorFacts DEF FInv, Exist, OnlyStd

LEMMA LoadPathInv == ASSUME FInv, NEW p \in Actor, LoadPath(p) PROVE FInv'
<1>0. FinderTypeOK /\ Places(p) /\ Mutexed(p) /\ Found(p) /\ Exist /\ OnlyStd
  BY DEF FInv
<1>1. pc[p] = "load" /\ path[p] \in copies
  BY <1>0 DEF LoadPath, Exist
<1>2. CASE Load(p, path[p]) /\ UNCHANGED met
  <2>1. p \notin Host
    BY <1>0, <1>1 DEF Places, Attaching, Publishing
  <2>2. Std \in copies /\ (\A h \in Host : loads'[h] = 0) /\ ~unnamed => path[p] = Std
    BY <1>1 DEF FInv, OnlyStd, LoadPath
  <2>3. met[p] => path[p] = file
    BY <1>0, <1>1 DEF Found
  <2> QED BY <1>0, <1>1, <1>2, <2>1, <2>2, <2>3, LoadInv DEF LoadPath, FinderTypeOK
<1>3. CASE Fails(p, "release") /\ UNCHANGED <<refs, loader, hnd>>
  <2> USE <1>0, <1>1, <1>3, ActorFacts DEF LoadPath, Fails, Goto, FinderTypeOK
  <2>1. Frame(p)
    BY DEF Frame, Places, Mutexed, Attaching, Publishing
  <2>2. FinderTypeOK'
    OBVIOUS
  <2>3. CountType'
    BY CountSame
  <2>4. Publishes(p) /\ (mutex' = "absent" => mutex = "absent")
    BY DEF Publishes, Publishing
  <2>5. Places(p)'
    BY DEF Places, Attaching, Publishing, Finding
  <2>6. Mutexed(p)'
    BY DEF Mutexed, Attaching, Publishing, Places
  <2>7. Found(p)'
    BY DEF Found
  <2>8. Exist'
    BY <2>1, ExistKept DEF Exist, Places, Finding
  <2>9. OnlyStd'
    BY <2>1, StdKept DEF OnlyStd, Places, Finding, Attaching, Publishing
  <2> QED BY <2>1, <2>2, <2>3, <2>4, <2>5, <2>6, <2>7, <2>8, <2>9, StepInv
<1> QED BY <1>2, <1>3 DEF LoadPath

LEMMA SearchInv == ASSUME FInv, NEW p \in Actor, Search(p) PROVE FInv'
<1>0. FinderTypeOK /\ Places(p) /\ Mutexed(p) /\ Found(p) /\ Exist /\ OnlyStd
  BY DEF FInv
<1>1. pc[p] = "search" /\ p \notin Host
  BY <1>0 DEF Search, Places, Attaching, Publishing
<1>2. ASSUME NEW l \in ByName, Load(p, l), UNCHANGED unnamed PROVE FInv'
  <2>1. l \in copies
    BY <1>2, LoadedFacts DEF ByName
  <2>2. Std \in copies /\ (\A h \in Host : loads[h] = 0) /\ ~unnamed => l = Std
    BY <1>2, LoadedFacts DEF ByName
  <2>3. met[p] => file = None
    BY <1>0, <1>1 DEF Found
  <2>4. UNCHANGED <<copies, mutex, file, path, fnc, met, loads>>
    BY DEF Search
  <2> QED BY <1>0, <1>1, <1>2, <2>1, <2>2, <2>3, <2>4, LoadInv DEF FinderTypeOK
<1>3. CASE /\ LoaderFree /\ Goto(p, "own")
           /\ unnamed' = (unnamed \/ ByName # {})
           /\ UNCHANGED <<refs, loader, hnd>>
  <2> USE <1>0, <1>1, <1>3, ActorFacts DEF Search, Goto, FinderTypeOK
  <2>1. Frame(p)
    BY DEF Frame, Places, Mutexed, Attaching, Publishing
  <2>2. FinderTypeOK'
    OBVIOUS
  <2>3. CountType'
    BY CountSame
  <2>4. Publishes(p) /\ (mutex' = "absent" => mutex = "absent")
    BY DEF Publishes, Publishing
  <2>5. Places(p)'
    BY DEF Places, Attaching, Publishing, Finding
  <2>6. Mutexed(p)'
    BY DEF Mutexed, Attaching, Publishing, Places
  <2>7. Found(p)'
    BY DEF Found, Finding, Settled, Publishing
  <2>8. Exist'
    BY <2>1, ExistKept DEF Exist, Places, Finding
  <2>9. OnlyStd'
    <3>1. ~unnamed' => Std \notin copies
      BY DEF ByName
    <3> QED BY <3>1 DEF OnlyStd
  <2> QED BY <2>1, <2>2, <2>3, <2>4, <2>5, <2>6, <2>7, <2>8, <2>9, StepInv
<1> QED BY <1>2, <1>3 DEF Search

LEMMA LoadOwnInv == ASSUME FInv, NEW p \in Actor, LoadOwn(p) PROVE FInv'
<1>0. FinderTypeOK /\ Places(p) /\ Mutexed(p) /\ Found(p) /\ Exist /\ OnlyStd
  BY DEF FInv
<1>1. pc[p] = "own" /\ p \notin Host
  BY <1>0 DEF LoadOwn, Places, Attaching, Publishing
<1>2. ASSUME NEW l \in copies, Load(p, l) PROVE FInv'
  <2>1. ~(Std \in copies /\ (\A h \in Host : loads[h] = 0) /\ ~unnamed)
    BY <1>0, <1>1 DEF OnlyStd
  <2>2. met[p] => file = None
    BY <1>0, <1>1 DEF Found
  <2>3. UNCHANGED <<copies, unnamed, mutex, file, path, fnc, met, loads>>
    BY DEF LoadOwn
  <2> QED BY <1>0, <1>1, <1>2, <2>1, <2>2, <2>3, LoadInv DEF FinderTypeOK
<1>3. CASE Goto(p, "fallback") /\ UNCHANGED <<refs, loader, hnd>>
  <2> USE <1>0, <1>1, <1>3, ActorFacts DEF LoadOwn, Goto, FinderTypeOK
  <2>1. Frame(p)
    BY DEF Frame, Places, Mutexed, Attaching, Publishing
  <2>2. FinderTypeOK'
    OBVIOUS
  <2>3. CountType'
    BY CountSame
  <2>4. Publishes(p) /\ (mutex' = "absent" => mutex = "absent")
    BY DEF Publishes, Publishing
  <2>5. Places(p)'
    BY DEF Places, Attaching, Publishing, Finding
  <2>6. Mutexed(p)'
    BY DEF Mutexed, Attaching, Publishing, Places
  <2>7. Found(p)'
    BY DEF Found, Finding, Settled, Publishing
  <2>8. Exist'
    BY <2>1, ExistKept DEF Exist, Places, Finding
  <2>9. OnlyStd'
    BY DEF OnlyStd
  <2> QED BY <2>1, <2>2, <2>3, <2>4, <2>5, <2>6, <2>7, <2>8, <2>9, StepInv
<1> QED BY <1>2, <1>3 DEF LoadOwn

LEMMA HostLoadInv == ASSUME FInv, NEW p \in Actor, HostLoad(p) PROVE FInv'
<1>1. FinderTypeOK /\ p \in Host /\ pc[p] = "idle" /\ loads[p] < MaxLoads
  BY DEF FInv, HostLoad
<1>2. loads' \in [Actor -> 0 .. MaxLoads] /\ loads'[p] # 0
      /\ \A u \in Actor \ {p} : loads'[u] = loads[u]
  BY <1>1, ActorAssumption DEF HostLoad, FinderTypeOK
<1>3. ~met[p]
  BY <1>1, ActorFacts DEF FInv, Found
<1>4. PICK l \in copies : Load(p, l)
  BY DEF HostLoad
<1> QED BY <1>1, <1>2, <1>3, <1>4, LoadInv DEF HostLoad, FinderTypeOK

LEMMA FreeInv == ASSUME FInv, NEW p \in Actor, Free(p) PROVE FInv'
<1>0. FinderTypeOK /\ Places(p) /\ Mutexed(p) /\ Found(p) /\ Exist /\ OnlyStd
  BY DEF FInv
<1> USE <1>0, ActorFacts DEF Free, LoaderFree, Goto, FinderTypeOK
<1>a. hnd[p] \in Lib /\ hnd[p] # None
  BY DEF Places
<1>1. Frame(p)
  BY DEF Frame, Places, Mutexed, Attaching, Publishing
<1>3. CountType'
  BY <1>a, CountLess
<1>2. FinderTypeOK'
  BY <1>a, <1>3 DEF CountType
<1>4. Publishes(p) /\ (mutex' = "absent" => mutex = "absent")
  BY DEF Publishes, Publishing
<1>5. Places(p)'
  BY <1>a DEF Places, Attaching, Publishing, Finding
<1>6. Mutexed(p)'
  BY DEF Mutexed, Attaching, Publishing, Places
<1>7. Found(p)'
  BY DEF Found, Finding, Attaching, Publishing
<1>8. Exist'
  BY <1>1, ExistKept DEF Exist, Places, Attaching, Publishing, Finding, Mutexed
<1>9. OnlyStd'
  BY <1>1, StdKept DEF OnlyStd, Places, Finding, Attaching, Publishing
<1> QED BY <1>1, <1>2, <1>3, <1>4, <1>5, <1>6, <1>7, <1>8, <1>9, StepInv

LEMMA FinderInitInv == FinderInit => FInv
<1> SUFFICES ASSUME FinderInit PROVE FInv
  OBVIOUS
<1> USE ActorFacts DEF FinderInit
<1>1. \A l \in Lib : Cardinality(Users(l)) = 0
  BY UsersFinite
<1>2. Counted
  BY <1>1 DEF Counted, Users
<1>3. FinderTypeOK
  <2>1. unnamed \in BOOLEAN /\ met \in [Actor -> BOOLEAN]
    OBVIOUS
  <2> QED BY <2>1, ActorAssumption DEF FinderTypeOK
<1>4. \A p \in Actor : Places(p) /\ Mutexed(p) /\ Found(p)
  BY DEF Places, Mutexed, Found, Attaching, Publishing, Finding
<1>5. Exist /\ OnlyStd
  BY DEF Exist, OnlyStd
<1> QED BY <1>2, <1>3, <1>4, <1>5 DEF FInv

\* Every step of the finder preserves its invariant.
LEMMA FinderStepInv ==
  ASSUME FInv, NEW p \in Actor, Decide(p) \/ Continue(p) \/ EndDetach(p)
  PROVE  FInv'
BY PublishInv, OpenMutexInv, AcquireMutexInv, WaitFailsInv, ReadPathInv,
   LoadPathInv, ReleaseMutexInv, SearchInv, LoadOwnInv, WrapperInv, FreeInv, HostLoadInv
   DEF Decide, Continue
-----------------------------------------------------------------------------
(* The pools.                                                              *)

\* The copy an actor uses is mapped.
LEMMA UsedIsMapped ==
  ASSUME FInv, NEW p \in Actor, hnd[p] # None
  PROVE  hnd[p] \in Lib /\ Mapped(hnd[p])
<1>1. hnd[p] \in Lib
  BY DEF FInv, FinderTypeOK
<1> QED BY <1>1, Referred DEF Mapped

\* Only the end of an unloading unmaps a copy.
LEMMA MappedKept ==
  ASSUME FInv, NEW p \in Actor, Decide(p) \/ Continue(p), NEW l \in Lib, Mapped(l)
  PROVE  Mapped(l)'
<1>0. FinderTypeOK /\ Places(p)
  BY DEF FInv
<1> USE <1>0, ActorFacts DEF FinderTypeOK, Goto
<1>1. ASSUME NEW k \in Lib, Load(p, k), pc[p] # "detach",
             \A u \in Actor \ {p} : path'[u] = path[u]
      PROVE  Mapped(l)'
  BY <1>1 DEF Mapped, Load
<1>2. ASSUME refs' = refs, pc[p] # "detach",
             \A u \in Actor \ {p} : pc'[u] = pc[u] /\ path'[u] = path[u]
      PROVE  Mapped(l)'
  BY <1>2 DEF Mapped
<1>3. CASE Free(p)
  <2>1. hnd[p] \in Lib /\ pc[p] = "free" /\ loader = None
    BY <1>3 DEF Free, Places, LoaderFree
  <2>2. \A u \in Actor : pc[u] # "detach"
    BY <2>1 DEF FInv, Places
  <2>3. refs[l] > 0
    BY <2>2 DEF Mapped
  <2>4. CASE l = hnd[p] /\ refs[l] = 1
    BY <1>3, <2>1, <2>4 DEF Free, Mapped
  <2>5. CASE l # hnd[p] \/ refs[l] # 1
    BY <1>3, <2>1, <2>3, <2>5 DEF Free, Mapped
  <2> QED BY <2>4, <2>5
<1>4. CASE LoadPath(p)
  <2>1. CASE Load(p, path[p])
    BY <1>1, <1>4, <2>1 DEF FInv, Exist, LoadPath
  <2>2. CASE UNCHANGED <<refs, loader, hnd>> /\ Fails(p, "release")
    BY <1>2, <1>4, <2>2 DEF LoadPath, Fails
  <2> QED BY <1>4, <2>1, <2>2 DEF LoadPath
<1>5. CASE Search(p)
  <2>1. CASE \E k \in ByName : Load(p, k)
    BY <1>1, <1>5, <2>1 DEF Search, ByName, Loaded
  <2>2. CASE Goto(p, "own") /\ UNCHANGED <<refs, loader, hnd>>
    BY <1>2, <1>5, <2>2 DEF Search
  <2> QED BY <1>5, <2>1, <2>2 DEF Search
<1>6. CASE LoadOwn(p)
  <2>1. CASE \E k \in copies : Load(p, k)
    BY <1>1, <1>6, <2>1 DEF LoadOwn
  <2>2. CASE Goto(p, "fallback") /\ UNCHANGED <<refs, loader, hnd>>
    BY <1>2, <1>6, <2>2 DEF LoadOwn
  <2> QED BY <1>6, <2>1, <2>2 DEF LoadOwn
<1>7. CASE HostLoad(p)
  BY <1>1, <1>7 DEF HostLoad
<1>8. CASE CreateMutex(p) \/ MapFile(p) \/ CopyPath(p) \/ ReleaseNew(p) \/ EndAttach(p)
  BY <1>2, <1>8 DEF CreateMutex, MapFile, CopyPath, ReleaseNew, EndAttach
<1>9. CASE OpenMutex(p) \/ AcquireMutex(p) \/ WaitFails(p) \/ ReadPath(p)
           \/ ReleaseMutex(p)
  BY <1>2, <1>9 DEF OpenMutex, AcquireMutex, WaitFails, Fails, ReadPath, ReleaseMutex,
     sharedVars
<1>10. CASE AssignNormal(p)
  <2>1. refs' = refs /\ path' = path /\ pc[p] = "loaded"
    BY <1>10 DEF AssignNormal, sharedVars
  <2>2. \A u \in Actor \ {p} : pc'[u] = pc[u]
    BY <1>10 DEF AssignNormal, GiveUp
  <2> QED BY <1>2, <2>1, <2>2
<1>11. CASE AssignFallback(p) \/ Destroy(p) \/ HostFree(p)
  BY <1>2, <1>11 DEF AssignFallback, Destroy, HostFree, sharedVars
<1> QED BY <1>11, <1>3, <1>4, <1>5, <1>6, <1>7, <1>8, <1>9, <1>10 DEF Decide, Continue

LEMMA UnloadKept ==
  ASSUME IInv, NEW p \in Actor, EndDetach(p), pool[path[p]] \in {"none", "freed"},
         NEW l \in Lib, pool[l] \in Alive
  PROVE  Mapped(l)'
<1>1. Mapped(l) /\ FinderTypeOK /\ l # path[p]
  BY DEF IInv, PInv, FInv, Alive
<1> QED BY <1>1 DEF Mapped, EndDetach, FinderTypeOK, Goto

\* A step of the finder leaves the pools alone.
LEMMA PoolsKept ==
  ASSUME PInv, UNCHANGED poolVars, \A l \in Lib : pool[l] \in Alive => Mapped(l)'
  PROVE  PInv'
BY DEF PInv, PoolTypeOK, poolVars

LEMMA PoolInitInv == ASSUME PoolInit PROVE PInv
<1>1. PoolTypeOK
  BY WorkerAssumption DEF PoolInit, PoolTypeOK
<1> QED BY <1>1 DEF PoolInit, PInv, Alive, Running

\* A pool is created or reduced in a copy that is used.
LEMMA CreatePoolInv ==
  ASSUME PInv, NEW l \in Lib, Mapped(l), CreatePool(l), UNCHANGED finderVars
  PROVE  PInv'
<1>1. \A k \in Lib : Mapped(k) <=> Mapped(k)'
  BY DEF finderVars, Mapped
<1>2. PoolTypeOK /\ PoolTypeOK'
  BY DEF PInv, PoolTypeOK, CreatePool, SetPool
<1> QED BY <1>1, <1>2 DEF PInv, PoolTypeOK, CreatePool, SetPool, Alive, Running

LEMMA ReduceInv ==
  ASSUME PInv, NEW l \in Lib, NEW w \in Worker, Reduce(l, w), UNCHANGED finderVars
  PROVE  PInv'
<1>1. \A k \in Lib : Mapped(k) <=> Mapped(k)'
  BY DEF finderVars, Mapped
<1>2. PoolTypeOK /\ PoolTypeOK'
  BY DEF PInv, PoolTypeOK, Reduce
<1> QED BY <1>1, <1>2 DEF PInv, PoolTypeOK, Reduce

\* The destructor frees the pool when the loop has seen every worker, and
\* goes past a worker that does not run, or that it kills.
LEMMA DestructorInv ==
  ASSUME PInv, NEW l \in Lib, Destructor(l), UNCHANGED finderVars
  PROVE  PInv'
<1>1. \A k \in Lib : Mapped(k) <=> Mapped(k)'
  BY DEF finderVars, Mapped
<1>0. PoolTypeOK /\ NbrWorkers \in Nat
  BY WorkerAssumption DEF PInv
<1> USE <1>0 DEF PoolTypeOK, SetPool, Worker
<1>2. CASE AskAll(l)
  <2>1. PoolTypeOK'
    BY <1>2 DEF AskAll
  <2> QED BY <1>1, <1>2, <2>1 DEF PInv, AskAll, Alive
<1>3. CASE WaitForDeath(l)
  <2>1. PoolTypeOK'
    BY <1>3 DEF WaitForDeath
  <2> QED BY <1>1, <1>3, <2>1 DEF PInv, WaitForDeath, Alive
<1>4. CASE TestRunFlag(l)
  <2>1. cnt[l] \in Worker
    BY <1>4 DEF PInv, TestRunFlag
  <2>a. cnt' = cnt \/ (cnt' = [cnt EXCEPT ![l] = @ + 1] /\ ~run_flag[l][cnt[l]])
    BY <1>4 DEF TestRunFlag, MustKill
  <2>b. cnt' \in [Lib -> 1 .. NbrWorkers + 1]
    BY <2>1, <2>a
  <2>2. PoolTypeOK'
    BY <1>4, <2>b DEF TestRunFlag
  <2>3. ASSUME NEW k \in Lib, NEW w \in Worker, wpc'[k][w] \in Running
        PROVE  pool'[k] \in Alive /\ run_flag'[k][w] /\ w >= cnt'[k]
    <3>1. pool[k] \in Alive /\ run_flag[k][w] /\ w >= cnt[k]
      BY <1>4, <2>3 DEF PInv, TestRunFlag
    <3>2. w >= cnt'[k]
      BY <2>1, <2>a, <3>1
    <3> QED BY <1>4, <3>1, <3>2 DEF TestRunFlag, Alive
  <2>4. \A k \in Lib : pool'[k] \in Alive => Mapped(k)'
    BY <1>1, <1>4 DEF PInv, TestRunFlag, Alive
  <2>5. \A k \in Lib : pool'[k] \in {"test", "kill"} => cnt'[k] \in Worker
    BY <1>4, <2>1 DEF PInv, TestRunFlag
  <2>6. \A k \in Lib, w \in Worker : pool'[k] = "none" => wpc'[k][w] = "none"
    BY <1>4 DEF PInv, TestRunFlag
  <2> QED BY <2>2, <2>3, <2>4, <2>5, <2>6 DEF PInv
<1>5. CASE Kill(l)
  <2>1. cnt[l] \in Worker
    BY <1>5 DEF PInv, Kill
  <2>2. PoolTypeOK'
    BY <1>5, <2>1 DEF Kill
  <2>3. ASSUME NEW k \in Lib, NEW w \in Worker, wpc'[k][w] \in Running
        PROVE  pool'[k] \in Alive /\ run_flag'[k][w] /\ w >= cnt'[k]
    BY <1>5, <2>1, <2>3 DEF PInv, Kill, Alive, Running
  <2>4. \A k \in Lib : pool'[k] \in Alive => Mapped(k)'
    BY <1>1, <1>5 DEF PInv, Kill, Alive
  <2>5. \A k \in Lib : pool'[k] \in {"test", "kill"} => cnt'[k] \in Worker
    BY <1>5, <2>1 DEF PInv, Kill
  <2>6. \A k \in Lib, w \in Worker : pool'[k] = "none" => wpc'[k][w] = "none"
    BY <1>5, <2>1 DEF PInv, Kill
  <2> QED BY <2>2, <2>3, <2>4, <2>5, <2>6 DEF PInv
<1>6. CASE FreePool(l)
  <2>1. PoolTypeOK'
    BY <1>6 DEF FreePool
  <2>2. cnt[l] = NbrWorkers + 1
    <3>1. cnt[l] \in 1 .. NbrWorkers + 1 /\ cnt[l] \notin 1 .. NbrWorkers
      BY <1>6 DEF FreePool
    <3> HIDE DEF PoolTypeOK
    <3> QED BY <3>1, <1>0
  <2>3. \A w \in Worker : wpc[l][w] \notin Running
    BY <2>2 DEF PInv
  <2>4. UNCHANGED <<cnt, run_flag, wpc>> /\ pool' = [pool EXCEPT ![l] = "freed"]
    BY <1>6 DEF FreePool
  <2>5. pool[l] = "join"
    BY <1>6 DEF FreePool
  <2> QED BY <1>1, <2>1, <2>3, <2>4, <2>5 DEF PInv, Alive
<1> QED BY <1>2, <1>3, <1>4, <1>5, <1>6 DEF Destructor

\* A table keeps its type.
LEMMA PutIn ==
  ASSUME NEW A, NEW B, NEW S, NEW f \in [A -> [B -> S]], NEW a \in A, NEW b \in B,
         NEW x \in S
  PROVE  [f EXCEPT ![a][b] = x] \in [A -> [B -> S]]
OBVIOUS

\* What a worker does, it does alone; its object is not destroyed if it runs.
LEMMA WorkerInv ==
  ASSUME PInv, NEW l \in Lib, NEW w \in Worker,
         Notified(l, w) \/ Inside(l, w), UNCHANGED finderVars
  PROVE  PInv'
<1>0. PoolTypeOK /\ NbrWorkers \in Nat
  BY WorkerAssumption DEF PInv
<1>1. \A k \in Lib : Mapped(k) <=> Mapped(k)'
  BY DEF finderVars, Mapped
<1>2. UNCHANGED <<pool, cnt, exit_flag>>
  BY DEF Notified, Inside, Attach, Leave, Begin, TestExit, Work, EndRun
<1>3. PoolTypeOK'
  <2>1. \E next \in {"top", "over", "work", "leaving", "attached", "gone", "astray"} :
          wpc' = [wpc EXCEPT ![l][w] = next]
    BY DEF Notified, Attach, Leave, Inside, Begin, TestExit, Work, EndRun, Touch
  <2>2. run_flag' = run_flag \/ \E f \in BOOLEAN : run_flag' = [run_flag EXCEPT ![l][w] = f]
    BY DEF Notified, Attach, Leave, Inside, Begin, TestExit, Work, EndRun
  <2>3. wpc' \in [Lib -> [Worker -> {"none", "new", "attached", "top", "work",
                    "over", "leaving", "gone", "killed", "astray"}]]
    BY <1>0, <2>1 DEF PoolTypeOK
  <2>4. run_flag' \in [Lib -> [Worker -> BOOLEAN]]
    <3>1. run_flag \in [Lib -> [Worker -> BOOLEAN]]
      BY <1>0 DEF PoolTypeOK
    <3>2. CASE run_flag' = run_flag
      BY <3>1, <3>2
    <3>3. ASSUME NEW f \in BOOLEAN, run_flag' = [run_flag EXCEPT ![l][w] = f]
          PROVE  run_flag' \in [Lib -> [Worker -> BOOLEAN]]
      BY <3>1, <3>3, PutIn, Zenon
    <3> QED BY <2>2, <3>2, <3>3
  <2> QED BY <1>0, <1>2, <2>3, <2>4 DEF PoolTypeOK
<1>4. wpc[l][w] # "none" /\ pool[l] # "none"
  BY DEF PInv, Notified, Inside, Attach, Leave, Begin, TestExit, Work, EndRun
<1>5. \A k \in Lib, v \in Worker : k # l \/ v # w =>
        wpc'[k][v] = wpc[k][v] /\ run_flag'[k][v] = run_flag[k][v]
  BY <1>0 DEF PoolTypeOK, Notified, Inside, Attach, Leave, Begin, TestExit, Work,
     EndRun, Touch
<1>6. wpc'[l][w] \in Running => pool[l] \in Alive /\ run_flag'[l][w] /\ w >= cnt[l]
  <2> USE <1>0, <1>4 DEF PoolTypeOK, Running, Alive, Touch, Destroyed, Worker
  <2>1. CASE Notified(l, w)
    BY <2>1 DEF Notified, Attach, Leave
  <2>2. CASE Begin(l, w)
    BY <2>2 DEF Begin
  <2>3. CASE TestExit(l, w) \/ Work(l, w)
    BY <2>3 DEF TestExit, Work, PInv
  <2>4. CASE EndRun(l, w)
    BY <2>4 DEF EndRun
  <2> QED BY <2>1, <2>2, <2>3, <2>4 DEF Inside
<1> QED BY <1>1, <1>2, <1>3, <1>4, <1>5, <1>6 DEF PInv
-----------------------------------------------------------------------------
(* The invariant, and what it says.                                        *)

LEMMA FinderKept == ASSUME FInv, UNCHANGED finderVars PROVE FInv'
<1> USE DEF finderVars
<1>1. Exist' /\ OnlyStd' /\ FinderTypeOK' /\ CountType'
  BY DEF FInv, Exist, OnlyStd, FinderTypeOK, CountType, Counted
<1>2. ASSUME NEW p \in Actor PROVE Places(p)' /\ Mutexed(p)' /\ Found(p)'
  BY DEF FInv, Places, Mutexed, Found, Settled
<1> QED BY <1>1, <1>2 DEF FInv, CountType

LEMMA Invariance == Spec => []IInv
<1>1. Init => IInv
  BY FinderInitInv, PoolInitInv DEF Init, IInv
<1>2. IInv /\ [Next]_vars => IInv'
  <2> SUFFICES ASSUME IInv, [Next]_vars PROVE IInv'
    OBVIOUS
  <2> USE DEF IInv
  <2>1. ASSUME NEW p \in Actor, Decide(p) \/ Continue(p), UNCHANGED poolVars
        PROVE  IInv'
    <3>1. \A l \in Lib : pool[l] \in Alive => Mapped(l)'
      BY <2>1, MappedKept DEF PInv
    <3> QED BY <2>1, <3>1, FinderStepInv, PoolsKept
  <2>2. ASSUME NEW p \in Actor, UsePool(p) PROVE IInv'
    BY <2>2, UsedIsMapped, CreatePoolInv, FinderKept DEF UsePool
  <2>3. ASSUME NEW p \in Actor, NEW w \in Worker, SetNbrThreads(p, w) PROVE IInv'
    BY <2>3, UsedIsMapped, ReduceInv, FinderKept DEF SetNbrThreads
  <2>4. ASSUME NEW p \in Actor, Unload(p) PROVE IInv'
    <3>1. path[p] \in Lib
      BY <2>4 DEF Unload, FInv, Places, FinderTypeOK
    <3>2. CASE Destructor(path[p]) /\ UNCHANGED finderVars
      BY <3>1, <3>2, DestructorInv, FinderKept
    <3>3. CASE /\ pool[path[p]] \in {"none", "freed"}
               /\ EndDetach(p)
               /\ UNCHANGED poolVars
      <4>1. \A l \in Lib : pool[l] \in Alive => Mapped(l)'
        BY <3>3, UnloadKept
      <4> QED BY <3>3, <4>1, FinderStepInv, PoolsKept
    <3> QED BY <2>4, <3>2, <3>3 DEF Unload
  <2>5. ASSUME NEW l \in Lib, NEW w \in Worker, WorkerStep(l, w) PROVE IInv'
    BY <2>5, WorkerInv, FinderKept DEF WorkerStep
  <2>6. CASE UNCHANGED vars
    <3>1. \A l \in Lib : pool[l] \in Alive => Mapped(l)'
      BY <2>6 DEF vars, finderVars, PInv, Mapped
    <3>2. UNCHANGED finderVars /\ UNCHANGED poolVars
      BY <2>6 DEF vars
    <3> QED BY <3>1, <3>2, PoolsKept, FinderKept
  <2> QED BY <2>1, <2>2, <2>3, <2>4, <2>5, <2>6 DEF Next, ActorStep
<1> QED BY <1>1, <1>2, PTL DEF Spec

\* The path that a plug-in reads under the mutex is whole, and that of a copy
\* that exists (AvstpFinder.cpp:60-121, 139-174).
THEOREM PathRead == Spec => []PathIsWhole
<1>1. IInv => PathIsWhole
  BY ActorFacts DEF IInv, FInv, Exist, PathIsWhole
<1> QED BY <1>1, Invariance, PTL

\* The reference count of a copy is the number of its users, also after the
\* constructor of a wrapper has thrown (AvstpWrapper.cpp:62-68, 195-206).
THEOREM RefsAreUsers == Spec => []RefsMatch
<1>1. IInv => RefsMatch
  BY DEF IInv, FInv, Counted, RefsMatch
<1> QED BY <1>1, Invariance, PTL

\* A plug-in that begins its search after a copy has created the mutex uses the
\* copy whose path is published, if one is, unless a call of the system has
\* failed between the mutex and the load of that copy
\* (AvstpFinder.cpp:133-184).
THEOREM PublishedIsFound == Spec => []FindsPublished
<1>1. IInv => FindsPublished
  BY ActorFacts DEF IInv, FInv, Found, Holds, FindsPublished
<1> QED BY <1>1, Invariance, PTL

\* If the standard search finds a copy and loads it, and the host loads none by
\* itself, no two copies are ever loaded, whatever the order of the plug-ins and
\* whatever else fails (AvstpFinder.cpp:125-203; doc/avstp.html:51).
THEOREM SharedLibrary == Spec => []OneLibrary
<1>1. IInv => OneLibrary
  <2> SUFFICES ASSUME IInv, Std \in copies, \A h \in Host : loads[h] = 0, ~unnamed
               PROVE  Cardinality(Loaded) <= 1
    BY DEF OneLibrary
  <2>1. Loaded \subseteq {Std}
    BY LoadedFacts DEF IInv
  <2>2. IsFiniteSet({Std}) /\ Cardinality({Std}) = 1
    BY FS_Singleton
  <2> QED BY <2>1, <2>2, FS_Subset
<1> QED BY <1>1, Invariance, PTL

\* The code of a copy outlives the wrappers that point to it.  It and the
\* object of a worker outlive the run of the worker, from the setting of its
\* _run_flag to the clearing: if it has not ended when ~ThreadPool has waited
\* 0.1 s, it is killed before its object is destroyed.  Nothing is said of a
\* worker that has not begun to run then, which goes astray, nor of the return
\* of one that has ended (ThreadPool.cpp:64-74, ThreadBase.cpp:73-87, 164-174).
THEOREM RunningIsSafe == Spec => []RunsSafely
<1>1. IInv => RunsSafely
  <2> SUFFICES ASSUME IInv PROVE RunsSafely
    OBVIOUS
  <2>1. \A l \in Lib, w \in Worker : wpc[l][w] \in Running =>
          run_flag[l][w] /\ ~Destroyed(l, w) /\ Mapped(l)
    <3> SUFFICES ASSUME NEW l \in Lib, NEW w \in Worker, wpc[l][w] \in Running
                 PROVE  run_flag[l][w] /\ ~Destroyed(l, w) /\ Mapped(l)
      OBVIOUS
    <3>1. pool[l] \in Alive /\ run_flag[l][w] /\ w >= cnt[l] /\ Mapped(l)
      BY DEF IInv, PInv
    <3>2. cnt[l] \in Int /\ w \in Int
      BY WorkerAssumption DEF IInv, PInv, PoolTypeOK, Worker
    <3> QED BY <3>1, <3>2 DEF Destroyed, Alive
  <2>2. \A p \in Plugin : fnc[p] = "normal" => Mapped(hnd[p])
    BY ActorFacts, UsedIsMapped DEF IInv, FInv, Places
  <2> QED BY <2>1, <2>2 DEF IInv, PInv, RunsSafely, Running
<1> QED BY <1>1, Invariance, PTL
=============================================================================
