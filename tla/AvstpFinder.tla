---------------------------- MODULE AvstpFinder ----------------------------
(***************************************************************************)
(* How the plug-ins of a process come to share one avstp.dll: the library  *)
(* publishes its path when it is loaded (AvstpFinder::publish_lib, called  *)
(* by DllMain under the lock of the loader), in a file that a named mutex  *)
(* protects; the AvstpWrapper of each plug-in looks for it (find_lib),     *)
(* loads it and resolves its functions, or does without.  The host may     *)
(* load copies of the library by itself, as plug-ins.                      *)
(*                                                                         *)
(* A copy of the library is named by its directory; Std is the one the     *)
(* standard search of the system finds.  The singleton of a plug-in is     *)
(* constructed by one thread at a time, so a plug-in is one thread here.   *)
(***************************************************************************)
EXTENDS Naturals, FiniteSets

CONSTANTS
  Plugin,      \* the plug-ins with an AvstpWrapper
  Host,        \* the threads of the host that load avstp.dll by its path
  Lib,         \* the directories there may be a copy in
  Std,         \* the one of the standard search
  Old,         \* the ones whose copy misses a function
  None,
  MaxLoads     \* bound on the loads of each plug-in

Actor == Plugin \cup Host

ASSUME ActorAssumption ==
  /\ Plugin \cap Host = {}
  /\ IsFiniteSet(Actor)
  /\ None \notin Actor \cup Lib \cup {"blank", "absent", "normal", "fallback"}
  /\ "blank" \notin Lib
  /\ "absent" \notin Actor
  /\ Std \in Lib
  /\ Old \subseteq Lib
  /\ MaxLoads \in Nat

VARIABLES
  copies,     \* the directories with a copy of the library
  refs,       \* refs[l]: reference count of copy l, loaded if not 0
  loader,     \* who holds the lock of the loader
  mutex,      \* the named mutex: "absent", None (free) or its owner
  file,       \* the mapped file: None (absent), "blank" or the path in it
  pc,         \* what each plug-in does next
  path,       \* path[p]: dll_path_0 as p has read it, or the copy p unloads
  hnd,        \* hnd[p]: the copy p holds a reference to (_dll_hnd)
  fnc,        \* fnc[p]: the functions of p: None, "normal" or "fallback"
  met,        \* met[p]: the mutex existed when the search of p began, and no
              \* call of the system has failed since on the way to the path
  loads,      \* loads[p]: loads of p so far
  unnamed     \* a load of the standard search has failed, for all its copies

sharedVars == <<refs, loader, mutex, file>>
finderVars == <<copies, refs, loader, mutex, file, pc, path,
                hnd, fnc, met, loads, unnamed>>

FinderInit ==
  /\ copies \in SUBSET Lib
  /\ refs = [l \in Lib |-> 0]
  /\ loader = None
  /\ mutex = "absent"
  /\ file = None
  /\ pc = [p \in Actor |-> "idle"]
  /\ path = [p \in Actor |-> None]
  /\ hnd = [p \in Actor |-> None]
  /\ fnc = [p \in Actor |-> None]
  /\ met = [p \in Actor |-> FALSE]
  /\ loads = [p \in Actor |-> 0]
  /\ unnamed = FALSE

Goto(p, l) == pc' = [pc EXCEPT ![p] = l]

Loaded == {l \in Lib : refs[l] > 0}
LoaderFree == loader = None

-----------------------------------------------------------------------------
(* LoadLibraryW.  The first load of a copy runs its DllMain under the lock *)
(* of the loader, which calls publish_lib.                                 *)

Load(p, l) ==
  /\ LoaderFree
  /\ refs' = [refs EXCEPT ![l] = @ + 1]
  /\ hnd' = [hnd EXCEPT ![p] = l]
  /\ IF refs[l] = 0
     THEN loader' = p /\ Goto(p, "create")
     ELSE UNCHANGED loader /\ Goto(p, "loaded")

\* CreateMutexW: another copy has created the mutex, and published its path
\* or is about to; or the mutex is created and owned at once; or it fails.
MutantNotOwned(p) == None
NewOwner(p) == p

MutantIgnoresExisting == mutex \in {"absent", None}
Absent == mutex = "absent"

CreateMutex(p) ==
  /\ pc[p] = "create"
  /\ \/ /\ mutex # "absent"
        /\ Goto(p, "attached")
        /\ UNCHANGED mutex
     \/ /\ Absent
        /\ mutex' = NewOwner(p)
        /\ Goto(p, "map")
     \/ /\ mutex = "absent"
        /\ Goto(p, "attached")
        /\ UNCHANGED mutex
  /\ UNCHANGED <<copies, unnamed, refs, loader, file, path, hnd, fnc, met,
                 loads>>

\* CreateFileMappingW, whose memory is zeroed, may fail.
MapFile(p) ==
  /\ pc[p] = "map"
  /\ \/ file' = "blank" /\ Goto(p, "copy")
     \/ UNCHANGED file /\ Goto(p, "unlock")
  /\ UNCHANGED <<copies, unnamed, refs, loader, mutex, path, hnd, fnc, met,
                 loads>>

\* The path is copied, or the view fails and the file is closed.
CopyPath(p) ==
  /\ pc[p] = "copy"
  /\ file' \in {hnd[p], None}
  /\ Goto(p, "unlock")
  /\ UNCHANGED <<copies, unnamed, refs, loader, mutex, path, hnd, fnc, met,
                 loads>>

\* Neither the mutex nor the file is ever closed.
ReleaseNew(p) ==
  /\ pc[p] = "unlock"
  /\ mutex' = None
  /\ Goto(p, "attached")
  /\ UNCHANGED <<copies, unnamed, refs, loader, file, path, hnd, fnc, met,
                 loads>>

EndAttach(p) ==
  /\ pc[p] = "attached"
  /\ loader' = None
  /\ Goto(p, "loaded")
  /\ UNCHANGED <<copies, unnamed, refs, mutex, file, path, hnd, fnc, met,
                 loads>>

-----------------------------------------------------------------------------
(* AvstpFinder::find_lib, called by AvstpWrapper::use_instance.            *)

\* OpenMutexW: there is none as long as no copy has created it, or it cannot
\* be opened.
OpenMutex(p) ==
  /\ p \in Plugin
  /\ pc[p] = "idle"
  /\ loads[p] < MaxLoads
  /\ loads' = [loads EXCEPT ![p] = @ + 1]
  /\ \/ /\ mutex # "absent"
        /\ met' = [met EXCEPT ![p] = TRUE]
        /\ Goto(p, "wait")
     \/ /\ Goto(p, "search")
        /\ UNCHANGED met
  /\ UNCHANGED <<copies, unnamed, sharedVars, path, hnd, fnc>>

\* WaitForSingleObject (mutex_hnd, INFINITE).
AcquireMutex(p) ==
  /\ pc[p] = "wait"
  /\ mutex = None
  /\ mutex' = p
  /\ Goto(p, "read")
  /\ UNCHANGED <<copies, unnamed, refs, loader, file, path, hnd, fnc, met,
                 loads>>

\* A call of the system fails between the mutex and the path: the plug-in goes
\* on to l, on its way to the standard search.
Fails(p, l) == Goto(p, l) /\ met' = [met EXCEPT ![p] = FALSE]

\* The wait fails, and nothing is held.
WaitFails(p) ==
  /\ pc[p] = "wait"
  /\ Fails(p, "search")
  /\ UNCHANGED <<copies, unnamed, sharedVars, path, hnd, fnc, loads>>

\* OpenFileMappingW, MapViewOfFile and the copy of the path.  There may be no
\* file; it may not open, and its view may fail.
ReadPath(p) ==
  /\ pc[p] = "read"
  /\ \/ /\ file # None
        /\ path' = [path EXCEPT ![p] = file]
        /\ Goto(p, "load")
        /\ UNCHANGED met
     \/ /\ file = None
        /\ Goto(p, "release")
        /\ UNCHANGED <<path, met>>
     \/ /\ file # None
        /\ Fails(p, "release")
        /\ UNCHANGED path
  /\ UNCHANGED <<copies, unnamed, sharedVars, hnd, fnc, loads>>

\* The mutex is held while the library is loaded, which may fail.
LoadPath(p) ==
  /\ pc[p] = "load"
  /\ \/ /\ Load(p, path[p])
        /\ UNCHANGED met
     \/ /\ LoaderFree
        /\ Fails(p, "release")
        /\ UNCHANGED <<refs, loader, hnd>>
  /\ path' = [path EXCEPT ![p] = None]
  /\ UNCHANGED <<copies, unnamed, mutex, file, fnc, loads>>

Holds(p) == mutex = p

ReleaseMutex(p) ==
  /\ \/ pc[p] = "release"
     \/ pc[p] = "loaded" /\ Holds(p)
  /\ mutex' = None
  /\ Goto(p, IF hnd[p] = None THEN "search" ELSE "loaded")
  /\ UNCHANGED <<copies, unnamed, refs, loader, file, path, hnd, fnc, met,
                 loads>>

\* LoadLibraryW (L"avstp.dll"): a copy already loaded, or the standard one;
\* there is none, or it cannot be loaded.
MutantNoStd == Loaded
ByName == IF Loaded # {} THEN Loaded ELSE {Std} \cap copies

Search(p) ==
  /\ pc[p] = "search"
  /\ \/ /\ \E l \in ByName : Load(p, l)
        /\ UNCHANGED unnamed
     \/ /\ LoaderFree
        /\ Goto(p, "own")
        /\ unnamed' = (unnamed \/ ByName # {})
        /\ UNCHANGED <<refs, loader, hnd>>
  /\ UNCHANGED <<copies, mutex, file, path, fnc, met, loads>>

\* get_code_module, and the copy in the directory of the calling plug-in: that
\* of any copy, or one without a copy, or it cannot be found.
LoadOwn(p) ==
  /\ pc[p] = "own"
  /\ \/ \E l \in copies : Load(p, l)
     \/ /\ Goto(p, "fallback")
        /\ UNCHANGED <<refs, loader, hnd>>
  /\ UNCHANGED <<copies, unnamed, mutex, file, path, fnc, met, loads>>

-----------------------------------------------------------------------------
(* AvstpWrapper.                                                           *)

\* A function is missing: the library is freed and the constructor throws.
MutantKeptLoaded(p) == Goto(p, "idle") /\ hnd' = [hnd EXCEPT ![p] = None]
GiveUp(p) == Goto(p, "free") /\ UNCHANGED hnd

AssignNormal(p) ==
  /\ p \in Plugin
  /\ pc[p] = "loaded"
  /\ ~Holds(p)
  /\ \/ /\ hnd[p] \in Old
        /\ GiveUp(p)
        /\ UNCHANGED fnc
     \/ /\ hnd[p] \notin Old
        /\ fnc' = [fnc EXCEPT ![p] = "normal"]
        /\ Goto(p, "ready")
        /\ UNCHANGED hnd
  /\ met' = [met EXCEPT ![p] = FALSE]
  /\ UNCHANGED <<copies, unnamed, sharedVars, path, loads>>

AssignFallback(p) ==
  /\ pc[p] = "fallback"
  /\ fnc' = [fnc EXCEPT ![p] = "fallback"]
  /\ met' = [met EXCEPT ![p] = FALSE]
  /\ Goto(p, "ready")
  /\ UNCHANGED <<copies, unnamed, sharedVars, path, hnd, loads>>

\* ~AvstpWrapper, when the plug-in is unloaded.
Destroy(p) ==
  /\ p \in Plugin
  /\ pc[p] = "ready"
  /\ fnc' = [fnc EXCEPT ![p] = None]
  /\ Goto(p, IF hnd[p] = None THEN "idle" ELSE "free")
  /\ UNCHANGED <<copies, unnamed, sharedVars, path, hnd, met, loads>>

\* FreeLibrary: the last reference runs the destructors of the library.
Free(p) ==
  /\ pc[p] = "free"
  /\ LoaderFree
  /\ refs' = [refs EXCEPT ![hnd[p]] = @ - 1]
  /\ IF refs[hnd[p]] = 1
     THEN /\ loader' = p
          /\ path' = [path EXCEPT ![p] = hnd[p]]
          /\ Goto(p, "detach")
     ELSE /\ path' = [path EXCEPT ![p] = None]
          /\ Goto(p, "idle")
          /\ UNCHANGED loader
  /\ hnd' = [hnd EXCEPT ![p] = None]
  /\ UNCHANGED <<copies, unnamed, mutex, file, fnc, met, loads>>

EndDetach(p) ==
  /\ pc[p] = "detach"
  /\ loader' = None
  /\ path' = [path EXCEPT ![p] = None]
  /\ Goto(p, "idle")
  /\ UNCHANGED <<copies, unnamed, refs, mutex, file, hnd, fnc, met, loads>>

-----------------------------------------------------------------------------
(* The host loads any copy by its path as a plug-in, and frees it.         *)

HostLoad(h) ==
  /\ h \in Host
  /\ pc[h] = "idle"
  /\ loads[h] < MaxLoads
  /\ loads' = [loads EXCEPT ![h] = @ + 1]
  /\ \E l \in copies : Load(h, l)
  /\ UNCHANGED <<copies, unnamed, mutex, file, path, fnc, met>>

HostFree(h) ==
  /\ h \in Host
  /\ pc[h] = "loaded"
  /\ Goto(h, "free")
  /\ UNCHANGED <<copies, unnamed, sharedVars, path, hnd, fnc, met, loads>>

-----------------------------------------------------------------------------
\* What a plug-in or the host decides, or the system, and what must follow: an
\* infinite wait does not have to fail.
Decide(p) ==
  OpenMutex(p) \/ WaitFails(p) \/ Destroy(p) \/ HostLoad(p) \/ HostFree(p)
Continue(p) ==
  \/ CreateMutex(p) \/ MapFile(p) \/ CopyPath(p) \/ ReleaseNew(p)
  \/ EndAttach(p)
  \/ AcquireMutex(p) \/ ReadPath(p) \/ LoadPath(p) \/ ReleaseMutex(p)
  \/ Search(p) \/ LoadOwn(p) \/ AssignNormal(p) \/ AssignFallback(p)
  \/ Free(p)

FinderTypeOK ==
  /\ copies \in SUBSET Lib
  /\ refs \in [Lib -> 0 .. Cardinality(Actor)]
  /\ loader \in Actor \cup {None}
  /\ mutex \in Actor \cup {None, "absent"}
  /\ file \in Lib \cup {None, "blank"}
  /\ pc \in [Actor -> {"idle", "create", "map", "copy", "unlock", "attached",
                       "wait", "read", "load", "release", "search", "own",
                       "loaded", "fallback", "ready", "free", "detach"}]
  /\ path \in [Actor -> Lib \cup {None}]
  /\ hnd \in [Actor -> Lib \cup {None}]
  /\ fnc \in [Actor -> {None, "normal", "fallback"}]
  /\ met \in [Actor -> BOOLEAN]
  /\ loads \in [Actor -> 0 .. MaxLoads]
  /\ unnamed \in BOOLEAN

\* The path a plug-in reads is whole, and that of a copy that exists: the mutex
\* covers its publication (AvstpFinder.cpp:60-121, 139-174).
PathIsWhole == \A p \in Plugin : pc[p] = "load" => path[p] \in copies

\* The reference count of a copy is the number of its users: it stays loaded
\* while the functions of a wrapper point to it, and no longer, also when the
\* constructor of a wrapper throws (AvstpWrapper.cpp:62-68, 195-206).
RefsMatch ==
  /\ FinderTypeOK
  /\ \A l \in Lib : refs[l] = Cardinality({p \in Actor : hnd[p] = l})

\* A plug-in that begins its search after a copy has created the mutex uses
\* the copy that is published, if one is, unless a call of the system fails
\* between the mutex and the load of that copy, which sends it to the standard
\* search (AvstpFinder.cpp:133-184).
FindsPublished ==
  \A p \in Plugin :
    pc[p] = "loaded" /\ ~Holds(p) /\ met[p] /\ file # None => hnd[p] = file

\* As long as the host loads no other copy, and the standard search finds one
\* and loads it, all plug-ins share it, whatever their order and whatever else
\* fails (doc/avstp.html:51).
OneLibrary ==
  Std \in copies /\ (\A h \in Host : loads[h] = 0) /\ ~unnamed =>
    Cardinality(Loaded) <= 1
=============================================================================
